-------------------------- MODULE Lab6ProgramsProofs --------------------------
(***************************************************************************)
(* Proofs about the programs of Lab6.  To one reader a CharDevice is a     *)
(* mailbox, whatever calls overlap; calls that do not overlap pass whole   *)
(* messages; and every client that draws a vote holds itself for the       *)
(* master.  SpeakerDriver returns its pins whatever fails, no process gets *)
(* a press twice, and the speaker has the period of the last note written  *)
(* unless writes overlapped: for any number of processes, buttons and      *)
(* presses.  Each program behaves in MCLab6Programs as it does alone.      *)
(***************************************************************************)
EXTENDS MCLab6Programs, TLAPS

USE UserAssumption

DeviceType ==
  /\ writes \in 0 .. MaxWrites
  /\ head \in 0 .. writes /\ tail \in 0 .. writes
  /\ call \in [User -> {"none", "failed", "copy", "end", "clear"}]
  /\ call[reader] \in {"none", "copy", "clear"}
  /\ \A u \in Writer : call[u] # "clear"
  /\ arg \in [Writer -> [id : Nat, long : BOOLEAN]]
  /\ \A u \in Writer : arg[u].id <= writes
  /\ got \in [head : Nat, tail : Nat] /\ got.head <= writes
  /\ taken \subseteq 1 .. writes
  /\ last \in [id : Nat, long : BOOLEAN, alone : BOOLEAN] /\ last.id <= writes
  /\ alone \in [User -> BOOLEAN]

\* A message that has been taken is in the string only until it is cleared by
\* the call that has taken it.
TakenInv ==
  head \in taken => call[reader] \in {"copy", "clear"} /\ head = got.head

MailInv == DeviceType /\ TakenInv

LEMMA MeetsType == ASSUME NEW u \in User, Meets(u), alone \in [User -> BOOLEAN]
                   PROVE  alone' \in [User -> BOOLEAN]
<1>1. \A v \in User : alone[v] \in BOOLEAN
  OBVIOUS
<1>2. QED
  BY <1>1, Zenon DEF Meets

LEMMA MailStep == MailInv /\ [DeviceNext]_deviceVars => MailInv'
<1> SUFFICES ASSUME MailInv, [DeviceNext]_deviceVars PROVE MailInv'
  OBVIOUS
<1> USE DEF MailInv, DeviceType, TakenInv, Idle, Goto, User, reader
<1>1. CASE Register \/ Unregister
  <2>1. UNCHANGED <<head, tail, call, arg, got, writes, taken, last, alone>>
    BY <1>1 DEF Register, Unregister
  <2>2. QED
    BY <2>1
<1>2. ASSUME NEW u \in Writer, NEW long \in BOOLEAN, WriteBegin(u, long) PROVE MailInv'
  <2>1. /\ writes' = writes + 1 /\ writes' <= MaxWrites /\ head' = writes + 1
        /\ call' = [call EXCEPT ![u] = IF long THEN "copy" ELSE "end"]
        /\ arg' = [arg EXCEPT ![u] = [id |-> writes + 1, long |-> long]]
        /\ last' = [id |-> writes + 1, long |-> long, alone |-> alone'[u]]
        /\ Meets(u)
        /\ UNCHANGED <<tail, got, taken>>
    BY <1>2 DEF WriteBegin
  <2>2. arg' \in [Writer -> [id : Nat, long : BOOLEAN]] /\ \A w \in Writer : arg'[w].id <= writes'
    BY <2>1
  <2>3. alone' \in [User -> BOOLEAN]
    BY <2>1, MeetsType
  <2>4. last' \in [id : Nat, long : BOOLEAN, alone : BOOLEAN] /\ last'.id <= writes'
    <3>1. alone'[u] \in BOOLEAN
      BY <2>3
    <3>2. QED
      BY <2>1, <3>1
  <2>5. QED
    BY <2>1, <2>2, <2>3, <2>4
<1>3. ASSUME NEW u \in Writer, WriteCopy(u) \/ WriteEnd(u) PROVE MailInv'
  BY <1>3 DEF WriteCopy, WriteEnd
<1>4. ASSUME NEW u \in Writer, NEW fits \in BOOLEAN, WriteRefused(u, fits) PROVE MailInv'
  BY <1>4 DEF WriteRefused
<1>5. CASE ReadBegin
  <2>1. /\ got' = [head |-> head, tail |-> 0] /\ taken' = taken \cup ({head} \ {0})
        /\ call' = [call EXCEPT ![reader] = "copy"]
        /\ Meets(reader)
        /\ UNCHANGED <<head, tail, arg, writes, last>>
    BY <1>5 DEF ReadBegin
  <2>2. alone' \in [User -> BOOLEAN]
    BY <2>1, MeetsType
  <2>3. QED
    BY <2>1, <2>2
<1>6. CASE ReadCopy \/ ReadClear
  BY <1>6 DEF ReadCopy, ReadClear
<1>7. CASE UNCHANGED deviceVars
  BY <1>7 DEF deviceVars
<1>8. QED
  BY <1>1, <1>2, <1>3, <1>4, <1>5, <1>6, <1>7 DEF DeviceNext, Write, Read

LEMMA MailInit == DeviceInit => MailInv
  BY DEF DeviceInit, MailInv, DeviceType, TakenInv, Nothing, User, reader

\* What device_read has handed out is not in the device any more, unless the read
\* is about to clear it (Lab6_cdev_kmod.c:81-92).
THEOREM Mail == DeviceSpec => []MailInv
  BY MailInit, MailStep, PTL DEF DeviceSpec
-----------------------------------------------------------------------------
(***************************************************************************)
(* The device implements the mailbox.                                      *)
(***************************************************************************)
SlotNow == IF call[reader] \in {"copy", "clear"} /\ head = got.head THEN 0 ELSE head

LEMMA SlotInit == DeviceInit => Slot!Init
  BY DEF DeviceInit, Slot!Init, User

LEMMA SlotStep == MailInv /\ [DeviceNext]_deviceVars => [Slot!Next]_(Slot!vars)
<1> SUFFICES ASSUME MailInv, [DeviceNext]_deviceVars PROVE [Slot!Next]_(Slot!vars)
  OBVIOUS
<1> USE DEF MailInv, DeviceType, TakenInv, Idle, Goto, User, reader
<1>1. ASSUME UNCHANGED <<SlotNow, writes, taken>> PROVE UNCHANGED Slot!vars
  BY <1>1 DEF SlotNow, Slot!vars
<1>2. ASSUME SlotNow' = 0, UNCHANGED <<writes, taken>> PROVE Slot!Next
  BY <1>2 DEF SlotNow, Slot!Next, Slot!Lose
<1>3. ASSUME NEW u \in Writer, NEW long \in BOOLEAN, WriteBegin(u, long) PROVE Slot!Next
  <2>1. writes' = writes + 1 /\ head' = writes + 1 /\ UNCHANGED <<got, taken>>
    BY <1>3 DEF WriteBegin
  <2>2. SlotNow' = writes + 1
    BY <2>1 DEF SlotNow
  <2>3. QED
    BY <2>1, <2>2 DEF SlotNow, Slot!Next, Slot!Put
<1>4. CASE ReadBegin
  <2>1. /\ got' = [head |-> head, tail |-> 0] /\ taken' = taken \cup ({head} \ {0})
        /\ call' = [call EXCEPT ![reader] = "copy"] /\ Idle(reader)
        /\ UNCHANGED <<head, writes>>
    BY <1>4 DEF ReadBegin
  <2>2. SlotNow = head /\ SlotNow' = 0
    BY <2>1 DEF SlotNow
  <2>3. CASE head = 0
    BY <1>1, <2>1, <2>2, <2>3
  <2>4. CASE head # 0
    <3>1. head \in 1 .. writes /\ head \notin taken
      BY <2>1, <2>4
    <3>2. taken' = taken \cup {head}
      BY <2>1, <2>4
    <3>3. QED
      BY <2>1, <2>2, <3>1, <3>2 DEF SlotNow, Slot!Next, Slot!Take
  <2>5. QED
    BY <2>3, <2>4
<1>5. CASE ReadClear
  <2>1. SlotNow' = 0 /\ UNCHANGED <<writes, taken>>
    BY <1>5 DEF ReadClear, SlotNow
  <2>2. QED
    BY <1>2, <2>1
<1>6. CASE ReadCopy
  <2>1. UNCHANGED <<head, writes, taken>> /\ got'.head = got.head
        /\ call[reader] = "copy" /\ call'[reader] = "clear"
    BY <1>6 DEF ReadCopy
  <2>2. QED
    BY <1>1, <2>1 DEF SlotNow
<1>7. ASSUME UNCHANGED <<head, got, writes, taken>>, call'[reader] = call[reader]
      PROVE  UNCHANGED Slot!vars
  BY <1>1, <1>7 DEF SlotNow
<1>8. CASE Register \/ Unregister
  BY <1>7, <1>8 DEF Register, Unregister
<1>9. ASSUME NEW u \in Writer, WriteCopy(u) \/ WriteEnd(u) PROVE UNCHANGED Slot!vars
  BY <1>7, <1>9 DEF WriteCopy, WriteEnd
<1>10. ASSUME NEW u \in Writer, NEW fits \in BOOLEAN, WriteRefused(u, fits) PROVE UNCHANGED Slot!vars
  BY <1>7, <1>10 DEF WriteRefused
<1>11. CASE UNCHANGED deviceVars
  BY <1>7, <1>11 DEF deviceVars
<1>12. QED
  BY <1>3, <1>4, <1>5, <1>6, <1>8, <1>9, <1>10, <1>11 DEF DeviceNext, Write, Read

\* To one reader a device is a mailbox: no message is taken twice, whatever the
\* number of writers and wherever the calls overlap.
THEOREM DeviceIsMailbox == DeviceSpec => ImplementsMailbox
  BY SlotInit, SlotStep, Mail, PTL DEF DeviceSpec, ImplementsMailbox, Slot!Spec
-----------------------------------------------------------------------------
(***************************************************************************)
(* Calls that do not overlap pass messages whole.                          *)
(***************************************************************************)
\* A call that is under way and has met nobody is the only one.
AloneInv ==
  \A v \in User : ~ Idle(v) /\ alone[v] => \A w \in User \ {v} : Idle(w)

\* The string has the last message, when that is written and was not disturbed.
LastInv ==
  (\A u \in Writer : Idle(u)) /\ last.alone =>
    head \in {0, last.id} /\ (head # 0 => tail = IF last.long THEN last.id ELSE 0)

\* How far a write that nobody disturbs has come.
WritingInv ==
  \A u \in Writer : ~ Idle(u) /\ alone[u] =>
    /\ head = last.id /\ arg[u].id = last.id /\ arg[u].long = last.long
    /\ call[u] = "copy" => last.long
    /\ call[u] = "end" /\ last.long => tail = last.id

\* A write that was alone from its beginning is the only one.
LastAloneInv ==
  \A u \in Writer : ~ Idle(u) /\ last.alone => arg[u].id = last.id

\* What a read that nobody disturbs has copied is still in the string.
ReadingInv ==
  ~ Idle(reader) /\ alone[reader] =>
    got.head = head /\ (call[reader] = "clear" => got.tail = tail)

WholeInv == AloneInv /\ LastInv /\ WritingInv /\ LastAloneInv /\ ReadingInv

LEMMA MeetsFacts ==
  ASSUME NEW u \in User, Meets(u)
  PROVE  /\ alone'[u] => \A w \in User \ {u} : Idle(w)
         /\ \A v \in User \ {u} : alone'[v] => alone[v] /\ Idle(v)
  BY Zenon DEF Meets

LEMMA WholeInit == DeviceInit => WholeInv
  BY DEF DeviceInit, WholeInv, AloneInv, LastInv, WritingInv, LastAloneInv, ReadingInv, User,
         reader, Idle, Nothing

LEMMA WholeStep == MailInv /\ WholeInv /\ [DeviceNext]_deviceVars => WholeInv'
<1> SUFFICES ASSUME MailInv, WholeInv, [DeviceNext]_deviceVars PROVE WholeInv'
  OBVIOUS
<1> USE DEF MailInv, DeviceType, WholeInv, Idle, Goto, User, reader
<1>1. ASSUME NEW u \in Writer, NEW long \in BOOLEAN, WriteBegin(u, long) PROVE WholeInv'
  <2>1. /\ writes' = writes + 1 /\ head' = writes + 1 /\ Idle(u)
        /\ call' = [call EXCEPT ![u] = IF long THEN "copy" ELSE "end"]
        /\ arg' = [arg EXCEPT ![u] = [id |-> writes + 1, long |-> long]]
        /\ last' = [id |-> writes + 1, long |-> long, alone |-> alone'[u]]
        /\ Meets(u)
        /\ UNCHANGED <<tail, got, taken>>
    BY <1>1 DEF WriteBegin
  <2>2. /\ alone'[u] => \A w \in User \ {u} : Idle(w)
        /\ \A v \in User \ {u} : alone'[v] => alone[v] /\ Idle(v)
    BY <2>1, MeetsFacts
  <2>3. \A w \in User \ {u} : call'[w] = call[w]
    BY <2>1
  <2>4. ~ Idle(u)'
    BY <2>1
  <2>5. AloneInv'
    BY <2>1, <2>2, <2>3, <2>4 DEF AloneInv
  <2>6. LastInv'
    BY <2>4 DEF LastInv
  <2>7. last'.id = writes + 1 /\ last'.long = long /\ last'.alone = alone'[u]
    BY <2>1
  <2>8. arg'[u].id = writes + 1 /\ arg'[u].long = long
    BY <2>1
  <2>9. WritingInv'
    BY <2>1, <2>2, <2>3, <2>7, <2>8 DEF WritingInv
  <2>10. LastAloneInv'
    BY <2>2, <2>3, <2>7, <2>8 DEF LastAloneInv
  <2>11. ReadingInv'
    BY <2>2, <2>3 DEF ReadingInv
  <2>12. QED
    BY <2>5, <2>6, <2>9, <2>10, <2>11
<1>2. ASSUME NEW u \in Writer, WriteCopy(u) PROVE WholeInv'
  BY <1>2 DEF WriteCopy, AloneInv, LastInv, WritingInv, LastAloneInv, ReadingInv
<1>3. ASSUME NEW u \in Writer, WriteEnd(u) PROVE WholeInv'
  <2>1. /\ call[u] = "end" /\ call' = [call EXCEPT ![u] = "none"]
        /\ tail' = IF arg[u].long THEN tail ELSE 0
        /\ last' = [last EXCEPT !.alone = @ /\ (last.id = arg[u].id => alone[u])]
        /\ UNCHANGED <<head, arg, got, alone>>
    BY <1>3 DEF WriteEnd
  <2>2. /\ last'.id = last.id /\ last'.long = last.long
        /\ last'.alone => last.alone /\ (last.id = arg[u].id => alone[u])
    <3>1. last'.alone = (last.alone /\ (last.id = arg[u].id => alone[u]))
      BY <2>1, Zenon DEF MailInv, DeviceType
    <3>2. QED
      BY <2>1, <3>1
  <2>3. AloneInv'
    BY <2>1 DEF AloneInv
  <2>4. LastInv'
    BY <2>1, <2>2 DEF LastInv, WritingInv, LastAloneInv
  <2>5. WritingInv'
    BY <2>1, <2>2 DEF WritingInv, AloneInv
  <2>6. LastAloneInv'
    BY <2>1, <2>2 DEF LastAloneInv
  <2>7. ReadingInv'
    BY <2>1 DEF ReadingInv, AloneInv
  <2>8. QED
    BY <2>3, <2>4, <2>5, <2>6, <2>7
<1>4. ASSUME NEW u \in Writer, NEW fits \in BOOLEAN, WriteRefused(u, fits) PROVE WholeInv'
  BY <1>4 DEF WriteRefused, AloneInv, LastInv, WritingInv, LastAloneInv, ReadingInv
<1>5. CASE ReadBegin
  <2>1. /\ got' = [head |-> head, tail |-> 0]
        /\ call' = [call EXCEPT ![reader] = "copy"]
        /\ Meets(reader)
        /\ UNCHANGED <<head, tail, arg, last>>
    BY <1>5 DEF ReadBegin
  <2>2. /\ alone'[reader] => \A w \in User \ {reader} : Idle(w)
        /\ \A v \in User \ {reader} : alone'[v] => alone[v] /\ Idle(v)
    BY <2>1, MeetsFacts
  <2>3. QED
    BY <2>1, <2>2 DEF AloneInv, LastInv, WritingInv, LastAloneInv, ReadingInv
<1>6. CASE ReadCopy
  BY <1>6 DEF ReadCopy, AloneInv, LastInv, WritingInv, LastAloneInv, ReadingInv
<1>7. CASE ReadClear
  BY <1>7 DEF ReadClear, AloneInv, LastInv, WritingInv, LastAloneInv, ReadingInv
<1>8. CASE Register \/ Unregister
  <2>1. UNCHANGED <<head, tail, call, arg, got, writes, taken, last, alone>>
    BY <1>8 DEF Register, Unregister
  <2>2. QED
    BY <2>1 DEF AloneInv, LastInv, WritingInv, LastAloneInv, ReadingInv
<1>9. CASE UNCHANGED deviceVars
  BY <1>9 DEF deviceVars, AloneInv, LastInv, WritingInv, LastAloneInv, ReadingInv
<1>10. QED
  BY <1>1, <1>2, <1>3, <1>4, <1>5, <1>6, <1>7, <1>8, <1>9 DEF DeviceNext, Write, Read

LEMMA WholeImplies == MailInv /\ WholeInv => WholeWhenAlone
  BY DEF MailInv, DeviceType, WholeInv, AloneInv, LastInv, ReadingInv, WholeWhenAlone, Idle,
         User, reader

\* A read that overlaps no other call gets nothing or the last message as it
\* was written, if no call overlapped the write.
THEOREM WholeMessages == DeviceSpec => []WholeWhenAlone
  BY WholeInit, WholeStep, WholeImplies, Mail, PTL DEF DeviceSpec
-----------------------------------------------------------------------------
(***************************************************************************)
(* The client.                                                             *)
(***************************************************************************)
USE ClientAssumption

LEMMA ClientStep == [Next]_vars => [DeviceNext]_deviceVars
<1> SUFFICES ASSUME [Next]_vars PROVE [DeviceNext]_deviceVars
  OBVIOUS
<1>1. ASSUME UNCHANGED deviceVars PROVE [DeviceNext]_deviceVars
  BY <1>1
<1>2. CASE Open \/ Connect \/ Subscribe \/ LineWritten \/ Leave
  BY <1>2 DEF Open, Connect, Subscribe, LineWritten, Leave
<1>3. ASSUME NEW kind \in Typed, TypeLine(kind) PROVE UNCHANGED deviceVars
  BY <1>3 DEF TypeLine
<1>4. CASE WriteLine
  BY <1>4 DEF WriteLine, DeviceNext, Write
<1>5. CASE Ignore \/ AnswerWhois \/ HandleVote
  BY <1>5 DEF Ignore, AnswerWhois, HandleVote
<1>6. CASE PlayNote
  BY <1>6 DEF PlayNote, DeviceNext, Write
<1>7. ASSUME NEW kind \in Foreign, NEW same \in BOOLEAN, Receive(kind, same) PROVE UNCHANGED deviceVars
  BY <1>7 DEF Receive
<1>8. CASE DeviceStep
  BY <1>8 DEF DeviceStep, DeviceNext, Write
<1>9. CASE UNCHANGED vars
  BY <1>9 DEF vars
<1>10. QED
  BY <1>2, <1>3, <1>4, <1>5, <1>6, <1>7, <1>8, <1>9 DEF Next, OnMessage

\* main and on_message use the device as any two writers may.
THEOREM UsesDevice == Spec => ImplementsDevice
  BY ClientStep, PTL DEF Spec, Init, ImplementsDevice, DeviceSpec

\* So their notes and lines go through a mailbox.
COROLLARY ClientMailbox == Spec => ImplementsMailbox
  BY UsesDevice, DeviceIsMailbox DEF ImplementsDevice

\* And a line or note is read whole, when nothing overlaps it.
COROLLARY ClientWhole == Spec => []WholeWhenAlone
  BY UsesDevice, WholeMessages DEF ImplementsDevice

\* The votes of the others are never entered.
VoterInv ==
  /\ recentVotes \in [Slots -> 0 .. MaxVote]
  /\ \A i \in Slots \ {myIdx} : recentVotes[i] = 0
  /\ masterFlag \in {0, 1} /\ asked \in Nat
  /\ (masterFlag = 1) <=> asked > 0

Message == [kind : Foreign \cup {"claim"}, same : BOOLEAN]

ClientType ==
  /\ main \in {"open", "exited", "connect", "subscribe", "prompt", "write", "written", "ended"}
  /\ connected \in BOOLEAN /\ subscribed \in BOOLEAN
  /\ inbox \in Seq(Message)

DeviceState == device \in {"absent", "registered", "refused", "removed"}

LEMMA VoterInit == Init => VoterInv
  BY DEF Init, VoterInv, myIdx

LEMMA VoterStep == VoterInv /\ [Next]_vars => VoterInv'
<1> SUFFICES ASSUME VoterInv, [Next]_vars PROVE VoterInv'
  OBVIOUS
<1>1. CASE HandleVote
  <2>1. PICK v \in Draws : recentVotes' = [recentVotes EXCEPT ![myIdx] = v]
    BY <1>1 DEF HandleVote
  <2>2. v \in 1 .. MaxVote
    BY DEF Draws
  <2>3. /\ recentVotes' \in [Slots -> 0 .. MaxVote] /\ recentVotes'[myIdx] > 0
        /\ \A i \in Slots \ {myIdx} : recentVotes'[i] = 0
    BY <2>1, <2>2 DEF VoterInv
  <2>4. Wins(recentVotes')
    BY <2>3 DEF Wins
  <2>5. masterFlag' = 1 /\ asked' = asked + 1
    BY <1>1, <2>4 DEF HandleVote
  <2>6. QED
    BY <2>3, <2>5 DEF VoterInv
<1>2. ASSUME UNCHANGED <<recentVotes, masterFlag, asked>> PROVE VoterInv'
  BY <1>2 DEF VoterInv
<1>3. CASE Open \/ Connect \/ Subscribe \/ WriteLine \/ LineWritten \/ Leave
  BY <1>2, <1>3 DEF Open, Connect, Subscribe, WriteLine, LineWritten, Leave
<1>4. ASSUME NEW kind \in Typed, TypeLine(kind) PROVE VoterInv'
  BY <1>2, <1>4 DEF TypeLine
<1>5. CASE Ignore \/ AnswerWhois \/ PlayNote
  BY <1>2, <1>5 DEF Ignore, AnswerWhois, PlayNote
<1>6. ASSUME NEW kind \in Foreign, NEW same \in BOOLEAN, Receive(kind, same) PROVE VoterInv'
  BY <1>2, <1>6 DEF Receive
<1>7. CASE DeviceStep
  BY <1>2, <1>7 DEF DeviceStep, clientVars
<1>8. CASE UNCHANGED vars
  BY <1>2, <1>8 DEF vars, clientVars
<1>9. QED
  BY <1>1, <1>3, <1>4, <1>5, <1>6, <1>7, <1>8 DEF Next, OnMessage

\* A client is the master from its first VOTE on: nobody else's vote can keep
\* it from that.
THEOREM EveryVoterIsMaster == Spec => []VoterIsMaster
<1>1. VoterInv => VoterIsMaster
  BY DEF VoterInv, VoterIsMaster
<1>2. QED
  BY <1>1, VoterInit, VoterStep, PTL DEF Spec
-----------------------------------------------------------------------------
LEMMA TypeInit == Init => ClientType /\ DeviceState
<1>1. <<>> \in Seq(Message)
  OBVIOUS
<1>2. QED
  BY <1>1 DEF Init, DeviceInit, ClientType, DeviceState

LEMMA TypeStep == ClientType /\ DeviceState /\ [Next]_vars => (ClientType /\ DeviceState)'
<1> SUFFICES ASSUME ClientType, DeviceState, [Next]_vars PROVE ClientType' /\ DeviceState'
  OBVIOUS
<1>1. ASSUME NEW kind \in Foreign \cup {"claim"}, NEW same \in BOOLEAN
      PROVE  [kind |-> kind, same |-> same] \in Message
  BY DEF Message
<1>2. \A kind \in Foreign, same \in BOOLEAN :
        Publish(kind, same) => inbox' \in Seq(Message)
  <2>1. SUFFICES ASSUME NEW kind \in Foreign, NEW same \in BOOLEAN, Publish(kind, same)
                 PROVE  inbox' \in Seq(Message)
    OBVIOUS
  <2>2. [kind |-> kind, same |-> same] \in Message
    BY <1>1
  <2>3. QED
    BY <2>1, <2>2 DEF Publish, ClientType
<1>3. inbox # <<>> => Tail(inbox) \in Seq(Message)
  BY DEF ClientType
<1>4. CASE Open \/ Connect \/ Subscribe \/ LineWritten \/ Leave
  BY <1>4 DEF Open, Connect, Subscribe, LineWritten, Leave, deviceVars, ClientType, DeviceState
<1>5. ASSUME NEW kind \in Typed, TypeLine(kind) PROVE ClientType' /\ DeviceState'
  <2>1. inbox' \in Seq(Message)
    <3>1. kind \in Foreign
      BY DEF Typed, Foreign
    <3>2. QED
      BY <1>2, <1>5, <3>1 DEF TypeLine, ClientType
  <2>2. main' = "write" /\ UNCHANGED <<connected, subscribed, device>>
    BY <1>5 DEF TypeLine, deviceVars
  <2>3. QED
    BY <2>1, <2>2 DEF ClientType, DeviceState
<1>6. CASE WriteLine
  BY <1>6 DEF WriteLine, WriteBegin, WriteRefused, ClientType, DeviceState
<1>7. CASE Ignore \/ HandleVote
  BY <1>3, <1>7 DEF Ignore, HandleVote, Called, Quiet, deviceVars, ClientType, DeviceState
<1>8. CASE AnswerWhois
  <2>1. [kind |-> "claim", same |-> FALSE] \in Message
    BY <1>1
  <2>2. inbox' \in Seq(Message)
    BY <1>3, <1>8, <2>1 DEF AnswerWhois, Called
  <2>3. QED
    BY <1>8, <2>2 DEF AnswerWhois, Quiet, deviceVars, ClientType, DeviceState
<1>9. CASE PlayNote
  BY <1>3, <1>9 DEF PlayNote, Called, Quiet, WriteBegin, WriteRefused, ClientType, DeviceState
<1>10. ASSUME NEW kind \in Foreign, NEW same \in BOOLEAN, Receive(kind, same)
       PROVE  ClientType' /\ DeviceState'
  BY <1>2, <1>10 DEF Receive, deviceVars, ClientType, DeviceState
<1>11. CASE DeviceStep
  BY <1>11 DEF DeviceStep, clientVars, Register, Unregister, Read, ReadBegin, ReadCopy, ReadClear,
               WriteCopy, WriteEnd, ClientType, DeviceState
<1>12. CASE UNCHANGED vars
  BY <1>12 DEF vars, clientVars, deviceVars, ClientType, DeviceState
<1>13. QED
  BY <1>4, <1>5, <1>6, <1>7, <1>8, <1>9, <1>10, <1>11, <1>12 DEF Next, OnMessage

\* Every variable of the client and of the device keeps its type.
THEOREM TypeCorrect == Spec => []TypeOK
<1>1. MailInv /\ ClientType /\ DeviceState /\ VoterInv => TypeOK
  <2>1. inbox \in Seq(Message) => \A i \in DOMAIN inbox : inbox[i] \in Message
    OBVIOUS
  <2>2. ClientType => \A i \in DOMAIN inbox : inbox[i] \in [kind : Foreign \cup {"claim"}, same : BOOLEAN]
    BY <2>1 DEF ClientType, Message
  <2>3. MailInv => head \in 0 .. MaxWrites /\ tail \in 0 .. MaxWrites
                   /\ call \in [User -> {"none", "failed", "copy", "end", "clear"}]
    BY DEF MailInv, DeviceType
  <2>4. QED
    BY <2>2, <2>3 DEF ClientType, DeviceState, VoterInv, TypeOK
<1>2. Spec => []MailInv
  BY UsesDevice, Mail DEF ImplementsDevice
<1>3. Spec => []VoterInv
  BY VoterInit, VoterStep, PTL DEF Spec
<1>4. Spec => [](ClientType /\ DeviceState)
  BY TypeInit, TypeStep, PTL DEF Spec
<1>5. QED
  BY <1>1, <1>2, <1>3, <1>4, PTL
-----------------------------------------------------------------------------
(***************************************************************************)
(* The module of the speaker.                                              *)
(***************************************************************************)
USE DriverAssumption DEF Driver!Button, Driver!Speaker

\* nextIrq counts the interrupts of the buttons.
IrqInv ==
  /\ phase \in {"absent", "pins"} => nextIrq = 1
  /\ phase = "irqs" => nextIrq \in Driver!Button

DriverTypeInv == Driver!TypeOK /\ IrqInv

LEMMA PeriodNat == ASSUME NEW c PROVE Driver!Period(c) \in Nat
  BY DEF Driver!Period, Driver!Pitch

LEMMA DriverTypeInit == Driver!Init => DriverTypeInv
<1> SUFFICES ASSUME Driver!Init PROVE DriverTypeInv
  OBVIOUS
<1>1. irqs \in [Driver!Button -> {"none", "NULL"}] /\ requested \subseteq Driver!Button \cup {Driver!Speaker}
  BY DEF Driver!Init
<1>2. /\ process \in [Process -> {"closed", "open", "clear", "load", "tune"}]
      /\ note \in [Process -> Written \cup {Driver!NUL}]
  BY DEF Driver!Init
<1>3. presses = 0 /\ lastRead \in [Process -> 0 .. presses]
  BY DEF Driver!Init
<1>4. nextIrq \in 1 .. NButtons + 1 /\ IrqInv /\ phase = "absent"
  BY DEF Driver!Init, IrqInv
<1>5. notes \in 0 .. MaxNotes /\ presses \in 0 .. MaxPresses /\ msg_r \in 0 .. presses
      /\ timer_interval_ns \in Nat
  BY DEF Driver!Init
<1>6. timer = "none" /\ msg_w = Driver!NUL /\ crossed = FALSE
  BY DEF Driver!Init
<1>7. QED
  BY <1>1, <1>2, <1>3, <1>4, <1>5, <1>6 DEF DriverTypeInv, Driver!TypeOK

LEMMA DriverTypeStep == DriverTypeInv /\ [Driver!Next]_(Driver!vars) => DriverTypeInv'
<1> SUFFICES ASSUME DriverTypeInv, [Driver!Next]_(Driver!vars) PROVE DriverTypeInv'
  OBVIOUS
<1> USE DEF DriverTypeInv, Driver!TypeOK, IrqInv
<1>1. CASE Driver!RegisterDevice
  BY <1>1 DEF Driver!RegisterDevice, Driver!device
<1>2. CASE Driver!RequestPins
  <2>1. PICK speaker \in BOOLEAN, n \in 0 .. NButtons :
          requested' = (IF speaker THEN {Driver!Speaker} ELSE {}) \cup 1 .. n
    BY <1>2 DEF Driver!RequestPins
  <2>2. requested' \subseteq Driver!Button \cup {Driver!Speaker}
    BY <2>1
  <2>3. /\ phase' = "irqs" /\ nextIrq' = nextIrq
        /\ UNCHANGED <<irqs, timer, Driver!device>>
    BY <1>2 DEF Driver!RequestPins
  <2>4. nextIrq = 1
    BY <1>2 DEF Driver!RequestPins
  <2>5. QED
    BY <2>2, <2>3, <2>4 DEF Driver!device
<1>3. CASE Driver!RequestIrq
  <2>1. irqs' \in [Driver!Button -> {"none", "NULL"}]
    BY <1>3 DEF Driver!RequestIrq
  <2>2. requested' \subseteq Driver!Button \cup {Driver!Speaker}
    BY <1>3 DEF Driver!RequestIrq
  <2>3. nextIrq' \in 1 .. NButtons + 1 /\ phase' \in {"irqs", "timer"} /\ IrqInv'
    BY <1>3 DEF Driver!RequestIrq
  <2>4. UNCHANGED <<timer, Driver!device>>
    BY <1>3 DEF Driver!RequestIrq
  <2>5. QED
    BY <2>1, <2>2, <2>3, <2>4 DEF Driver!device
<1>4. CASE Driver!InitTimer
  BY <1>4 DEF Driver!InitTimer, Driver!device
<1>5. CASE Driver!CancelTimer
  BY <1>5 DEF Driver!CancelTimer, Driver!device
<1>6. CASE Driver!FreeButtons
  <2>1. irqs' \in [Driver!Button -> {"none", "NULL"}]
    BY <1>6 DEF Driver!FreeButtons, Driver!FreeIrqs
  <2>2. requested' \subseteq requested /\ phase' = "freed" /\ UNCHANGED <<nextIrq, timer, Driver!device>>
    BY <1>6 DEF Driver!FreeButtons
  <2>3. QED
    BY <2>1, <2>2 DEF Driver!device
<1>7. CASE Driver!Unregister
  BY <1>7 DEF Driver!Unregister, Driver!device
<1>8. ASSUME NEW b \in Driver!Button, Driver!Press(b) PROVE DriverTypeInv'
  BY <1>8 DEF Driver!Press, Driver!module
<1>9. ASSUME NEW u \in Process, Driver!Open(u) \/ Driver!Close(u) \/ Driver!ReadClear(u) PROVE DriverTypeInv'
  <2>1. \E place \in {"open", "closed"} : process' = [process EXCEPT ![u] = place]
    BY <1>9 DEF Driver!Open, Driver!Close, Driver!ReadClear
  <2>2. process' \in [Process -> {"closed", "open", "clear", "load", "tune"}]
    BY <2>1
  <2>3. msg_r' \in {0, msg_r}
    BY <1>9 DEF Driver!Open, Driver!Close, Driver!ReadClear
  <2>4. UNCHANGED <<Driver!module, msg_w, timer_interval_ns, note, presses, notes, lastRead, crossed>>
    BY <1>9 DEF Driver!Open, Driver!Close, Driver!ReadClear
  <2>5. QED
    BY <2>2, <2>3, <2>4 DEF Driver!module
<1>10. ASSUME NEW u \in Process, Driver!ReadCopy(u) PROVE DriverTypeInv'
  BY <1>10 DEF Driver!ReadCopy, Driver!module
<1>11. ASSUME NEW u \in Process, NEW first \in Written,
              NEW len \in {0, 1, Driver!MSG_SIZE, Driver!MSG_SIZE + 1}, Driver!WriteCopy(u, first, len)
       PROVE  DriverTypeInv'
  <2>1. msg_w' \in Written \cup {Driver!NUL} /\ notes' \in 0 .. MaxNotes
    <3>1. msg_w' \in {msg_w, Driver!NUL, first} /\ notes < MaxNotes /\ notes' = notes + 1
      BY <1>11 DEF Driver!WriteCopy
    <3>2. QED
      BY <3>1
  <2>2. process' = process \/ process' = [process EXCEPT ![u] = "load"]
    BY <1>11 DEF Driver!WriteCopy
  <2>3. process' \in [Process -> {"closed", "open", "clear", "load", "tune"}]
    BY <2>2
  <2>4. UNCHANGED <<Driver!module, msg_r, timer_interval_ns, note, presses, lastRead>>
    BY <1>11 DEF Driver!WriteCopy
  <2>5. crossed' \in BOOLEAN
    BY <1>11 DEF Driver!WriteCopy
  <2>6. QED
    BY <2>1, <2>3, <2>4, <2>5 DEF Driver!module
<1>12. ASSUME NEW u \in Process, Driver!WriteLoad(u) PROVE DriverTypeInv'
  BY <1>12 DEF Driver!WriteLoad, Driver!module
<1>13. ASSUME NEW u \in Process, Driver!WriteTune(u) PROVE DriverTypeInv'
  BY <1>13, PeriodNat DEF Driver!WriteTune, Driver!module
<1>14. CASE UNCHANGED Driver!vars
  BY <1>14 DEF Driver!vars, Driver!module
<1> HIDE DEF DriverTypeInv
<1>15. QED
  BY <1>1, <1>2, <1>3, <1>4, <1>5, <1>6, <1>7, <1>8, <1>9, <1>10, <1>11, <1>12, <1>13, <1>14
  DEF Driver!Next

\* Every variable of the driver keeps its type.
THEOREM DriverTypeCorrect == Driver!Spec => []Driver!TypeOK
<1>1. DriverTypeInv => Driver!TypeOK
  BY DEF DriverTypeInv
<1>2. QED
  BY <1>1, DriverTypeInit, DriverTypeStep, PTL DEF Driver!Spec

LEMMA DriverTypeAlways == Driver!Spec => []DriverTypeInv
  BY DriverTypeInit, DriverTypeStep, PTL DEF Driver!Spec
-----------------------------------------------------------------------------
\* No pin is held before the pins are requested, and none after they are freed;
\* that of the speaker goes first.
PinInv ==
  /\ phase \in {"absent", "failed", "pins", "freed", "removed"} => requested = {}
  /\ phase = "freeing" => Driver!Speaker \notin requested

LEMMA PinInit == Driver!Init => PinInv
  BY DEF Driver!Init, PinInv

LEMMA PinStep == DriverTypeInv /\ PinInv /\ [Driver!Next]_(Driver!vars) => PinInv'
<1> SUFFICES ASSUME DriverTypeInv, PinInv, [Driver!Next]_(Driver!vars) PROVE PinInv'
  OBVIOUS
<1> USE DEF PinInv
<1>1. CASE Driver!RegisterDevice
  BY <1>1 DEF Driver!RegisterDevice
<1>2. CASE Driver!RequestPins
  BY <1>2 DEF Driver!RequestPins
<1>3. CASE Driver!RequestIrq
  BY <1>3 DEF Driver!RequestIrq
<1>4. CASE Driver!InitTimer
  BY <1>4 DEF Driver!InitTimer
<1>5. CASE Driver!CancelTimer
  BY <1>5 DEF Driver!CancelTimer
<1>6. CASE Driver!FreeButtons
  BY <1>6 DEF Driver!FreeButtons, DriverTypeInv, Driver!TypeOK
<1>7. CASE Driver!Unregister
  BY <1>7 DEF Driver!Unregister
<1>8. ASSUME UNCHANGED Driver!module PROVE PinInv'
  BY <1>8 DEF Driver!module
<1>9. ASSUME NEW b \in Driver!Button, Driver!Press(b) PROVE PinInv'
  BY <1>8, <1>9 DEF Driver!Press
<1>10. ASSUME NEW u \in Process,
              Driver!Open(u) \/ Driver!Close(u) \/ Driver!ReadCopy(u) \/ Driver!ReadClear(u) \/ Driver!WriteLoad(u) \/ Driver!WriteTune(u)
       PROVE  PinInv'
  BY <1>8, <1>10 DEF Driver!Open, Driver!Close, Driver!ReadCopy, Driver!ReadClear, Driver!WriteLoad, Driver!WriteTune
<1>11. ASSUME NEW u \in Process, NEW first \in Written,
              NEW len \in {0, 1, Driver!MSG_SIZE, Driver!MSG_SIZE + 1}, Driver!WriteCopy(u, first, len)
       PROVE  PinInv'
  BY <1>8, <1>11 DEF Driver!WriteCopy
<1>12. CASE UNCHANGED Driver!vars
  BY <1>8, <1>12 DEF Driver!vars
<1>13. QED
  BY <1>1, <1>2, <1>3, <1>4, <1>5, <1>6, <1>7, <1>9, <1>10, <1>11, <1>12 DEF Driver!Next

\* A module that has been removed holds no pin, whichever of its requests were
\* refused.
THEOREM DriverGivesBack == Driver!Spec => []Driver!PinsReturned
<1>1. PinInv => Driver!PinsReturned
  BY DEF PinInv, Driver!PinsReturned
<1>2. QED
  BY <1>1, PinInit, PinStep, DriverTypeAlways, PTL DEF Driver!Spec
-----------------------------------------------------------------------------
(***************************************************************************)
(* Nothing protects msg_r, msg_w and timer_interval_ns, so that neither    *)
(* fact is inductive by itself.                                            *)
(***************************************************************************)
\* A process has not read the press that is in msg_r, or is about to clear it.
ReadInv ==
  \A u \in Process : process[u] # "clear" /\ msg_r # 0 => msg_r > lastRead[u]

Tuned ==
  \/ timer_interval_ns = Driver!Period(msg_w)
  \/ timer_interval_ns = 500000 /\ msg_w = Driver!NUL

\* A write that began when none was under way is the only one until another
\* begins, and the note that it has loaded is still the one in msg_w.
TuneInv ==
  ~ crossed =>
    /\ \A u, v \in Process : Driver!Writing(u) /\ Driver!Writing(v) => u = v
    /\ \A u \in Process : process[u] = "tune" => note[u] = msg_w
    /\ (\A u \in Process : ~ Driver!Writing(u)) => Tuned

UseInv == ReadInv /\ TuneInv

LEMMA UseInit == Driver!Init => UseInv
  BY DEF Driver!Init, UseInv, ReadInv, TuneInv, Tuned, Driver!Writing

LEMMA UseStep == DriverTypeInv /\ UseInv /\ [Driver!Next]_(Driver!vars) => UseInv'
<1> SUFFICES ASSUME DriverTypeInv, UseInv, [Driver!Next]_(Driver!vars) PROVE UseInv'
  OBVIOUS
<1> USE DEF UseInv
<1>1. ASSUME UNCHANGED Driver!device PROVE UseInv'
  <2>1. UNCHANGED <<msg_r, msg_w, timer_interval_ns, process, note, lastRead, crossed>>
    BY <1>1 DEF Driver!device
  <2>2. ReadInv'
    BY <2>1 DEF ReadInv
  <2>3. Tuned' = Tuned /\ \A u \in Process : Driver!Writing(u)' = Driver!Writing(u)
    BY <2>1 DEF Tuned, Driver!Writing
  <2>4. QED
    BY <2>1, <2>2, <2>3 DEF TuneInv
<1>2. CASE Driver!RegisterDevice \/ Driver!RequestPins \/ Driver!RequestIrq \/ Driver!InitTimer
  BY <1>1, <1>2 DEF Driver!RegisterDevice, Driver!RequestPins, Driver!RequestIrq, Driver!InitTimer
<1>3. CASE Driver!CancelTimer \/ Driver!FreeButtons \/ Driver!Unregister
  BY <1>1, <1>3 DEF Driver!CancelTimer, Driver!FreeButtons, Driver!Unregister
<1>4. /\ process \in [Process -> {"closed", "open", "clear", "load", "tune"}]
      /\ note \in [Process -> Written \cup {Driver!NUL}]
      /\ presses \in Nat /\ msg_r \in 0 .. presses /\ lastRead \in [Process -> 0 .. presses]
  BY DEF DriverTypeInv, Driver!TypeOK
<1>5. ASSUME NEW b \in Driver!Button, Driver!Press(b) PROVE UseInv'
  <2>1. msg_r' = presses + 1 /\ UNCHANGED <<process, note, msg_w, timer_interval_ns, lastRead, crossed>>
    BY <1>5 DEF Driver!Press
  <2>2. QED
    BY <1>4, <2>1 DEF ReadInv, TuneInv, Tuned, Driver!Writing
\* A process that neither reads nor writes on either side of a step.
<1>6. ASSUME NEW u \in Process, Driver!Open(u) \/ Driver!Close(u) PROVE UseInv'
  <2>1. \E place \in {"open", "closed"} : process' = [process EXCEPT ![u] = place]
    BY <1>6 DEF Driver!Open, Driver!Close
  <2>2. process[u] \in {"closed", "open"}
        /\ UNCHANGED <<msg_r, msg_w, timer_interval_ns, note, lastRead, crossed>>
    BY <1>6 DEF Driver!Open, Driver!Close
  <2>3. \A v \in Process : Driver!Writing(v)' = Driver!Writing(v)
    BY <1>4, <2>1, <2>2 DEF Driver!Writing
  <2>4. QED
    BY <1>4, <2>1, <2>2, <2>3 DEF ReadInv, TuneInv, Tuned
<1>7. ASSUME NEW u \in Process, Driver!ReadCopy(u) \/ Driver!ReadClear(u) PROVE UseInv'
  <2>1. \E place \in {"open", "clear"} : process[u] \in {"open", "clear"} \ {place}
                                         /\ process' = [process EXCEPT ![u] = place]
    BY <1>7 DEF Driver!ReadCopy, Driver!ReadClear
  <2>2. UNCHANGED <<msg_w, timer_interval_ns, note, crossed>>
    BY <1>7 DEF Driver!ReadCopy, Driver!ReadClear
  <2>3. ReadInv'
    <3>1. CASE Driver!ReadCopy(u)
      <4>1. \A v \in Process \ {u} : process'[v] = process[v] /\ lastRead'[v] = lastRead[v]
        BY <1>4, <3>1 DEF Driver!ReadCopy
      <4>2. process'[u] = "clear" /\ msg_r' = msg_r
        BY <1>4, <3>1 DEF Driver!ReadCopy
      <4>3. QED
        BY <4>1, <4>2 DEF ReadInv
    <3>2. CASE Driver!ReadClear(u)
      BY <3>2 DEF Driver!ReadClear, ReadInv
    <3>3. QED
      BY <1>7, <3>1, <3>2
  <2>4. \A v \in Process : Driver!Writing(v)' = Driver!Writing(v)
    BY <1>4, <2>1 DEF Driver!Writing
  <2>5. \A v \in Process : (process'[v] = "tune") = (process[v] = "tune")
    BY <1>4, <2>1
  <2>6. QED
    BY <2>2, <2>3, <2>4, <2>5 DEF TuneInv, Tuned
<1>8. ASSUME NEW u \in Process, NEW first \in Written,
             NEW len \in {0, 1, Driver!MSG_SIZE, Driver!MSG_SIZE + 1}, Driver!WriteCopy(u, first, len)
      PROVE  UseInv'
  <2>1. process[u] = "open" /\ UNCHANGED <<msg_r, timer_interval_ns, note, lastRead>>
    BY <1>8 DEF Driver!WriteCopy
  <2>2. CASE UNCHANGED <<process, msg_w, crossed>>
    BY <2>1, <2>2 DEF ReadInv, TuneInv, Tuned, Driver!Writing
  <2>3. CASE /\ process' = [process EXCEPT ![u] = "load"]
             /\ crossed' = \E v \in Process : Driver!Writing(v)
    <3>1. ReadInv'
      BY <1>4, <2>1, <2>3 DEF ReadInv
    <3>2. ~ crossed' => \A v \in Process : Driver!Writing(v)' => v = u
      BY <1>4, <2>3 DEF Driver!Writing
    <3>3. process'[u] = "load" /\ Driver!Writing(u)'
      BY <1>4, <2>3 DEF Driver!Writing
    <3>4. QED
      BY <3>1, <3>2, <3>3 DEF TuneInv, Driver!Writing
  <2>4. QED
    BY <1>8, <2>2, <2>3 DEF Driver!WriteCopy
<1>9. ASSUME NEW u \in Process, Driver!WriteLoad(u) PROVE UseInv'
  <2>1. /\ process[u] = "load" /\ process' = [process EXCEPT ![u] = "tune"]
        /\ note' = [note EXCEPT ![u] = msg_w]
        /\ UNCHANGED <<msg_r, msg_w, timer_interval_ns, lastRead, crossed>>
    BY <1>9 DEF Driver!WriteLoad
  <2>2. \A v \in Process : Driver!Writing(v)' = Driver!Writing(v)
    BY <1>4, <2>1 DEF Driver!Writing
  <2>3. QED
    BY <1>4, <2>1, <2>2 DEF ReadInv, TuneInv, Tuned
<1>10. ASSUME NEW u \in Process, Driver!WriteTune(u) PROVE UseInv'
  <2>1. /\ process[u] = "tune" /\ process' = [process EXCEPT ![u] = "open"]
        /\ timer_interval_ns' = Driver!Period(note[u])
        /\ UNCHANGED <<msg_r, msg_w, note, lastRead, crossed>>
    BY <1>10 DEF Driver!WriteTune
  <2>2. ReadInv'
    BY <1>4, <2>1 DEF ReadInv
  <2>3. ~ crossed => note[u] = msg_w
    BY <2>1 DEF TuneInv
  <2>4. ~ crossed => Tuned'
    BY <2>1, <2>3 DEF Tuned
  <2>5. \A v \in Process : process'[v] = "tune" => process[v] = "tune"
    BY <1>4, <2>1
  <2>6. \A v \in Process : Driver!Writing(v)' => Driver!Writing(v)
    BY <1>4, <2>1 DEF Driver!Writing
  <2>7. QED
    BY <2>1, <2>2, <2>4, <2>5, <2>6 DEF TuneInv
<1>11. CASE UNCHANGED Driver!vars
  BY <1>1, <1>11 DEF Driver!vars, Driver!device
<1> HIDE DEF UseInv
<1>12. QED
  BY <1>2, <1>3, <1>5, <1>6, <1>7, <1>8, <1>9, <1>10, <1>11 DEF Driver!Next

LEMMA UseAlways == Driver!Spec => []UseInv
  BY UseInit, UseStep, DriverTypeAlways, PTL DEF Driver!Spec

\* No process gets a press twice, wherever the interrupts and the reads of the
\* others fall between the copy and the clearing of msg_r.
THEOREM DriverReadsOnce == Driver!Spec => Driver!ReadOnce
<1>1. UseInv /\ [Driver!Next]_(Driver!vars)
        => [\A u \in Process : Driver!ReadCopy(u) /\ msg_r # 0 => msg_r > lastRead[u]]_(Driver!vars)
  BY DEF UseInv, ReadInv, Driver!ReadCopy
<1>2. QED
  BY <1>1, UseAlways, PTL DEF Driver!Spec, Driver!ReadOnce

\* When the writes have returned, the speaker has the period of the note written
\* last, unless that write began while another was under way.
THEOREM DriverTunes == Driver!Spec => []Driver!TuneIsLastWritten
<1>1. UseInv => Driver!TuneIsLastWritten
  BY DEF UseInv, TuneInv, Tuned, Driver!TuneIsLastWritten
<1>2. QED
  BY <1>1, UseAlways, PTL
-----------------------------------------------------------------------------
(***************************************************************************)
(* The programs beside each other.                                         *)
(***************************************************************************)
\* A step of one program leaves the variables of the other alone.
LEMMA Alone == MCSpec => Spec /\ Driver!Spec
<1>1. MCInit => Init /\ Driver!Init
  BY DEF MCInit
<1>2. [MCNext]_allVars => [Next]_vars
  BY DEF MCNext, allVars, clientProgram
<1>3. [MCNext]_allVars => [Driver!Next]_(Driver!vars)
  BY DEF MCNext, allVars, driverProgram, Driver!vars, Driver!module
<1>4. QED
  BY <1>1, <1>2, <1>3, PTL DEF MCSpec, Spec, Driver!Spec

\* What Lab6_client.c and its device pass to one reader goes through a mailbox,
\* also beside the module of the speaker.
COROLLARY MailboxKept == MCSpec => ImplementsMailbox
  BY Alone, ClientMailbox

\* And is read whole, when nothing overlaps it.
COROLLARY WholeKept == MCSpec => []WholeWhenAlone
  BY Alone, ClientWhole

\* A client of Lab6_client.c that draws a vote is the master.
COROLLARY VoterKept == MCSpec => []VoterIsMaster
  BY Alone, EveryVoterIsMaster

\* Lab6_kmod.c holds no pin once it is removed, whatever requests failed.
COROLLARY PinsGivenBack == MCSpec => []PinsReturned
  BY Alone, DriverGivesBack, PTL DEF PinsReturned

\* Lab6_kmod.c gives no process a press twice.
COROLLARY NoPressTwice == MCSpec => ReadOnce
  BY Alone, DriverReadsOnce DEF ReadOnce

\* Lab6_kmod.c has the period of the note written last, unless writes crossed.
COROLLARY LastNoteTuned == MCSpec => []TuneIsLastWritten
  BY Alone, DriverTunes, PTL DEF TuneIsLastWritten
=============================================================================
