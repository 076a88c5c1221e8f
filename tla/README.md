# Specifications of the ECE4220 programs

The repository holds the laboratory programs of a course on real-time embedded
systems on the Raspberry Pi: user programs with threads, pipes and sockets, and
kernel modules with interrupts and timers. They are small, and nearly all of
what can go wrong in them lies in the order of events: which thread stores a
global first, which datagram arrives first, where an interrupt falls. This
directory specifies those of them that have such behaviour in TLA+, checks the
specifications with TLC, and proves with TLAPS, for every value of the
constants, each safety property that TLC finds to hold: those of the master
election first, and those of the other programs with threads, calls or
interrupts. Liveness is model-checked only.

## 1. Inventory

| Component | State | Operations | Interacts through |
|---|---|---|---|
| `Lab5/server_udp_broadcast.c` | `recentVotes`, `masterFlag` | one iteration of the receive loop: WHOIS, VOTE, a ballot `# <ip> <vote>`, anything else | UDP broadcast with the other servers and the clients |
| `Lab5/client_udp_broadcast.c` | none | broadcast a typed line; stop at `!` | UDP broadcast, from an ephemeral port because its `bind` is commented out |
| `Lab5/UDP_listenToBroadcast.c` | none | print every datagram | UDP |
| `Lab4/Process1.c` | the globals `location`, `prevLoc`, `nextLoc`, `prevTS`, `nextTS`, `timestamp`, `buttonTS`; two semaphores | `main` stamps fixes, `Thread0` takes presses, a child per press interpolates, `Thread1` prints | named pipes from `GPS_device` and `Process2`, a pipe from the children to `Thread1`, shared globals |
| `Lab4/Process2.c` | the time of its next period | reads the level of the button every 60 ms and sends the time of a press | named pipe to `Process1` |
| `Lab4/GPS_device` | unknown (a binary) | sends a location now and then | named pipe to `Process1` |
| `Lab6/Lab6_kmod.c` | `msg_r`, `msg_w`, `timer_interval_ns`, pins, interrupts, timer | `timer_init`, `timer_exit`, `gpio_irq_handler`, `device_read`, `device_write` | interrupts, system calls of any number of processes |
| `Lab6/Lab6_client.c` | `masterFlag`, votes | the election over MQTT; relays between the broker and the device | an MQTT broker, `/dev/Lab6` |
| `Lab6/Lab6_cdev_kmod.c`, `Lab1/Lab1_cdev_kmod.c` | `msg` | `device_read`, `device_write` | system calls |
| `Lab1/Lab1-Week2.c` | `msg[0]`, pins, handlers | `init_module`, `cleanup_module`, `gpio_irq_handler`, `device_read` | interrupts, `/dev/Lab1` |
| `Lab1/Lab1_cdev_user.c` | a buffer; the LEDs | read a letter, light its LED or turn all off | `/dev/Lab1`, pins |
| `Lab1/Lab1Week1.c` | pins | blink | pins |
| `Lab3/Lab3_Part2.c` | the array `lights`, the pins, one semaphore | three threads that take turns | shared array, semaphore |
| `Lab3/Lab3_Part1.c` | the pins, the button's event register | one loop of two lights, the third on demand | pins |
| `Lab2/Lab2-Week1.c` | an image and its result | convolution by one thread, one thread per row, one per element | shared arrays |
| `Lab2/Lab2-Week2.c` | one line, the merged lines | two periodic readers, one periodic copier | shared buffers, absolute-time periods |
| `HW/*` | none shared | measure times, print, fork | `fork` and `wait` |

What is hard about them, and the properties that make them correct:

* **Election.** There is no coordinator. A server draws when it handles VOTE,
  recomputes `masterFlag` only when it handles somebody else's ballot, and
  keeps votes of any age. Votes tie; datagrams are lost; servers restart with
  an empty board; several rounds overlap. Correct means: servers that know each
  other's votes of one round never both hold themselves for the master, a
  complete round repairs whatever went wrong before it, a WHOIS that follows a
  complete round gets exactly one answer.
* **GPS interpolation.** Three kinds of threads share eight globals under two
  semaphores. One semaphore is passed from `Thread0` to a child, which is
  another thread than the one that took it; both are initialised after the
  threads were created; some globals are written outside any semaphore.
  Correct means: a child works on the press it was created for, with two
  successive fixes, and the result is shown.
* **Speaker and button modules.** Interrupts write what system calls read and
  clear; requests fail half way; a module is removed at any time. Correct
  means: no process reads a note twice, the period is that of the note written
  last, pins are given back, the last press is what the LEDs show.
* **Traffic lights.** The lamp a light sets stays the only one while it is shown,
  and the turns do not stop. Both programs of Lab3 promise the same, one with
  threads and one with a loop.
* **Character devices and the MQTT client.** Calls of several processes fill,
  copy and clear one string without protection; `main` and `on_message` are two
  writers of one program. Correct means: no message is read twice, and calls
  that do not overlap pass messages whole. The election over MQTT has lost its
  ballots on the way from Lab5: what it decides is not an election.
* **Periodic threads.** Absolute times are carried in seconds and nanoseconds;
  readers and copier meet in buffers that only their periods keep apart. Correct
  means: no time is lost in the carry, the copier keeps pace from every start
  phase, a press is reported once per period.
* **Convolution.** Three divisions of the same work write into one array that is
  not cleared in between. Correct means: each division gives each element to one
  thread, and the result is that of the definition also at the rim.
* **Blinking module.** Set-up fails half way and the module stays inserted.
  Correct means: it switches only pins it holds, and keeps none.

The complete list of hazards, each at its line and with the properties that
cover it, is in `PROJECT.json`.

## 2. The modules

| Module | Contents |
|---|---|
| `UdpElection` | servers, clients and the broadcast network of Lab5, its properties and its inductive invariant |
| `VoteBoard` | what the election promises: boards of votes, no network |
| `UdpElectionProofs` | its proofs |
| `MCUdpElection`, `MCElectionLan` | small sets of addresses; a network of two servers and one of three in one run |
| `ElectionLanProofs` | the theorems of the election, for the three servers beside the two |
| `GpsInterpolation`, `GpsInterpolationProofs`, `MCGpsInterpolation` | `Process1.c` with the other ends of its pipes |
| `SpeakerDriver`, `MCSpeakerDriver` | `Lab6_kmod.c` and the processes that use it |
| `CharDevice` | the character devices of Lab1 and Lab6 with any number of writers and a reader |
| `Mailbox` | what a device promises to one reader: a place for one message |
| `MqttClient`, `MCMqttClient` | `Lab6_client.c`, composed with `CharDevice` |
| `MCLab6Programs`, `Lab6ProgramsProofs` | the client with its device and the module of the speaker; a behaviour is one of either of them. The proofs are about each alone, then beside the other |
| `ButtonLeds` | `Lab1-Week2.c` composed with `Lab1_cdev_user.c` |
| `BlinkModule` | `Lab1Week1.c` |
| `TrafficLights` | `Lab3_Part2.c` |
| `PolledLights` | `Lab3_Part1.c` |
| `LampBoard` | what both traffic lights promise |
| `MCLedPrograms`, `LedProgramsProofs` | the four programs that drive the LEDs of the board; a behaviour is one of any one of them. The proofs are about each program alone, then beside the others |
| `PeriodicTask`, `PeriodicTaskProofs` | the timer functions that `Lab2-Week2.c` and `Process2.c` share |
| `LineMerge` | `Lab2-Week2.c` on top of `PeriodicTask` |
| `ButtonPoll` | `Process2.c` on top of `PeriodicTask` |
| `Convolution` | `Lab2-Week1.c` |
| `MCLab2Programs`, `Lab2ProgramsProofs` | the three programs around Lab2; a behaviour is one of any one of them. The proofs are about each program alone, then beside the others |

An operator whose comment starts with "Fault:" stands beside the definition it
spoils. It is used by no specification; substituted for that definition it
shows that the checks notice such a mistake.

### UdpElection

`Handle(n, p)` is one iteration of server `n`'s loop with the datagram at
position `p` of `wire`, from `recvfrom` to the end of the loop body; its four
disjuncts are the branches of the `if` chain. The loop runs in a single thread
and sends before it receives again, so an iteration is one step. `TypeLine` and
`Quit` are the client. `wire` holds all datagrams in the order in which they
were broadcast, `pending[n]` the positions that wait in `n`'s socket: a
broadcast reaches every open socket, the sender's too (which is why the code
drops its own). `Lose` drops a datagram for one receiver, `ServerExit` is a
failing system call and `error()`, `ServerStart` the next start by hand.

A server is the number formed by the last two characters of its 14-character
address, as in the code; `Node \subseteq Slot` assumes that the number is below
20, since beyond that the code writes outside `recentVotes`. `Byte15` is the one
character by which the code recognises its own broadcast: it is the last digit
only, hence `% 10`. Replies leave with the port of the datagram they answer
(the code overwrites only the address in `from`), so whether a server hears
another depends on the port of the *client*; `ClientPorts` is the set of ports
in use. With the client as committed it is `{"ephemeral"}`, with the commented
`bind` it is `{"server"}`; the runs use both.

`Ordered` chooses between sockets that deliver in the order of the wire (one
access point that relays everything) and sockets that deliver in any order.

`MCElectionLan` has a second network, whose three addresses and numbers of
datagrams are fixed; `NetworksAssumption` says that they are addresses.

The history variable `roundOf[n][m]` records which VOTE the entry
`recentVotes[n][m]` answers. No action's guard reads it.

### GpsInterpolation

One action per stretch of code between two accesses that another thread can
tell apart: `main` is `ReadLocation` (outside the semaphore, as in the code),
`ShiftFix` (`sem_wait` to `prevTS`), `StampFix` (`timestamp`, `sem_post`); a
child is `CopyPress`, `ReleasePress`, `TakeFixes`, `FillResults`,
`SendResults`. A semaphore is a counter; for `buttonTSSem` the set of threads
registered as waiting is kept too, because `sem_init` in `main` may hit a
`Thread0` that already sleeps on the zero-initialised semaphore. glibc's
`sem_init` resets the count of waiters, so no later `sem_post` wakes it:
`InitButtonSem` forgets the waiters. For `locationTimeSem` the distinction would
have no effect: nobody waits for it before it is initialised, since a child
exists only after `buttonTSSem` has been.

Locations are numbered; 0 is the content of the zero-initialised globals. The
result `y0` is a function of the recorded fields and is left out, as is the
ring of thread handles, which is written and never read. `ThreadLimit` is the
number of threads the process may create: children are neither joined nor
detached, and the result of `pthread_create` is ignored.

### SpeakerDriver

`phase` follows `timer_init` and `timer_exit`; the others are the file
operations and the interrupt handler, each split where an interrupt or another
process can come between. `InitTimer` ends with the `return 0` that precedes
the attachment of the callback, so `timer_callback` is unreachable and the
speaker's pin is never written. `irqs` holds the `dev_id` of each handler,
because `free_irq` frees only the handler registered with the same one.
Nothing that happens in the module after `Unregister` is specified: a call
into it then is undefined.

Any number of processes use the device, and nothing keeps their calls apart.
The history variables say what may be asked of them nevertheless: `lastRead[u]`
is the last press that process `u` has read, since two processes may get the
same press, once each, and `crossed` says that the last write began while another was
under way. `TuneIsLastWritten` is about the moments at which no write is under
way and `crossed` is false: a period that two writes have mixed up does not
outlive the next write.

### CharDevice, Mailbox

`msg` is abstracted to two numbers: `head`, the message that its first
character belongs to (0 for NUL, which is how `device_read` clears), and `tail`,
the message the rest belongs to. A write stores the first byte (`WriteBegin`),
the others if there are any (`WriteCopy`), and ends the string (`WriteEnd`); a
read copies in two steps and then clears (`ReadBegin`, `ReadCopy`, `ReadClear`).
That is enough to tell a message from a half of one. Calls of length 0 and copies
that fail are left out: the programs of the repository write 40 bytes or one,
and read into buffers of their own. The module of Lab1 is the
same code without `write` in its `fops`; `fops` is chosen initially.

`Mailbox` has one message at most, which a new one replaces and a `Take`
removes. The refinement counts a message as taken when `device_read` copies its
first byte, not when it clears: from then on the slot is empty unless a writer
has put another message there, which the clearing will lose.

### MqttClient

`main` follows the program from `open` to its loop; `OnMessage` is `on_message`
with one message. The program starts no network loop of the library, so
`on_message` is never called; `loop` is chosen initially, so that the model has
both the program as committed and the one its comments describe. `CommittedSpec`
is the former, and `CalledWhenReceived` what the comment at line 38 says of it. Main
and the loop's thread are the two writers of `CharDevice`, and another program
reads the device. A message is its kind and whether its byte 15 equals that of
`sMessage`, since that is what `on_message` compares to drop the client's own
messages. A typed VOTE is not the command, because `gets` leaves no newline and
the comparison asks for one; it is "text".

### ButtonLeds, BlinkModule

`ButtonLeds` is the composition of a module and a program. `msg` is overwritten
by each press and not cleared by a read, so that the program applies the last
letter over and over. A reset takes four separate pin writes.

`BlinkModule` goes through the pins with one `gpio_` call a step, in the orders
of the code. Any pin may be held by another driver, and every call that can fail
may. After a failure the module stays inserted and its exit frees all four pins.

### TrafficLights, PolledLights, LampBoard

Both programs without parameters. A light is three pin writes; the sleeping time
is "some time". `LampBoard` writes lamps one at a time and holds a light only
when it is the only one on; the threads map "a thread sleeps" to `held`, the loop
its `sleep`.

### PeriodicTask, LineMerge, ButtonPoll

`next_period` is a record of seconds and nanoseconds with the loop of
`increment_period` as steps of its own; SECOND is a constant. `start` and `runs`
are history variables that say what the time should be. The work between two
periods is left to the modules that extend this one; `ImplementsTimer` says that
they do nothing else with the timer.

In `LineMerge` a buffer is the number of the line it holds, or odd while it is
being overwritten. Readers and copier start at any times up to `MaxPhase` and
wake up in any order. The periods have the exact ratio of 2 to 3, those of the
code are 333333 and 500000 ns: the third of a nanosecond does not change that one
line or two begin between two copies. Time stands still while a thread works, as
the threads have real-time priority and little to do. In `ButtonPoll` the loop may wake up
`Late` instead. A press counts from the moment at which the button goes down.
`MCLab2Programs` has the period of the loop as a constant of its own,
`PollPeriod`.

### Convolution

`readFile` cuts the sequence of numbers of the input file; `Share` gives the
elements of each thread of the three cases; a thread computes an element a step,
in any order with the others, also while `main` still creates threads.
`ConvolutionOnElement` is the code's sum with its tests for the rim;
`Reference` is the definition, over an image continued by zeros. `Files` are the
contents the input file may have. `WellFormed` says that a file has all the
numbers it announces and a filter of odd size; of other files the model makes
no statement, since for them the code reads past its arrays
(`ProgramsAssumption` in `MCLab2Programs`).

## 3. The runs

| Run | Instance | Result |
|---|---|---|
| `ElectionLan` | servers .03, .19, votes 1..2, three lines, ordered, no loss; or servers .03, .14, .19, votes 1..3, one VOTE, one loss | all answers to a WHOIS asked after a round are one server's, also when a further VOTE is handled between two answers; among three, agreement and exactly one master per settled round, with all combinations of ties |
| `ElectionFaulty` | two servers; two VOTEs from both ports; one loss, one exit | the inductive invariant, agreement, repair by a settled round, and the refinement of `VoteBoard`, over overlapping rounds, loss and restart |
| `ElectionLive` | two servers, two lines, fair | convergence; a WHOIS after a round is answered; at most one master when a round is in and the network is quiet |
| `ElectionCollision` | servers .03, .04, .13 | *violated*: .03 and .13 drop each other's ballots and are both master |
| `ElectionUnbound` | clients on ephemeral ports | *violated*: the servers do not hear each other |
| `GpsHandover` | two fixes, two presses, two threads, one end of file, fair | press and child correspond, fixes are successive, results are shown |
| `GpsTorn` | two fixes, one press | *violated*: a new location with an old time |
| `DriverIrqs` | no failures | *violated*: handlers left behind |
| `LedPrograms` | failing requests, two presses, any initial LEDs, fair; one of four programs | Lab1: the last press is shown for good, an LED goes off only on a reset; Lab3: the lamp of a sleeping thread is alone, turns go on, no light of the loop starves, both lights implement `LampBoard`; the blinking module switches only pins it holds and keeps none |
| `Lab2Programs` | SECOND 5, periods 2, 2 and 3, five lines, eight entries, phases up to 3; an image of 2 x 3 and filters of 1 x 3, 3 x 3, 3 x 5; the button for 16 units, with a period of 3 and wake-ups up to 1 late; fair merge | no drift, normal `tv_nsec`, pace of the copier, end of the merge, the merge uses the timer properly; reports per press; the filtered image, each element by one thread |
| `Lab6Programs` | the client with both modules of the device, with and without loop: two writers, four writes, two messages, 20 indices, votes 1..2; or the speaker module with two processes, two buttons, failing requests, two presses, three writes of a note or of something else | of the device no message twice (refinement of `Mailbox`), whole messages when calls do not overlap, a voter is a master; of the speaker no press is read twice by one process, period and note agree unless writes overlapped, pins are given back |
| `ClientNoLoop` | the client without a loop, one message, two writes, fair | *violated*: a message that has come is never handled |

The violated statements are comments in the code; the findings in
`PROJECT.json` quote them.

### Bounds

`MaxLines`, `MaxLost`, `MaxExits`, `MaxFixes`, `MaxPresses`, `MaxEofs`,
`MaxWrites`, `MaxNotes`, `MaxMessages` and `MaxTime` appear only in guards of the
environment's actions, `MaxPhase` in that of the clock. The systems stop when
the environment has used them up, or because a program or module has ended, which
is why deadlock is not checked. Where a system may not stop, a liveness
property says so instead: `TurnsGoOn` for the threads of Lab3,
`EveryLightComesBack` for the loop, `MergeEnds` for Lab2.

*Election.* Two rounds are what it takes for votes of different rounds to meet
on a board; two servers disagree if any do, since agreement is about pairs; the
three servers of `ElectionLan` give a tie that is decided among the losers as
well, and a loser between two equal winners. Larger numbers are covered by the
proofs. Votes 1..2 give lower, equal and higher, 1..3 all orders of three.
*GPS.* A handover needs two presses in flight; an exhausted `ThreadLimit` needs
one more press than threads, which the repeated press at the end of file
provides; torn results need a fix after a complete one. `MaxEofs` bounds a loop
that does not end in the code: after `Process2` exits, `read` returns 0 for
ever and each return counts as a press.
*Driver, LEDs.* Two buttons suffice to have one whose request fails before one
whose does not; the second press is the one that overwrites, or that comes between
the copy and the clearing. Two processes have a read or a write under way at the
same time, and as nothing tells them apart they are a symmetry set. Of three
writes two may overlap and the third set things right. The lengths of a write are
0, 1, the limit and one above it.
*Device, client.* A message is lost between the copy and the clearing of
another, and one may be put after it: three writes, of which one may overlap the
other writer's; a fourth follows.
*Lab2.* The unit of time is the sixth part of a millisecond, the greatest one in
which both periods are whole. A second of five units is not a multiple of either
period, so that the carry leaves every remainder. Copier and readers have
the same relative phase again after six units; with five lines (ten units) and
four copies they pass through more than one such cycle, the copier still copies
when readers have ended, and phases from 0 to 3 cover the longer period. The code has 10 lines
and 20 entries. An image with one element that is not zero, at each place in
turn, and a filter without equal elements determine the sum, which is linear in
the image; 3 x 5 is larger than the image in both directions.

### Fairness

`ElectionLive`: weak fairness of each server's `Handle`. A server has one
thread that blocks only in `recvfrom`, so what has arrived is handled.
Arrival needs no assumption: losing is a step that the run does not allow.
`GpsHandover`: weak fairness of each thread and of the child threads; nothing is
assumed of `GPS_device`, of `Process2` or of the pipes' ends. Semaphores are not
assumed to be fair: `locationTimeSem` is contended by threads of which all but
`main` finish, and `main` takes it once per fix; with finitely many fixes (the
bound) a child waits only finitely long. In the running system fixes do not
end, and that a child gets the semaphore between two fixes rests on their being
a second apart. `LedPrograms`: weak fairness of the LED program of Lab1 once it
has been started (nobody is obliged to start it or to press a button), of each
thread of Lab3's light but not of `sem_wait`, so that only "some light takes its
turn" is claimed and a particular thread may wait for ever, and of the polled
loop. Nothing is assumed of the blinking module. `Lab2Programs`: the line merge as
a whole goes on, time included; each thread ends after a fixed number of periods.
`ClientNoLoop`: a call on the device returns, and `on_message` is called when there
is a message and a loop runs, which in that run it does not. Nobody types,
publishes or reads.

## 4. What is proved

Every theorem holds for all values of the constants under the named assumptions
on them, which give their types (and, for the election, `Node \subseteq Slot`;
for the line merge, an even number of entries and the code's ratio of periods;
for the devices, that the reader is not a writer; for the convolution, that the
files are well-formed, with filters of odd size; for the three servers of
`ElectionLanProofs`, that their addresses are in `Slot`). Some theorems have a
condition on the system besides; the table names it.

| Module | Theorem | Statement |
|---|---|---|
| `UdpElectionProofs` | `TypeCorrect`, `Inductive` | `Spec => []TypeOK`, `Spec => []IndInv` |
| | `Agreement` | `Ordered` implies `Spec => []SameRoundAgreement` |
| | `OneMaster` | `Ordered`, bounded `Slot`, two servers: `Spec => []SettledRoundHasOneMaster` |
| | `Ensured`, `OneAnswer` | on a `Reliable` network `Spec => []EnsuredMaster`, `Spec => []OneAnswerToWhois` |
| | `Genuine`, `MasterHeard`, `NoMaster` | parts of `IndInv` of interest by themselves |
| | `Refinement` | `Spec => ImplementsBoard` |
| `ElectionLanProofs` | `ThreeAgree` | `Ordered` implies `MCSpec => []AgreementOfThree` |
| | `ThreeHaveOneMaster` | `Ordered`, bounded `Slot`: `MCSpec => []OneMasterOfThree` |
| `GpsInterpolationProofs` | `TypeCorrect`, `HandedOver`, `ConsecutiveFixes` | `[]TypeOK`, `[]HandoverExact`, `[]StampsConsecutive`, any number of threads |
| `Lab6ProgramsProofs` | `DeviceIsMailbox`, `WholeMessages` | of `CharDevice`, any number of writers |
| | `UsesDevice`, `ClientMailbox`, `ClientWhole` | the client implements the device, and so the same holds of it |
| | `EveryVoterIsMaster`, `TypeCorrect` | of the client |
| | `DriverTypeCorrect`, `DriverGivesBack`, `DriverReadsOnce`, `DriverTunes` | of the speaker module alone: `[]TypeOK`, `[]PinsReturned`, `ReadOnce`, `[]TuneIsLastWritten`; any number of processes, buttons, presses and writes |
| | `MailboxKept`, `WholeKept`, `VoterKept`, `PinsGivenBack`, `NoPressTwice`, `LastNoteTuned` | the safety properties of the run `Lab6Programs` |
| `LedProgramsProofs` | `ThreadsTypeCorrect`, `Turns`, `SleeperAlone`, `ThreadsRefine` | of the threads of Lab3 alone: types, turns, the lamp of a sleeper, `LampBoard` |
| | `PolledTypeCorrect`, `Written`, `PolledRefine` | of the loop of Lab3 alone: types, the lamps written so far, `LampBoard` |
| | `TypeCorrect`, `MyLampAlone`, `ThreadsKeepBoard`, `PolledKeepBoard`, `ResetTurnsOff`, `PinsGivenBack`, `OthersPinsUntouched` | the safety properties of the run `LedPrograms` |
| `PeriodicTaskProofs` | `ExactTimes`, `WellFormedTimes` | `[]NoDrift`, `[]Normalised`: any periods, any length of the second |
| `Lab2ProgramsProofs` | `UsesTimer`, `MergeExactTimes`, `TypeCorrect` | of `LineMerge`: it is a use of the timer, `[]NoDrift`, `[]TypeOK` |
| | `KeepsPace` | `Spec => []Pace`: any number of lines and entries, any start phases |
| | `PollUsesTimer`, `PressReported` | of `ButtonPoll`: `[]ReportsPerPress`, any period and lateness |
| | `OneThreadEach`, `ImageFiltered` | of `Convolution`: `[]EachElementOnce`, `[]PrintsFilteredImage`, images and filters of any size |
| | `MergeKeepsPace`, `EveryPressReported`, `ElementsComputedOnce`, `FilteredImagePrinted` | the safety properties of the run `Lab2Programs` |

**The election.** `SameRoundAgreement` is not inductive by itself: from an
arbitrary state with two pending ballots and two wrong flags it is lost at
once. `IndInv` adds what is known of such states.

* `WireInv`: a ballot follows the VOTE it answers and carries a vote of a
  server; ports on the wire are ports of clients.
* `OneBallotInv`: no server has a ballot on the wire for a VOTE that still
  waits in its socket; hence two ballots of one server for one VOTE carry the
  same vote. This holds across restarts, because a restart empties the socket.
* `PendingInv`, `BoardInv`: what waits has reached the servers; `roundOf` and
  `recentVotes` are 0 together and only for servers are they not.
* `VotesAreGenuine`: each entry of a board is on the wire as a ballot. With
  `OneBallotInv`, two servers that hold entries of the same round for the same
  server hold the same vote.
* `FifoInv` (ordered sockets): what waits is later than all rounds on the
  board, so a new vote starts a round newer than every entry and cannot
  complete a pair by itself.
* `FlagInv` (ordered sockets): a server that has heard a ballot of its own
  current round is master if and only if it wins on the board it holds *now*. A
  ballot recomputes the flag; a VOTE makes the own round newer than all others,
  so nothing is claimed.

`Agreement` follows: two servers that have met in a round hold the same two
votes, each would have to win against the other, and the comparison by vote and
then by index is antisymmetric. Without `Ordered` it is false: a ballot that
overtakes the VOTE it answers is compared with the receiver's *earlier* vote, the
flag set from that comparison survives the VOTE, and two masters result.

`OneMaster` adds existence: of the servers with the highest vote the one with
the highest index wins (`SomebodyWins`). A bounded set of naturals has a largest
element because the reverse order on it is well-founded (`Largest`), and the
indices are bounded because `recentVotes` is an array. Two servers are needed
since a lone one never recomputes its flag.

`Ensured` and `OneAnswer` say more than `Agreement`, about servers that have
*not* met in the same round, and need more of the network: `Reliable` says that
no two addresses end in the same digit, sockets keep the order of the wire,
nothing is lost, nobody exits, and clients use the servers' port. `LanInv` then
holds: what waits in a socket is a tail of the wire (`QueueInv`), the ballots of
a server are on the wire in the order of their rounds (`RoundInv`, `OrderInv`),
what has been taken has been heard (`HeardInv`), and whoever has answered a WHOIS
that follows a closed round wins that round by the ballots *on the wire*
(`ClaimInv`), which no later step changes. The run `ElectionCollision`
shows that `Ensured` needs the condition on the digits.

`Refinement` maps `cast[n]` to the votes in `n`'s ballots on the wire, `board`
to `recentVotes` and `claim` to `masterFlag`. HandleVote is `Announce`,
HandleBallot is `Learn` (by `WireInv` and `Accepts`, of another server's
announced vote), `ServerExit` is `Forget`, everything else stutters.

`ElectionLanProofs` instantiates all of this for the three servers of the run
`ElectionLan`: a behaviour of the two networks beside each other, seen by the
variables of the three, is one of `UdpElection` with their addresses.

**GPS.** `SemInv`: each semaphore is 0 or 1, and who has taken it is alone, where
`buttonTSSem` passes from `Thread0` to the child it creates. So `PressInv`: while
a child has not copied `buttonTS`, it holds the press at the end of `due`, which is the
child's. And `StampInv`: outside `main`'s critical section `prevTS` and
`timestamp` are the last two stamps, in it `prevTS` is already the new last but
one; a child can take neither while `main` is inside. It makes no difference to these properties
that `sem_init` comes after the threads: the counters are 0 before it.

**Speaker module.** `PinInv`: no pin is held before the pins are requested and none
after they are freed, whichever requests failed. `ReadInv`: a process that is not
about to clear `msg_r` has not read the press in it, since the only one that can
come is newer than all. `TuneInv`: a write that began when none was under way is
the only one as long as `crossed` is false; so nobody replaces `msg_w` between its
copy and the choice of the period. Neither is true of presses and periods in
general: two processes get the same press, and writes that overlap leave the
period of one note with the text of the other.

**Devices.** `TakenInv`: a message that has been taken is in the string only until
the call that has taken it clears it. That is all `Mailbox` needs. `WholeMessages`
adds for each call what the string holds as long as nobody else has called since
it began. The client implements the device, since each of its steps is a call, a
continuation of one, or leaves the device alone; the theorems carry over.
`EveryVoterIsMaster` is the theorem that the program has no election: the
entries of the others stay 0.

**Lights.** `TurnInv`: the semaphore is 0 exactly while a thread is between
`sem_wait` and `sem_post`, and the lamps hold its light as far as it is written.
`WrittenSoFar` is the same for the loop.

**Timer.** `TimerInv`: the total of seconds and nanoseconds is the start plus the
periods added, at each step of the carry, by arithmetic with `SECOND` as an
unknown.

**Pace.** Nobody is late in this model, so a thread that is not asleep works at
the time for which it has waited (`OnTime`), and that time says what it has done:
a reader has read a line in each of its periods (`HasRead`), the copier has made
two copies in each of its own (`HasCopied`). What is remembered of an entry of
`fullString` is therefore a window of time (`Window`): when it was copied its
reader had begun the line that it holds and had not come to the next one. Two
copies of one buffer that follow each other are 3 units apart and a line lasts 2
(`TwoCopies`), so the reader has got on by one line at least and two at most. The
quotients of the code's ratio of periods become linear arithmetic in this way.
`PaceInv` excepts the behaviours in which a thread has ended the process by
`exit`.

**Button.** `PollInv`: the looks are a period apart and at most `Late` off their
times. A press began at most a period before the time of the first look that has
reported it, and at most `Late` after that time; the number of reports follows by
counting looks. Lateness does not add up since `TimerInv` ties each look to the start.

**Convolution.** `Intervals` gives the elements of each thread of each division
as an interval, and `Partition` says that the intervals of a division are disjoint
and leave nothing out, for any number of rows and columns. `WorkInv`: a thread
that has been created has written once its elements before the next one, and
nobody has written the others in this case; `ResultInv`: what has been written
is the filter's value there. `NextCase` starts each case anew. What remains is
that the code's sum is the definition's. Each is a fold over a set, and the
sets differ: the code adds up places of the image, the definition the weights
of the filter, with zeros outside the image. `SumTransfer` says that a sum does
not change when its elements are renamed and zeros are left out. It is an
induction over finite sets, which the library states with an operator as a
parameter, out of the provers' reach; `SetInduction` states it with a *set* of
subsets instead, and is proved from the well-foundedness of the naturals by a
minimal counterexample.

**Beside the other programs.** A step of one of the programs of
`MCLab2Programs`, `MCLab6Programs` or `MCLedPrograms` leaves the variables of the others alone
(`Alone`), so each behaves as it does by itself and its theorems carry over.

**Only model-checked.** Liveness: `Converges`, `WhoisAnswered`, `PressShown`,
`LastPressShown`, `TurnsGoOn`, `EveryLightComesBack` and `MergeEnds` need fairness and ENABLED, which is outside what TLAPS can do
here. Conversely, the type correctness of the speaker module and of the MQTT
client, and what `Turns` and `Written` say of the lights, are proved and not
checked again by a run.

## 5. Known from reading, without a run

These disagreements between comments and code are visible in the models; each
is a state predicate or an action property on the present variables.

* `Process1.c:166`: a child uses the last two fixes that were stamped, also if
  both precede the press; the comment at 148 speaks of the "previous and next GPS
  time" without saying that they are those before and after the press.
* `Process1.c:111`: after a failed `pthread_create` nobody releases
  `buttonTSSem` (the comment at 107: "release it in the thread").
* `Lab6_kmod.c:287`: `timer_init` returns before "Start the timer" (291).
* `Lab6_kmod.c:76-79`: a press between the copy and the clearing is lost, and
  two readers may get the same note; the comment says that `msg` is not
  protected, and also that a message "will not be read twice".
* `Lab6_kmod.c:136`, `Lab1-Week2.c:40`: `fops` has no owner, and an open file
  does not keep the module from being removed.
* `server_udp_broadcast.c:113`: with reordering, see `Agreement` above.
* `server_udp_broadcast.c:120`: the entry of a server that has left stays. If its
  vote is the highest, no other becomes master until somebody votes higher.
* `Lab1Week1.c:29`, `37`, `45`: a failed set-up returns 0, so that the module
  stays inserted; its exit then frees pins that another driver holds, because
  `gpio_free` does not ask.
* `Lab2-Week2.c:192-193` promises to "merge the two sets"; with periods of 2 and 3
  a third of the lines is never copied. `Pace` is what does hold.
* `Lab2-Week2.c:166`: a copier that starts first copies buffers that have never
  been written; what they hold is undefined, and 0 in the model.
* `Lab2-Week1.c:37`: with a filter of even size the loops run one step too far and
  read past the filter.
* `Lab6_client.c:61-75`: `on_message` compares its vote with those of others that
  nothing enters. With a loop every client that votes is master (`VoterIsMaster`).
* `Lab6_client.c:56`, `132`: a line from `gets` has no newline, so that a VOTE typed
  at this client is not the command that `on_message` compares with.

## 6. Not modelled

* `UDP_listenToBroadcast.c` keeps no state and takes no part in the election.
* `Lab6_kmod.mod.c` is generated.
* The homework programs measure times, fork and print; they share no state.
* `GPS_device` is a binary; it is what `Process1` reads from it.
* `timer_callback` of `Lab6_kmod.c` cannot run, because `timer_init` returns
  before it attaches it.
* What happens in a module after its removal, while a process is in one of its
  functions, is undefined.
* Memory errors (addresses ending in 20 or more, over-long lines, filters of even
  size) are outside the models, as are failures of system calls that the code
  does not react to, except where said above: in Lab2 the results of `fopen` and
  `pthread_create` are not looked at.
* The scheduling attributes of `Lab3_Part2.c` have no effect without
  `PTHREAD_EXPLICIT_SCHED`; the printed times of `Lab2-Week1.c` are not a
  property of the program.
* `y0` of `Process1.c` is arithmetic in floating point on the recorded fields.

## 7. What a continuation would add

* The 32-bit milliseconds of `Process1.c:109`, when the width of `long` on the
  board is fixed.
* Servers that leave for good: which votes must be drawn before the others elect
  again.
