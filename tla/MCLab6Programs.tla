---------------------------- MODULE MCLab6Programs ----------------------------
(***************************************************************************)
(* The programs of Lab6: the client with its character device, and the     *)
(* kernel module of the speaker.  A behaviour is one of either of them.    *)
(***************************************************************************)
EXTENDS MCMqttClient, TLC

CONSTANTS
  Process, Written, NButtons, MayFail, MaxPresses,     \* see SpeakerDriver
  MaxNotes      \* bound: writes to the device of the speaker

ASSUME DriverAssumption ==
  /\ NButtons \in Nat \ {0} /\ MayFail \in BOOLEAN
  /\ MaxPresses \in Nat /\ MaxNotes \in Nat

VARIABLES
  program,                                             \* the one that is run
  phase, nextIrq, requested, irqs, timer,              \* SpeakerDriver
  msg_r, msg_w, timer_interval_ns,
  process, note, presses, notes, lastRead, crossed

clientProgram == vars
driverProgram == <<phase, nextIrq, requested, irqs, timer, msg_r, msg_w, timer_interval_ns,
                   process, note, presses, notes, lastRead, crossed>>
allVars == <<program, clientProgram, driverProgram>>

Driver == INSTANCE SpeakerDriver WITH writes <- notes, MaxWrites <- MaxNotes

\* A program that is not run stays in one of its initial states.
MCInit ==
  /\ program \in {"client", "driver"}
  /\ Init /\ Driver!Init
  /\ program = "driver" => ~ loop /\ fops = Lab6Fops

MCNext ==
  /\ UNCHANGED program
  /\ \/ program = "client" /\ Next /\ UNCHANGED driverProgram
     \/ program = "driver" /\ Driver!Next /\ UNCHANGED clientProgram

MCSpec == MCInit /\ [][MCNext]_allVars

\* The processes that use the speaker are alike.
Alike == Permutations(Process)
-----------------------------------------------------------------------------
\* The speaker has the period of the note that was written last, unless that
\* write overlapped another.
TuneIsLastWritten == Driver!TuneIsLastWritten

\* The speaker module keeps no pin once it is removed.
PinsReturned == Driver!PinsReturned

\* No process reads a press twice.
ReadOnce == Driver!ReadOnce
=============================================================================
