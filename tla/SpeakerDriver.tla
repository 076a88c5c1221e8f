---------------------------- MODULE SpeakerDriver ----------------------------
(***************************************************************************)
(* Lab6: the kernel module Lab6_kmod.c.  A button interrupt leaves a note  *)
(* in msg_r, which a process reads from /dev/Lab6; a note that a process   *)
(* writes there sets the period of the speaker's timer.  Nothing protects  *)
(* msg_r, msg_w and timer_interval_ns.                                     *)
(*                                                                         *)
(* Presses are numbered; msg_r holds the number of the press whose note it *)
(* holds, and 0 for the empty message.                                     *)
(***************************************************************************)
EXTENDS Integers

CONSTANTS
  Process,      \* the processes that use the device
  Written,      \* what processes write, by its first character
  NButtons,     \* buttons 1 .. NButtons (GPIO 16 to 20)
  MayFail,      \* may requests of pins and interrupts fail?
  MaxPresses,   \* bound: presses of the buttons
  MaxWrites     \* bound: writes to the device

Button == 1 .. NButtons
Speaker == 0          \* GPIO 6
NUL == "NUL"
MSG_SIZE == 40

VARIABLES
  phase,              \* how far timer_init and timer_exit have come
  nextIrq,            \* the button whose interrupt is requested next
  requested,          \* the pins this module has requested
  irqs,               \* the dev_id each button's handler is registered with
  timer,              \* hr_timer
  msg_r, msg_w, timer_interval_ns,
  process,            \* where each process is in its use of the device
  note,               \* the note a writing process has loaded from msg_w
  presses, writes,    \* so far
  lastRead,           \* history: the last press that each process has read
  crossed             \* history: was another write under way when the last one began?

module == <<phase, nextIrq, requested, irqs, timer>>
vars == <<module, msg_r, msg_w, timer_interval_ns, process, note, presses, writes,
          lastRead, crossed>>

Init ==
  /\ phase = "absent" /\ nextIrq = 1 /\ requested = {}
  /\ irqs = [b \in Button |-> "none"]
  /\ timer = "none"
  /\ msg_r = 0 /\ msg_w = NUL /\ timer_interval_ns = 500000
  /\ process = [u \in Process |-> "closed"]
  /\ note = [u \in Process |-> NUL]
  /\ presses = 0 /\ writes = 0
  /\ lastRead = [u \in Process |-> 0] /\ crossed = FALSE

device == <<msg_r, msg_w, timer_interval_ns, process, note, presses, writes, lastRead, crossed>>

\* The device exists from register_chrdev to unregister_chrdev.
Registered == phase \notin {"absent", "failed", "removed"}

-----------------------------------------------------------------------------
(***************************************************************************)
(* timer_init.                                                             *)
(***************************************************************************)
RegisterDevice ==
  /\ phase = "absent"
  /\ phase' = "pins" \/ (MayFail /\ phase' = "failed")
  /\ UNCHANGED <<nextIrq, requested, irqs, timer, device>>

\* The buttons are requested in order until one fails; nothing is undone.
RequestPins ==
  /\ phase = "pins"
  /\ phase' = "irqs"
  /\ \E speaker \in BOOLEAN, n \in 0 .. NButtons :
       /\ MayFail \/ (speaker /\ n = NButtons)
       /\ requested' = (IF speaker THEN {Speaker} ELSE {}) \cup 1 .. n
  /\ UNCHANGED <<nextIrq, irqs, timer, device>>

\* A button whose interrupt is refused gives its pin back; the rest goes on.
RequestIrq ==
  /\ phase = "irqs"
  /\ nextIrq' = nextIrq + 1
  /\ phase' = IF nextIrq = NButtons THEN "timer" ELSE "irqs"
  /\ \/ /\ irqs' = [irqs EXCEPT ![nextIrq] = "NULL"]
        /\ UNCHANGED requested
     \/ /\ MayFail
        /\ requested' = requested \ {nextIrq}
        /\ UNCHANGED irqs
  /\ UNCHANGED <<timer, device>>

\* hrtimer_init, and the return that precedes hrtimer_start.
InitTimer ==
  /\ phase = "timer"
  /\ phase' = "loaded"
  /\ timer' = "initialised"
  /\ UNCHANGED <<nextIrq, requested, irqs, device>>

-----------------------------------------------------------------------------
(***************************************************************************)
(* timer_exit.                                                             *)
(***************************************************************************)
CancelTimer ==
  /\ phase = "loaded"
  /\ phase' = "freeing"
  /\ timer' = "cancelled"
  /\ requested' = requested \ {Speaker}
  /\ UNCHANGED <<nextIrq, irqs, device>>

\* free_irq frees the handler that was registered with the dev_id it is given.
FreeIrqs(dev_id) ==
  [b \in Button |-> IF irqs[b] = dev_id THEN "none" ELSE irqs[b]]

\* Fault: the pins of the buttons are kept.
FreeIrqsOnly ==
  /\ phase = "freeing"
  /\ phase' = "freed"
  /\ irqs' = FreeIrqs("Button Interrupt")
  /\ UNCHANGED <<nextIrq, requested, timer, device>>

FreeButtons ==
  /\ phase = "freeing"
  /\ phase' = "freed"
  /\ irqs' = FreeIrqs("Button Interrupt")
  /\ requested' = requested \ Button
  /\ UNCHANGED <<nextIrq, timer, device>>

\* Nothing counts the open files of the module (fops has no owner), so that it
\* can be removed while the device is in use.
Unregister ==
  /\ phase = "freed"
  /\ phase' = "removed"
  /\ UNCHANGED <<nextIrq, requested, irqs, timer, device>>

-----------------------------------------------------------------------------
(***************************************************************************)
(* gpio_irq_handler.                                                       *)
(***************************************************************************)
Press(b) ==
  /\ phase # "removed"
  /\ irqs[b] # "none"
  /\ presses < MaxPresses
  /\ presses' = presses + 1
  /\ msg_r' = presses + 1
  /\ UNCHANGED <<module, msg_w, timer_interval_ns, process, note, writes, lastRead, crossed>>

-----------------------------------------------------------------------------
(***************************************************************************)
(* The file operations, called by processes that have opened the device.   *)
(***************************************************************************)
Open(u) ==
  /\ Registered
  /\ process[u] = "closed"
  /\ process' = [process EXCEPT ![u] = "open"]
  /\ UNCHANGED <<module, msg_r, msg_w, timer_interval_ns, note, presses, writes,
                 lastRead, crossed>>

Close(u) ==
  /\ process[u] = "open"
  /\ process' = [process EXCEPT ![u] = "closed"]
  /\ UNCHANGED <<module, msg_r, msg_w, timer_interval_ns, note, presses, writes,
                 lastRead, crossed>>

\* device_read, first half: copy_to_user.
ReadCopy(u) ==
  /\ phase # "removed"
  /\ process[u] = "open"
  /\ process' = [process EXCEPT ![u] = "clear"]
  /\ lastRead' = IF msg_r = 0 THEN lastRead ELSE [lastRead EXCEPT ![u] = msg_r]
  /\ UNCHANGED <<module, msg_r, msg_w, timer_interval_ns, note, presses, writes, crossed>>

\* Fault: the message is not cleared.
ReadKeep(u) ==
  /\ phase # "removed"
  /\ process[u] = "clear"
  /\ process' = [process EXCEPT ![u] = "open"]
  /\ UNCHANGED <<module, msg_r, msg_w, timer_interval_ns, note, presses, writes,
                 lastRead, crossed>>

\* device_read, second half: whatever is in msg_r by now is cleared.
ReadClear(u) ==
  /\ phase # "removed"
  /\ process[u] = "clear"
  /\ process' = [process EXCEPT ![u] = "open"]
  /\ msg_r' = 0
  /\ UNCHANGED <<module, msg_w, timer_interval_ns, note, presses, writes,
                 lastRead, crossed>>

\* A write that has changed msg_w and has not set the period yet.
Writing(u) == process[u] \in {"load", "tune"}

\* Fault: the length is checked after the message has been copied.
WriteCopyFirst(u, first, len) ==
  /\ phase # "removed"
  /\ process[u] = "open"
  /\ writes < MaxWrites
  /\ writes' = writes + 1
  /\ msg_w' = IF len = 0 THEN NUL ELSE first
  /\ process' = [process EXCEPT ![u] = IF len > MSG_SIZE THEN "open" ELSE "load"]
  /\ crossed' = \E v \in Process : Writing(v)
  /\ UNCHANGED <<module, msg_r, timer_interval_ns, note, presses, lastRead>>

\* device_write: a message that is too long is refused, an empty one
\* overwrites the note with the terminator.
WriteCopy(u, first, len) ==
  /\ phase # "removed"
  /\ process[u] = "open"
  /\ writes < MaxWrites
  /\ writes' = writes + 1
  /\ \/ /\ len > MSG_SIZE
        /\ UNCHANGED <<process, msg_w, crossed>>
     \/ /\ len <= MSG_SIZE
        /\ msg_w' = IF len = 0 THEN NUL ELSE first
        /\ process' = [process EXCEPT ![u] = "load"]
        /\ crossed' = \E v \in Process : Writing(v)
  /\ UNCHANGED <<module, msg_r, timer_interval_ns, note, presses, lastRead>>

WriteLoad(u) ==
  /\ phase # "removed"
  /\ process[u] = "load"
  /\ process' = [process EXCEPT ![u] = "tune"]
  /\ note' = [note EXCEPT ![u] = msg_w]
  /\ UNCHANGED <<module, msg_r, msg_w, timer_interval_ns, presses, writes, lastRead, crossed>>

Pitch == [A |-> 2272727, B |-> 2024291, C |-> 1912046, D |-> 1703577, E |-> 1517451]

\* A note that is misread sounds as F#.
Period(c) == IF c \in DOMAIN Pitch THEN Pitch[c] ELSE 5405405

WriteTune(u) ==
  /\ phase # "removed"
  /\ process[u] = "tune"
  /\ process' = [process EXCEPT ![u] = "open"]
  /\ timer_interval_ns' = Period(note[u])
  /\ UNCHANGED <<module, msg_r, msg_w, note, presses, writes, lastRead, crossed>>

-----------------------------------------------------------------------------
Next ==
  \/ RegisterDevice \/ RequestPins \/ RequestIrq \/ InitTimer
  \/ CancelTimer \/ FreeButtons \/ Unregister
  \/ \E b \in Button : Press(b)
  \/ \E u \in Process : Open(u) \/ Close(u) \/ ReadCopy(u) \/ ReadClear(u)
  \/ \E u \in Process, first \in Written, len \in {0, 1, MSG_SIZE, MSG_SIZE + 1} :
       WriteCopy(u, first, len)
  \/ \E u \in Process : WriteLoad(u) \/ WriteTune(u)

Spec == Init /\ [][Next]_vars
-----------------------------------------------------------------------------
(***************************************************************************)
(* Properties.                                                             *)
(***************************************************************************)
\* Every variable keeps its type.
TypeOK ==
  /\ phase \in {"absent", "failed", "pins", "irqs", "timer", "loaded", "freeing",
                "freed", "removed"}
  /\ nextIrq \in 1 .. NButtons + 1
  /\ requested \subseteq Button \cup {Speaker}
  /\ irqs \in [Button -> {"none", "NULL"}]
  /\ timer \in {"none", "initialised", "running", "cancelled"}
  /\ msg_r \in 0 .. presses
  /\ msg_w \in Written \cup {NUL}
  /\ timer_interval_ns \in Nat
  /\ process \in [Process -> {"closed", "open", "clear", "load", "tune"}]
  /\ note \in [Process -> Written \cup {NUL}]
  /\ presses \in 0 .. MaxPresses /\ writes \in 0 .. MaxWrites
  /\ lastRead \in [Process -> 0 .. presses] /\ crossed \in BOOLEAN

\* Claimed by Lab6_kmod.c ("the same message will not be read twice"): a read
\* returns a press that no earlier read of the same process has returned,
\* wherever interrupts and the reads of others fall between the copy and the
\* clearing of msg_r.  Two processes may get the same press, once each.
ReadOnce ==
  [][\A u \in Process : ReadCopy(u) /\ msg_r # 0 => msg_r > lastRead[u]]_vars

\* When no write is under way, and the last one began when none was, the period
\* of the speaker is that of its note: a refused message changes neither, an
\* empty or misread one changes both, and a period that writes which overlapped
\* have mixed up does not outlive the next write.
TuneIsLastWritten ==
  (\A u \in Process : ~ Writing(u)) /\ ~ crossed =>
    \/ timer_interval_ns = Period(msg_w)
    \/ timer_interval_ns = 500000 /\ msg_w = NUL

\* Whatever requests failed while the module was loaded, it keeps no pin once
\* it is removed.
PinsReturned == phase = "removed" => requested = {}

\* Claimed by Lab6_kmod.c ("FREE Interrupts"): no handler is left when the
\* module is removed.
InterruptsFreed == phase = "removed" => \A b \in Button : irqs[b] = "none"

=============================================================================
