------------------------------ MODULE ButtonLeds ------------------------------
(***************************************************************************)
(* Lab1, week 2: buttons that light LEDs.  The kernel module Lab1-Week2.c  *)
(* leaves the letter of the last button in msg; the program                *)
(* Lab1_cdev_user.c reads it from /dev/Lab1 over and over and lights the   *)
(* LED of the letter, or turns all LEDs off.  Reading does not clear msg.  *)
(***************************************************************************)
EXTENDS Integers, Sequences

CONSTANTS
  MayFail,     \* may requests of the module fail?
  MaxPresses   \* bound: presses of the buttons

ASSUME PressAssumption == MayFail \in BOOLEAN /\ MaxPresses \in Nat

NUL == "NUL"
Colour == {"b", "m", "g", "y"}
Ctrl == Colour \cup {"r"}
\* The order in which the handlers are registered.
Registration == <<"b", "m", "g", "y", "r">>
\* The order in which a reset turns the LEDs off.
ResetOrder == <<"b", "m", "y", "g">>

VARIABLES
  phase,      \* how far init_module and cleanup_module have come
  nextIrq,    \* position in Registration of the next request_irq
  requested,  \* the buttons whose pins the module has requested
  handlers,   \* the buttons with a handler
  msg,        \* msg[0]
  user,       \* where the program is
  buffer,     \* buffer[0] of the program
  lit,        \* the LEDs that are on
  presses     \* so far

module == <<phase, nextIrq, requested, handlers>>
vars == <<module, msg, user, buffer, lit, presses>>

\* The LEDs keep what an earlier program has left them at.
Init ==
  /\ phase = "absent" /\ nextIrq = 1 /\ requested = {} /\ handlers = {}
  /\ msg = NUL
  /\ user = "start" /\ buffer = NUL /\ lit \in SUBSET Colour
  /\ presses = 0

Registered == phase \in {"pins", "irqs", "inserted", "freed"}
Absent == phase \in {"absent", "failed", "removed"}

-----------------------------------------------------------------------------
(***************************************************************************)
(* init_module and cleanup_module.                                         *)
(***************************************************************************)
RegisterDevice ==
  /\ phase = "absent"
  /\ phase' = "pins" \/ (MayFail /\ phase' = "failed")
  /\ UNCHANGED <<nextIrq, requested, handlers, msg, user, buffer, lit, presses>>

\* Requested in the order b, g, m, y, r until one fails; nothing is undone.
RequestPins ==
  /\ phase = "pins"
  /\ phase' = "irqs"
  /\ \E k \in 0 .. 5 :
       /\ MayFail \/ k = 5
       /\ requested' = {<<"b", "g", "m", "y", "r">>[i] : i \in 1 .. k}
  /\ UNCHANGED <<nextIrq, handlers, msg, user, buffer, lit, presses>>

\* A refused interrupt gives the pin back; the module is inserted anyway.
RequestIrq ==
  /\ phase = "irqs"
  /\ nextIrq' = nextIrq + 1
  /\ phase' = IF nextIrq = Len(Registration) THEN "inserted" ELSE "irqs"
  /\ \/ /\ handlers' = handlers \cup {Registration[nextIrq]}
        /\ UNCHANGED requested
     \/ /\ MayFail
        /\ requested' = requested \ {Registration[nextIrq]}
        /\ UNCHANGED handlers
  /\ UNCHANGED <<msg, user, buffer, lit, presses>>

\* The handlers stay.
FreePins ==
  /\ phase = "inserted"
  /\ phase' = "freed"
  /\ requested' = {}
  /\ UNCHANGED <<nextIrq, handlers, msg, user, buffer, lit, presses>>

Unregister ==
  /\ phase = "freed"
  /\ phase' = "removed"
  /\ UNCHANGED <<nextIrq, requested, handlers, msg, user, buffer, lit, presses>>

\* gpio_irq_handler.
Press(c) ==
  /\ phase # "removed"
  /\ c \in handlers
  /\ presses < MaxPresses
  /\ presses' = presses + 1
  /\ msg' = c
  /\ UNCHANGED <<module, user, buffer, lit>>

-----------------------------------------------------------------------------
(***************************************************************************)
(* The program.                                                            *)
(***************************************************************************)
OpenDevice ==
  /\ user = "start"
  /\ user' = IF Registered THEN "read" ELSE "exited"
  /\ UNCHANGED <<module, msg, buffer, lit, presses>>

Read ==
  /\ phase # "removed"
  /\ user = "read"
  /\ user' = "apply"
  /\ buffer' = msg
  /\ UNCHANGED <<module, msg, lit, presses>>

\* Fault: the program acts on what is in msg by now.
LightLatest ==
  /\ user = "apply"
  /\ \/ buffer \in Colour /\ lit' = {msg} \cap Colour /\ user' = "read"
     \/ buffer = NUL /\ lit' = lit /\ user' = "read"
     \/ buffer = "r" /\ lit' = lit /\ user' = "off1"
  /\ UNCHANGED <<module, msg, buffer, presses>>

\* One digitalWrite lights the LED of the letter; a reset takes four.
Light ==
  /\ user = "apply"
  /\ \/ buffer \in Colour /\ lit' = lit \cup {buffer} /\ user' = "read"
     \/ buffer = NUL /\ lit' = lit /\ user' = "read"
     \/ buffer = "r" /\ lit' = lit /\ user' = "off1"
  /\ UNCHANGED <<module, msg, buffer, presses>>

\* Fault: the last LED is forgotten.
TurnOffThree(k) ==
  /\ user = <<"off1", "off2", "off3", "off4">>[k]
  /\ lit' = IF k = 4 THEN lit ELSE lit \ {ResetOrder[k]}
  /\ user' = <<"off2", "off3", "off4", "read">>[k]
  /\ UNCHANGED <<module, msg, buffer, presses>>

TurnOff(k) ==
  /\ user = <<"off1", "off2", "off3", "off4">>[k]
  /\ lit' = lit \ {ResetOrder[k]}
  /\ user' = <<"off2", "off3", "off4", "read">>[k]
  /\ UNCHANGED <<module, msg, buffer, presses>>

Program == OpenDevice \/ Read \/ Light \/ \E k \in 1 .. 4 : TurnOff(k)

-----------------------------------------------------------------------------
Next ==
  \/ RegisterDevice \/ RequestPins \/ RequestIrq
  \/ FreePins \/ Unregister
  \/ \E c \in Ctrl : Press(c)
  \/ Program

Spec == Init /\ [][Next]_vars

\* Once started, the program runs.
FairSpec == Spec /\ WF_vars(user # "start" /\ Program)
-----------------------------------------------------------------------------
(***************************************************************************)
(* Properties.                                                             *)
(***************************************************************************)
\* Every variable keeps its type.
TypeOK ==
  /\ phase \in {"absent", "failed", "pins", "irqs", "inserted", "freed", "removed"}
  /\ nextIrq \in 1 .. 6
  /\ requested \subseteq Ctrl /\ handlers \subseteq Ctrl
  /\ msg \in Ctrl \cup {NUL} /\ buffer \in Ctrl \cup {NUL}
  /\ user \in {"start", "exited", "read", "apply", "off1", "off2", "off3", "off4"}
  /\ lit \subseteq Colour
  /\ presses \in 0 .. MaxPresses

\* The program is running and the device is there.
Served == user \notin {"start", "exited"} /\ phase # "removed"

\* A press that is not followed by another is shown in the end and for good,
\* also when it comes while the program is half way through turning the LEDs
\* off for an earlier reset: its LED stays on, or all are off after a reset
\* (Lab1-Week2.c:45-66 and Lab1_cdev_user.c:40-71).
LastPressShown ==
  /\ \A c \in Colour : <>[](msg = c /\ Served) => <>[](c \in lit)
  /\ <>[](msg = "r" /\ Served) => <>[](lit = {})

\* An LED goes off only for a reset, whatever is pressed while the program is
\* busy: every LED that a letter has lit is still on when the next letter is
\* read, unless that letter was read after a reset.
OffOnlyOnReset == [][lit \subseteq lit' \/ buffer = "r"]_vars

=============================================================================
