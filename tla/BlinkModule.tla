----------------------------- MODULE BlinkModule -----------------------------
(***************************************************************************)
(* Lab1, week 1: a kernel module that blinks four LEDs five times while it *)
(* is inserted.  Another driver may hold some of the pins.  Every failure  *)
(* leaves the module inserted, because led_blink_init returns 0 for it.    *)
(***************************************************************************)
EXTENDS Integers, Sequences

Pin == {"BLUE", "GREEN", "RED", "YELLOW"}

VARIABLES
  phase,   \* how far led_blink_init and led_blink_exit have come
  owner,   \* who holds each pin: "nobody", "blink" or "other"
  led,     \* what the pins show
  round,   \* i of the blinking loop
  step     \* the next gpio_ call of the current phase

vars == <<phase, owner, led, round, step>>

\* Pins are requested and set up in one order and switched in another.
SetupOrder == <<"BLUE", "GREEN", "RED", "YELLOW">>
BlinkOrder == <<"BLUE", "GREEN", "YELLOW", "RED">>
FreeOrder == <<"BLUE", "RED", "GREEN", "YELLOW">>
Rounds == 5

Init ==
  /\ phase = "absent"
  /\ owner \in [Pin -> {"nobody", "other"}]
  /\ led \in [Pin -> {0, 1}]
  /\ round = 0 /\ step = 1

\* A call for every pin in turn; after the last one comes the next phase.
Advance(next) ==
  IF step = 4 THEN phase' = next /\ step' = 1
              ELSE phase' = phase /\ step' = step + 1

Insert(valid) ==
  /\ phase = "absent"
  /\ phase' = IF valid THEN "request" ELSE "inserted"
  /\ UNCHANGED <<owner, led, round, step>>

\* Fault: a failed request is ignored.
RequestAnyway ==
  /\ phase = "request"
  /\ LET pin == SetupOrder[step] IN
       owner' = IF owner[pin] = "nobody" THEN [owner EXCEPT ![pin] = "blink"] ELSE owner
  /\ Advance("direction")
  /\ UNCHANGED <<led, round>>

\* gpio_request fails for a pin that is held already; those before are kept.
Request ==
  /\ phase = "request"
  /\ LET pin == SetupOrder[step] IN
       IF owner[pin] = "nobody"
       THEN owner' = [owner EXCEPT ![pin] = "blink"] /\ Advance("direction")
       ELSE phase' = "inserted" /\ step' = 1 /\ UNCHANGED owner
  /\ UNCHANGED <<led, round>>

\* gpio_direction_output(pin, 0) may fail as well.
SetDirection ==
  /\ phase = "direction"
  /\ \/ led' = [led EXCEPT ![SetupOrder[step]] = 0] /\ Advance("on")
     \/ phase' = "inserted" /\ step' = 1 /\ UNCHANGED led
  /\ UNCHANGED <<owner, round>>

SwitchOn ==
  /\ phase = "on"
  /\ led' = [led EXCEPT ![BlinkOrder[step]] = 1]
  /\ Advance("off")
  /\ UNCHANGED <<owner, round>>

SwitchOff ==
  /\ phase = "off"
  /\ led' = [led EXCEPT ![BlinkOrder[step]] = 0]
  /\ Advance(IF round + 1 < Rounds THEN "on" ELSE "inserted")
  /\ round' = IF step = 4 THEN round + 1 ELSE round
  /\ UNCHANGED owner

Remove ==
  /\ phase = "inserted"
  /\ phase' = "free"
  /\ UNCHANGED <<owner, led, round, step>>

\* Fault: the last pin is not freed.
FreeThree ==
  /\ phase = "free"
  /\ owner' = IF step = 4 THEN owner ELSE [owner EXCEPT ![FreeOrder[step]] = "nobody"]
  /\ Advance("removed")
  /\ UNCHANGED <<led, round>>

\* gpio_free does not ask who has requested the pin.
Free ==
  /\ phase = "free"
  /\ owner' = [owner EXCEPT ![FreeOrder[step]] = "nobody"]
  /\ Advance("removed")
  /\ UNCHANGED <<led, round>>

Next ==
  \/ \E valid \in BOOLEAN : Insert(valid)
  \/ Request \/ SetDirection \/ SwitchOn \/ SwitchOff
  \/ Remove \/ Free

Spec == Init /\ [][Next]_vars
-----------------------------------------------------------------------------
(***************************************************************************)
(* Properties.                                                             *)
(***************************************************************************)
\* Every variable keeps its type.
TypeOK ==
  /\ phase \in {"absent", "request", "direction", "on", "off", "inserted", "free",
                "removed"}
  /\ owner \in [Pin -> {"nobody", "blink", "other"}]
  /\ led \in [Pin -> {0, 1}]
  /\ round \in 0 .. Rounds /\ step \in 1 .. 4

\* The module switches a pin only while it holds it: whichever request fails,
\* no LED of another driver is touched (Lab1Week1.c:33-63).
OnlyOwnPins == [][\A p \in Pin : led'[p] # led[p] => owner[p] = "blink"]_vars

\* However the set-up ended, the module holds no pin once it is removed.
NothingKept == phase = "removed" => \A p \in Pin : owner[p] # "blink"
=============================================================================
