----------------------------- MODULE PolledLights -----------------------------
(***************************************************************************)
(* Lab3, part 1: the traffic light as one polled loop.  The walk button is *)
(* looked at once per round; green and yellow take turns whether or not    *)
(* the pedestrians' light came before.                                     *)
(***************************************************************************)
EXTENDS Integers, Sequences

Lamp == {"GREEN", "YELLOW", "RED"}

VARIABLES
  state,    \* 0: green is next, 1: yellow is next
  led,      \* what the pins of the three lamps show
  blue,     \* what the pin of the blue LED shows
  button,   \* is the walk button down?
  light,    \* the light that is being set or shown
  pc        \* where the loop is; a number: the next pin it writes

vars == <<state, led, blue, button, light, pc>>

\* The pins in the order in which each of the three blocks writes them.
Pins == <<"GREEN", "YELLOW", "RED">>

Turn == IF state = 0 THEN "GREEN" ELSE "YELLOW"

\* The pins show what was left on them before the program started.
Init ==
  /\ state = 0
  /\ led \in [Lamp -> {0, 1}] /\ blue \in {0, 1}
  /\ button \in BOOLEAN
  /\ light = "GREEN"
  /\ pc = "blue"

PressOrRelease ==
  /\ button' = ~ button
  /\ UNCHANGED <<state, led, blue, light, pc>>

ForceBlueOff ==
  /\ pc = "blue"
  /\ blue' = 0
  /\ pc' = "poll"
  /\ UNCHANGED <<state, led, button, light>>

Poll ==
  /\ pc = "poll"
  /\ light' = IF button THEN "RED" ELSE Turn
  /\ pc' = "pin1"
  /\ UNCHANGED <<state, led, blue, button>>

\* Fault: the lamps that are on are not turned off.
WritePinOn(k) ==
  /\ pc = <<"pin1", "pin2", "pin3">>[k]
  /\ led' = [led EXCEPT ![Pins[k]] = IF Pins[k] = light THEN 1 ELSE @]
  /\ pc' = <<"pin2", "pin3", "sleep">>[k]
  /\ state' = IF k = 3 /\ light # "RED" THEN 1 - state ELSE state
  /\ UNCHANGED <<blue, button, light>>

\* One digitalWrite; after the last one of green or yellow the other is next.
WritePin(k) ==
  /\ pc = <<"pin1", "pin2", "pin3">>[k]
  /\ led' = [led EXCEPT ![Pins[k]] = IF Pins[k] = light THEN 1 ELSE 0]
  /\ pc' = <<"pin2", "pin3", "sleep">>[k]
  /\ state' = IF k = 3 /\ light # "RED" THEN 1 - state ELSE state
  /\ UNCHANGED <<blue, button, light>>

\* Fault: the loop starts over after the pedestrians' light.
AwakeAndPoll ==
  /\ pc = "sleep"
  /\ pc' = "poll"
  /\ UNCHANGED <<state, led, blue, button, light>>

\* The sleep ends.  After the pedestrians' light the turn of green or yellow
\* follows in the same round of the loop, without a look at the button.
Awake ==
  /\ pc = "sleep"
  /\ \/ light = "RED" /\ light' = Turn /\ pc' = "pin1"
     \/ light # "RED" /\ pc' = "poll" /\ UNCHANGED light
  /\ UNCHANGED <<state, led, blue, button>>

Loop == ForceBlueOff \/ Poll \/ (\E k \in 1 .. 3 : WritePin(k)) \/ Awake

Next == PressOrRelease \/ Loop

Spec == Init /\ [][Next]_vars

\* The program runs.
FairSpec == Spec /\ WF_vars(Loop)
-----------------------------------------------------------------------------
(***************************************************************************)
(* Properties.                                                             *)
(***************************************************************************)
\* Every variable keeps its type.
TypeOK ==
  /\ state \in {0, 1}
  /\ led \in [Lamp -> {0, 1}] /\ blue \in {0, 1}
  /\ button \in BOOLEAN
  /\ light \in Lamp
  /\ pc \in {"blue", "poll", "pin1", "pin2", "pin3", "sleep"}

\* The pins hold the light that is being set, as far as it has been written,
\* and the turn has passed on when green or yellow is shown: whatever the pins
\* showed before, no lamp of an earlier light is left on
\* (Lab3_Part1.c:34-57).
WrittenSoFar ==
  /\ pc \in {"pin1", "pin2", "pin3"} /\ light # "RED" => light = Turn
  /\ pc = "sleep" /\ light # "RED" => light # Turn
  /\ pc \in {"pin2", "pin3", "sleep"} => led["GREEN"] = (IF light = "GREEN" THEN 1 ELSE 0)
  /\ pc \in {"pin3", "sleep"} => led["YELLOW"] = (IF light = "YELLOW" THEN 1 ELSE 0)
  /\ pc = "sleep" => led["RED"] = (IF light = "RED" THEN 1 ELSE 0)

Shown(lamp) == pc = "sleep" /\ light = lamp

\* Green and yellow come again and again, also when somebody leans on the
\* walk button; the pedestrians' light comes if the button is held down, while
\* a press between two looks at the button may be missed (Lab3_Part1.c:32-58).
EveryLightComesBack ==
  /\ []<>Shown("GREEN") /\ []<>Shown("YELLOW")
  /\ <>[]button => []<>Shown("RED")

\* The polled light does what the threads of part 2 do too.
Board == INSTANCE LampBoard WITH held <- pc = "sleep"
ImplementsBoard == Board!Spec
=============================================================================
