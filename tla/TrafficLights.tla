---------------------------- MODULE TrafficLights ----------------------------
(***************************************************************************)
(* Lab3, part 2: a traffic light with a light for pedestrians.  Three      *)
(* threads take turns through the semaphore lights_mutex; each sets the    *)
(* global array lights, copies it to the pins and sleeps with the          *)
(* semaphore held.  The pedestrians' thread takes part only while the walk *)
(* button is down.                                                         *)
(***************************************************************************)
EXTENDS Integers, Sequences

Side == {"greenSideLight", "yellowSideLight", "walkLight"}
Lamp == {"GREEN", "YELLOW", "RED"}

VARIABLES
  lights_mutex,
  lights,       \* the array that the threads share
  led,          \* what the pins show
  button,       \* is the walk button down?
  pc            \* where each thread is; a number: the next pin it writes

vars == <<lights_mutex, lights, led, button, pc>>

\* The pins in the order of setLightsOn.
Pins == <<"GREEN", "YELLOW", "RED">>

LampOf == [greenSideLight |-> "GREEN", yellowSideLight |-> "YELLOW", walkLight |-> "RED"]

Only(lamp) == [l \in Lamp |-> IF l = lamp THEN 1 ELSE 0]

\* The top of each thread's loop: the pedestrians' thread polls the button.
Top(t) == IF t = "walkLight" THEN "poll" ELSE "wait"

\* The pins show what was left on them before the program started.
Init ==
  /\ lights_mutex = 1
  /\ lights = [l \in Lamp |-> 0]
  /\ led \in [Lamp -> {0, 1}]
  /\ button \in BOOLEAN
  /\ pc = [t \in Side |-> Top(t)]

PressOrRelease ==
  /\ button' = ~ button
  /\ UNCHANGED <<lights_mutex, lights, led, pc>>

Poll(t) ==
  /\ pc[t] = "poll"
  /\ button
  /\ pc' = [pc EXCEPT ![t] = "wait"]
  /\ UNCHANGED <<lights_mutex, lights, led, button>>

\* Fault: the semaphore starts with room for two.
WaitForTwo(t) ==
  /\ pc[t] = "wait"
  /\ lights_mutex > -1
  /\ lights_mutex' = lights_mutex - 1
  /\ pc' = [pc EXCEPT ![t] = "set"]
  /\ UNCHANGED <<lights, led, button>>

Wait(t) ==
  /\ pc[t] = "wait"
  /\ lights_mutex > 0
  /\ lights_mutex' = lights_mutex - 1
  /\ pc' = [pc EXCEPT ![t] = "set"]
  /\ UNCHANGED <<lights, led, button>>

SetLights(t) ==
  /\ pc[t] = "set"
  /\ lights' = Only(LampOf[t])
  /\ pc' = [pc EXCEPT ![t] = "pin1"]
  /\ UNCHANGED <<lights_mutex, led, button>>

\* One digitalWrite of setLightsOn.
WritePin(t, k) ==
  /\ pc[t] = <<"pin1", "pin2", "pin3">>[k]
  /\ led' = [led EXCEPT ![Pins[k]] = lights[Pins[k]]]
  /\ pc' = [pc EXCEPT ![t] = <<"pin2", "pin3", "sleep">>[k]]
  /\ UNCHANGED <<lights_mutex, lights, button>>

\* Fault: the semaphore is not given back by the pedestrians.
KeepWalking(t) ==
  /\ pc[t] = "sleep"
  /\ lights_mutex' = IF t = "walkLight" THEN lights_mutex ELSE lights_mutex + 1
  /\ pc' = [pc EXCEPT ![t] = Top(t)]
  /\ UNCHANGED <<lights, led, button>>

\* The sleep ends, and sem_post.
Post(t) ==
  /\ pc[t] = "sleep"
  /\ lights_mutex' = lights_mutex + 1
  /\ pc' = [pc EXCEPT ![t] = Top(t)]
  /\ UNCHANGED <<lights, led, button>>

Thread(t) ==
  \/ Poll(t)
  \/ Wait(t)
  \/ SetLights(t)
  \/ \E k \in 1 .. 3 : WritePin(t, k)
  \/ Post(t)

Next == PressOrRelease \/ \E t \in Side : Thread(t)

Spec == Init /\ [][Next]_vars

\* Every thread that can run is run; sem_wait promises no order among those
\* that wait.
FairSpec == Spec /\ \A t \in Side : WF_vars(Thread(t))
-----------------------------------------------------------------------------
(***************************************************************************)
(* Properties.                                                             *)
(***************************************************************************)
\* Every variable keeps its type.
TypeOK ==
  /\ lights_mutex \in {0, 1}
  /\ lights \in [Lamp -> {0, 1}]
  /\ led \in [Lamp -> {0, 1}]
  /\ button \in BOOLEAN
  /\ pc \in [Side -> {"poll", "wait", "set", "pin1", "pin2", "pin3", "sleep"}]

\* While a thread sleeps, its lamp is on and no other one, whatever the pins
\* showed before and however the three threads interleave between their
\* sem_wait and sem_post (Lab3_Part2.c:31-37, 47-53, 64-70).
OnlyMyLamp ==
  \A t \in Side : pc[t] = "sleep" => led = Only(LampOf[t])

\* The turns never end: a thread always comes to sleep with its lamp on again,
\* and always gives the semaphore back, whatever happens to the button.
TurnsGoOn ==
  /\ []<>(\E t \in Side : pc[t] = "sleep")
  /\ []<>(lights_mutex = 1)

\* What is true between the sem_wait and the sem_post of a thread: it is the
\* only one there, and the array and the pins hold its light as far as it has
\* got (Lab3_Part2.c:31-36, 47-52, 64-69).
Inside(t) == pc[t] \in {"set", "pin1", "pin2", "pin3", "sleep"}

TurnInv ==
  /\ \A t \in Side : Inside(t) => lights_mutex = 0
  /\ \A t, u \in Side : Inside(t) /\ Inside(u) => t = u
  /\ lights_mutex = 0 => \E t \in Side : Inside(t)
  /\ \A t \in Side : Inside(t) /\ pc[t] # "set" => lights = Only(LampOf[t])
  /\ \A t \in Side :
       /\ pc[t] \in {"pin2", "pin3", "sleep"} => led["GREEN"] = lights["GREEN"]
       /\ pc[t] \in {"pin3", "sleep"} => led["YELLOW"] = lights["YELLOW"]
       /\ pc[t] = "sleep" => led["RED"] = lights["RED"]

\* The threads do what the polled light of part 1 does too: no thread writes a
\* pin while another one holds its light.
Board == INSTANCE LampBoard WITH held <- \E t \in Side : pc[t] = "sleep"
ImplementsBoard == Board!Spec
=============================================================================
