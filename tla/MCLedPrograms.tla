---------------------------- MODULE MCLedPrograms ----------------------------
(***************************************************************************)
(* The programs that drive the LEDs of the board: the buttons and the      *)
(* blinking module of Lab1, the two traffic lights of Lab3.  They belong   *)
(* to different weeks; a behaviour is one of any one of them.              *)
(***************************************************************************)
EXTENDS ButtonLeds

VARIABLES
  program,                                             \* the one that is run
  lights_mutex, lights, threadsLed, threadsButton, pc, \* TrafficLights
  state, polledLed, blue, polledButton, light, at,     \* PolledLights
  blinkPhase, owner, blinkLed, round, step             \* BlinkModule

buttonVars == vars
threadsVars == <<lights_mutex, lights, threadsLed, threadsButton, pc>>
polledVars == <<state, polledLed, blue, polledButton, light, at>>
blinkVars == <<blinkPhase, owner, blinkLed, round, step>>
allVars == <<program, buttonVars, threadsVars, polledVars, blinkVars>>

Threads == INSTANCE TrafficLights WITH led <- threadsLed, button <- threadsButton
Polled == INSTANCE PolledLights WITH led <- polledLed, button <- polledButton, pc <- at
Blink == INSTANCE BlinkModule WITH phase <- blinkPhase, led <- blinkLed

\* A program that is not run stays in one of its initial states.
MCInit ==
  /\ program \in {"buttons", "threads", "polled", "blink"}
  /\ Init /\ Threads!Init /\ Polled!Init /\ Blink!Init
  /\ program # "buttons" => lit = {}
  /\ program # "threads" => threadsLed = Threads!Only("RED") /\ ~ threadsButton
  /\ program # "polled" => polledLed = Polled!Board!Only("RED") /\ blue = 0 /\ ~ polledButton
  /\ program # "blink" => \A p \in Blink!Pin : owner[p] = "nobody" /\ blinkLed[p] = 0

MCNext ==
  /\ UNCHANGED program
  /\ \/ program = "buttons" /\ Next
        /\ UNCHANGED <<threadsVars, polledVars, blinkVars>>
     \/ program = "threads" /\ Threads!Next
        /\ UNCHANGED <<buttonVars, polledVars, blinkVars>>
     \/ program = "polled" /\ Polled!Next
        /\ UNCHANGED <<buttonVars, threadsVars, blinkVars>>
     \/ program = "blink" /\ Blink!Next
        /\ UNCHANGED <<buttonVars, threadsVars, polledVars>>

MCSpec ==
  /\ MCInit /\ [][MCNext]_allVars
  /\ WF_buttonVars(user # "start" /\ Program)
  /\ \A t \in Threads!Side : WF_threadsVars(program = "threads" /\ Threads!Thread(t))
  /\ WF_polledVars(program = "polled" /\ Polled!Loop)

-----------------------------------------------------------------------------
\* The type invariants of the four programs.
TypesOK == TypeOK /\ Threads!TypeOK /\ Polled!TypeOK /\ Blink!TypeOK

\* While a thread of Lab3_Part2.c sleeps, its lamp alone is on.
OnlyMyLamp == Threads!OnlyMyLamp

\* The turns of the threads of Lab3_Part2.c never end.
TurnsGoOn == program = "threads" => Threads!TurnsGoOn

\* In the loop of Lab3_Part1.c no light waits for ever.
EveryLightComesBack == program = "polled" => Polled!EveryLightComesBack

\* Lab3_Part2.c and Lab3_Part1.c keep what the abstract light promises.
ThreadsImplementBoard == Threads!ImplementsBoard
PolledImplementsBoard == Polled!ImplementsBoard

\* The module of Lab1Week1.c touches only LEDs that it holds, and gives them
\* back.
OnlyOwnPins == Blink!OnlyOwnPins
NothingKept == Blink!NothingKept
=============================================================================
