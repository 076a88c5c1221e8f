--------------------------- MODULE LedProgramsProofs ---------------------------
(***************************************************************************)
(* Proofs about the LED programs: first each one alone, then together in   *)
(* MCLedPrograms, where each one behaves as it does alone and so keeps     *)
(* what is proved of it.                                                   *)
(***************************************************************************)
EXTENDS MCLedPrograms, TLAPS

(***************************************************************************)
(* The threads of the traffic light: the semaphore keeps them apart from   *)
(* the first write of the array to the end of the sleep, so that the lamps *)
(* show one light at a time and the program implements LampBoard.          *)
(***************************************************************************)
\* The inductive invariant.
ThreadsInv == Threads!TypeOK /\ Threads!TurnInv

LEMMA InitThreads == Threads!Init => ThreadsInv
<1> SUFFICES ASSUME Threads!Init PROVE ThreadsInv
  OBVIOUS
<1> USE DEF Threads!Init, Threads!Side, Threads!Lamp
<1>1. Threads!TypeOK
  BY DEF Threads!TypeOK, Threads!Top
<1>2. \A t \in Threads!Side : ~ Threads!Inside(t)
  BY DEF Threads!Inside, Threads!Top
<1>3. lights_mutex = 1
  OBVIOUS
<1>4. \A t \in Threads!Side : pc[t] \notin {"pin2", "pin3", "sleep"}
  BY <1>2 DEF Threads!Inside
<1>5. Threads!TurnInv
  BY <1>2, <1>3, <1>4 DEF Threads!TurnInv
<1>6. QED
  BY <1>1, <1>5 DEF ThreadsInv

LEMMA StepThreads == ThreadsInv /\ [Threads!Next]_(Threads!vars) => ThreadsInv'
<1> SUFFICES ASSUME ThreadsInv, [Threads!Next]_(Threads!vars) PROVE ThreadsInv'
  OBVIOUS
<1> USE DEF ThreadsInv
<1>1. CASE Threads!PressOrRelease
  BY <1>1 DEF Threads!PressOrRelease, Threads!TypeOK, Threads!TurnInv, Threads!Inside
<1>2. ASSUME NEW t \in Threads!Side, Threads!Poll(t) PROVE ThreadsInv'
  BY <1>2 DEF Threads!Poll, Threads!TypeOK, Threads!TurnInv, Threads!Inside
<1>3. ASSUME NEW t \in Threads!Side, Threads!Wait(t) PROVE ThreadsInv'
  BY <1>3 DEF Threads!Wait, Threads!TypeOK, Threads!TurnInv, Threads!Inside
<1>4. ASSUME NEW t \in Threads!Side, Threads!SetLights(t) PROVE ThreadsInv'
  <2>1. Threads!TypeOK'
    BY <1>4 DEF Threads!SetLights, Threads!TypeOK, Threads!Only
  <2>2. Threads!TurnInv'
    BY <1>4 DEF Threads!SetLights, Threads!TypeOK, Threads!TurnInv, Threads!Inside
  <2>3. QED
    BY <2>1, <2>2
<1>5. ASSUME NEW t \in Threads!Side, NEW k \in 1 .. 3, Threads!WritePin(t, k) PROVE ThreadsInv'
  <2>1. CASE k = 1
    BY <1>5, <2>1 DEF Threads!WritePin, Threads!TypeOK, Threads!TurnInv, Threads!Inside,
                      Threads!Pins, Threads!Lamp
  <2>2. CASE k = 2
    BY <1>5, <2>2 DEF Threads!WritePin, Threads!TypeOK, Threads!TurnInv, Threads!Inside,
                      Threads!Pins, Threads!Lamp
  <2>3. CASE k = 3
    BY <1>5, <2>3 DEF Threads!WritePin, Threads!TypeOK, Threads!TurnInv, Threads!Inside,
                      Threads!Pins, Threads!Lamp
  <2>4. QED
    BY <2>1, <2>2, <2>3
<1>6. ASSUME NEW t \in Threads!Side, Threads!Post(t) PROVE ThreadsInv'
  BY <1>6 DEF Threads!Post, Threads!TypeOK, Threads!TurnInv, Threads!Inside, Threads!Top
<1>7. CASE UNCHANGED Threads!vars
  BY <1>7 DEF Threads!vars, Threads!TypeOK, Threads!TurnInv, Threads!Inside
<1>8. QED
  BY <1>1, <1>2, <1>3, <1>4, <1>5, <1>6, <1>7 DEF Threads!Next, Threads!Thread

LEMMA AlwaysThreads == Threads!Spec => []ThreadsInv
  BY InitThreads, StepThreads, PTL DEF Threads!Spec

-----------------------------------------------------------------------------
\* Every variable of Lab3_Part2.c keeps its type: in particular the semaphore
\* never counts beyond one.
THEOREM ThreadsTypeCorrect == Threads!Spec => []Threads!TypeOK
  BY AlwaysThreads, PTL DEF ThreadsInv

\* The inductive invariant of the turns (Lab3_Part2.c:27-75).
THEOREM Turns == Threads!Spec => []Threads!TurnInv
  BY AlwaysThreads, PTL DEF ThreadsInv

\* A thread that sleeps has its lamp on and no other one, whatever the lamps
\* showed before and however the threads interleave (Lab3_Part2.c:27-75).
THEOREM SleeperAlone == Threads!Spec => []Threads!OnlyMyLamp
<1>1. ThreadsInv => Threads!OnlyMyLamp
  BY DEF ThreadsInv, Threads!TypeOK, Threads!TurnInv, Threads!Inside, Threads!OnlyMyLamp,
         Threads!Only, Threads!Lamp
<1>2. QED
  BY <1>1, AlwaysThreads, PTL
-----------------------------------------------------------------------------
Asleep == \E t \in Threads!Side : pc[t] = "sleep"

\* Before the first light nobody holds one; every step of the threads is a
\* step of the abstract light or leaves it alone.
LEMMA InitBoard == Threads!Init => Threads!Board!Init
  BY DEF Threads!Init, Threads!Board!Init, Threads!Side, Threads!Top

LEMMA StepBoard ==
  ThreadsInv /\ [Threads!Next]_(Threads!vars) => [Threads!Board!Next]_(Threads!Board!vars)
<1> SUFFICES ASSUME ThreadsInv, [Threads!Next]_(Threads!vars)
             PROVE  [Threads!Board!Next]_(Threads!Board!vars)
  OBVIOUS
<1> USE DEF Threads!Board!vars
<1>1. ASSUME threadsLed' = threadsLed, Asleep' = Asleep
      PROVE  [Threads!Board!Next]_(Threads!Board!vars)
  BY <1>1 DEF Asleep
<1>2. ASSUME NEW t \in Threads!Side, pc[t] # "sleep", pc'[t] # "sleep",
             \A u \in Threads!Side \ {t} : pc'[u] = pc[u]
      PROVE  Asleep' = Asleep
  BY <1>2 DEF Asleep
<1>3. CASE Threads!PressOrRelease
  BY <1>1, <1>3 DEF Threads!PressOrRelease, Asleep
<1>4. ASSUME NEW t \in Threads!Side, Threads!Poll(t) \/ Threads!Wait(t) \/ Threads!SetLights(t)
      PROVE  [Threads!Board!Next]_(Threads!Board!vars)
  <2>1. threadsLed' = threadsLed /\ pc[t] # "sleep" /\ pc'[t] # "sleep"
        /\ \A u \in Threads!Side \ {t} : pc'[u] = pc[u]
    BY <1>4 DEF Threads!Poll, Threads!Wait, Threads!SetLights, ThreadsInv, Threads!TypeOK
  <2>2. QED
    BY <2>1, <1>1, <1>2
<1>5. ASSUME NEW t \in Threads!Side, NEW k \in 1 .. 3, Threads!WritePin(t, k)
      PROVE  [Threads!Board!Next]_(Threads!Board!vars)
  <2>1. Threads!Inside(t) /\ pc[t] # "set" /\ pc[t] # "sleep"
    BY <1>5 DEF Threads!WritePin, Threads!Inside
  <2>2. ~ Asleep
    BY <2>1 DEF Asleep, ThreadsInv, Threads!TurnInv, Threads!Inside
  <2>3. Threads!Pins[k] \in Threads!Lamp /\ lights[Threads!Pins[k]] \in {0, 1}
    BY DEF Threads!Pins, Threads!Lamp, ThreadsInv, Threads!TypeOK
  <2>4. threadsLed' = [threadsLed EXCEPT ![Threads!Pins[k]] = lights[Threads!Pins[k]]]
    BY <1>5 DEF Threads!WritePin
  <2>5. Asleep' => threadsLed' = Threads!Only(Threads!LampOf[t])
    <3>1. SUFFICES ASSUME Asleep' PROVE threadsLed' = Threads!Only(Threads!LampOf[t])
      OBVIOUS
    <3>2. k = 3 /\ pc[t] = "pin3"
      BY <3>1, <2>2, <1>5 DEF Asleep, Threads!WritePin, ThreadsInv, Threads!TypeOK
    <3>3. /\ threadsLed["GREEN"] = lights["GREEN"] /\ threadsLed["YELLOW"] = lights["YELLOW"]
          /\ lights = Threads!Only(Threads!LampOf[t])
      BY <3>2, <2>1 DEF ThreadsInv, Threads!TurnInv
    <3>4. threadsLed' = [threadsLed EXCEPT !["RED"] = lights["RED"]]
      BY <3>2, <2>4 DEF Threads!Pins
    <3>5. QED
      BY <3>3, <3>4 DEF ThreadsInv, Threads!TypeOK, Threads!Lamp, Threads!Only
  <2>6. Threads!LampOf[t] \in Threads!Lamp
    BY DEF Threads!LampOf, Threads!Side, Threads!Lamp
  <2>7. Threads!Board!Write
    BY <2>2, <2>3, <2>4, <2>5, <2>6
       DEF Threads!Board!Write, Asleep, Threads!Only, Threads!Board!Only
  <2>8. QED
    BY <2>7 DEF Threads!Board!Next
<1>6. ASSUME NEW t \in Threads!Side, Threads!Post(t)
      PROVE  [Threads!Board!Next]_(Threads!Board!vars)
  <2>1. Asleep /\ ~ Asleep' /\ threadsLed' = threadsLed
    BY <1>6 DEF Threads!Post, Asleep, Threads!Top, ThreadsInv, Threads!TypeOK, Threads!TurnInv,
                Threads!Inside
  <2>2. QED
    BY <2>1 DEF Threads!Board!Next, Threads!Board!Release, Asleep
<1>7. CASE UNCHANGED Threads!vars
  BY <1>1, <1>7 DEF Threads!vars, Asleep
<1>8. QED
  BY <1>3, <1>4, <1>5, <1>6, <1>7 DEF Threads!Next, Threads!Thread

\* The threads of Lab3_Part2.c implement the abstract light: no thread writes
\* a pin while another one holds its light.
THEOREM ThreadsRefine == Threads!Spec => Threads!ImplementsBoard
  BY InitBoard, StepBoard, AlwaysThreads, PTL
     DEF Threads!Spec, Threads!ImplementsBoard, Threads!Board!Spec
-----------------------------------------------------------------------------
(***************************************************************************)
(* The polled traffic light: what the loop has written is what the pins    *)
(* show, so that it implements LampBoard, as the threads of part 2 do.     *)
(***************************************************************************)
\* The inductive invariant.
PolledInv == Polled!TypeOK /\ Polled!WrittenSoFar

LEMMA InitPolled == Polled!Init => PolledInv
  BY DEF Polled!Init, PolledInv, Polled!TypeOK, Polled!WrittenSoFar, Polled!Lamp

LEMMA StepPolled == PolledInv /\ [Polled!Next]_(Polled!vars) => PolledInv'
<1> SUFFICES ASSUME PolledInv, [Polled!Next]_(Polled!vars) PROVE PolledInv'
  OBVIOUS
<1> USE DEF PolledInv
<1>1. CASE Polled!PressOrRelease
  BY <1>1 DEF Polled!PressOrRelease, Polled!TypeOK, Polled!WrittenSoFar, Polled!Turn
<1>2. CASE Polled!ForceBlueOff
  BY <1>2 DEF Polled!ForceBlueOff, Polled!TypeOK, Polled!WrittenSoFar, Polled!Turn
<1>3. CASE Polled!Poll
  BY <1>3 DEF Polled!Poll, Polled!TypeOK, Polled!WrittenSoFar, Polled!Turn, Polled!Lamp
<1>4. ASSUME NEW k \in 1 .. 3, Polled!WritePin(k) PROVE PolledInv'
  <2>1. CASE k = 1
    BY <1>4, <2>1 DEF Polled!WritePin, Polled!TypeOK, Polled!WrittenSoFar, Polled!Turn,
                      Polled!Pins, Polled!Lamp
  <2>2. CASE k = 2
    BY <1>4, <2>2 DEF Polled!WritePin, Polled!TypeOK, Polled!WrittenSoFar, Polled!Turn,
                      Polled!Pins, Polled!Lamp
  <2>3. CASE k = 3
    <3>1. /\ at = "pin3" /\ at' = "sleep"
          /\ polledLed' = [polledLed EXCEPT !["RED"] = IF "RED" = light THEN 1 ELSE 0]
          /\ state' = IF light # "RED" THEN 1 - state ELSE state
          /\ UNCHANGED <<blue, polledButton, light>>
      BY <1>4, <2>3 DEF Polled!WritePin, Polled!Pins
    <3>2. Polled!TypeOK'
      BY <3>1 DEF Polled!TypeOK, Polled!Lamp
    <3>3. light # "RED" => light # Polled!Turn'
      BY <3>1 DEF Polled!TypeOK, Polled!WrittenSoFar, Polled!Turn, Polled!Lamp
    <3>4. QED
      BY <3>1, <3>2, <3>3 DEF Polled!TypeOK, Polled!WrittenSoFar, Polled!Lamp
  <2>4. QED
    BY <2>1, <2>2, <2>3
<1>5. CASE Polled!Awake
  BY <1>5 DEF Polled!Awake, Polled!TypeOK, Polled!WrittenSoFar, Polled!Turn, Polled!Lamp
<1>6. CASE UNCHANGED Polled!vars
  BY <1>6 DEF Polled!vars, Polled!TypeOK, Polled!WrittenSoFar, Polled!Turn
<1>7. QED
  BY <1>1, <1>2, <1>3, <1>4, <1>5, <1>6 DEF Polled!Next, Polled!Loop

LEMMA AlwaysPolled == Polled!Spec => []PolledInv
  BY InitPolled, StepPolled, PTL DEF Polled!Spec

-----------------------------------------------------------------------------
\* Every variable of Lab3_Part1.c keeps its type.
THEOREM PolledTypeCorrect == Polled!Spec => []Polled!TypeOK
  BY AlwaysPolled, PTL DEF PolledInv

\* Whatever the pins showed before the start, no lamp of an earlier light is
\* left on in Lab3_Part1.c.
THEOREM Written == Polled!Spec => []Polled!WrittenSoFar
  BY AlwaysPolled, PTL DEF PolledInv

\* The loop of Lab3_Part1.c implements the abstract light.
THEOREM PolledRefine == Polled!Spec => Polled!ImplementsBoard
<1> USE DEF Polled!Board!vars
<1>1. Polled!Init => Polled!Board!Init
  BY DEF Polled!Init, Polled!Board!Init
<1>2. PolledInv /\ [Polled!Next]_(Polled!vars) => [Polled!Board!Next]_(Polled!Board!vars)
  <2> SUFFICES ASSUME PolledInv, [Polled!Next]_(Polled!vars)
               PROVE  [Polled!Board!Next]_(Polled!Board!vars)
    OBVIOUS
  <2>1. CASE Polled!PressOrRelease
    BY <2>1 DEF Polled!PressOrRelease
  <2>2. CASE Polled!ForceBlueOff \/ Polled!Poll
    BY <2>2 DEF Polled!ForceBlueOff, Polled!Poll
  <2>3. ASSUME NEW k \in 1 .. 3, Polled!WritePin(k) PROVE Polled!Board!Next
    <3>1. at # "sleep" /\ Polled!Pins[k] \in Polled!Lamp
      BY <2>3 DEF Polled!WritePin, Polled!Pins, Polled!Lamp
    <3>2. at' = "sleep" => polledLed' = Polled!Board!Only(light)
      <4>1. SUFFICES ASSUME at' = "sleep" PROVE polledLed' = Polled!Board!Only(light)
        OBVIOUS
      <4>2. k = 3 /\ at = "pin3"
        BY <4>1, <2>3 DEF Polled!WritePin
      <4>3. QED
        BY <2>3, <4>2 DEF Polled!WritePin, Polled!Pins, Polled!Lamp, PolledInv, Polled!TypeOK,
                          Polled!WrittenSoFar, Polled!Board!Only
    <3>3. light \in Polled!Lamp
      BY DEF PolledInv, Polled!TypeOK
    <3>4. QED
      BY <2>3, <3>1, <3>2, <3>3 DEF Polled!WritePin, Polled!Board!Next, Polled!Board!Write
  <2>4. CASE Polled!Awake
    BY <2>4 DEF Polled!Awake, Polled!Board!Next, Polled!Board!Release
  <2>5. CASE UNCHANGED Polled!vars
    BY <2>5 DEF Polled!vars
  <2>6. QED
    BY <2>1, <2>2, <2>3, <2>4, <2>5 DEF Polled!Next, Polled!Loop
<1>3. QED
  BY <1>1, <1>2, AlwaysPolled, PTL DEF Polled!Spec, Polled!ImplementsBoard, Polled!Board!Spec
-----------------------------------------------------------------------------
(***************************************************************************)
(* The buttons of Lab1.                                                    *)
(***************************************************************************)
\* The LEDs are turned off one by one only after the letter of a reset; a
\* request_irq is due as long as the module sets its interrupts up.
ButtonInv ==
  /\ TypeOK
  /\ user \in {"off1", "off2", "off3", "off4"} => buffer = "r"
  /\ phase \in {"absent", "pins", "irqs"} => nextIrq \in 1 .. 5

LEMMA ButtonStep == ButtonInv /\ [Next]_vars => ButtonInv'
<1> SUFFICES ASSUME ButtonInv, [Next]_vars PROVE ButtonInv'
  OBVIOUS
<1> USE PressAssumption DEF ButtonInv, TypeOK, Colour, Ctrl, module, Registration, ResetOrder
<1>1. CASE RegisterDevice
  BY <1>1 DEF RegisterDevice
<1>2. CASE RequestPins
  BY <1>2 DEF RequestPins
<1>3. CASE RequestIrq
  <2>1. Registration[nextIrq] \in Ctrl /\ Len(Registration) = 5
    BY <1>3 DEF RequestIrq
  <2>2. /\ nextIrq' = nextIrq + 1 /\ phase' = IF nextIrq = 5 THEN "inserted" ELSE "irqs"
        /\ handlers' \subseteq Ctrl /\ requested' \subseteq Ctrl
        /\ UNCHANGED <<msg, user, buffer, lit, presses>>
    BY <1>3, <2>1 DEF RequestIrq
  <2>3. QED
    BY <1>3, <2>2 DEF RequestIrq
<1>4. CASE FreePins \/ Unregister
  BY <1>4 DEF FreePins, Unregister
<1>5. ASSUME NEW c \in Ctrl, Press(c) PROVE ButtonInv'
  BY <1>5 DEF Press
<1>6. CASE OpenDevice \/ Read
  BY <1>6 DEF OpenDevice, Read
<1>7. CASE Light
  BY <1>7 DEF Light
<1>8. ASSUME NEW k \in 1 .. 4, TurnOff(k) PROVE ButtonInv'
  <2>1. /\ user \in {"off1", "off2", "off3", "off4"}
        /\ user' \in {"off2", "off3", "off4", "read"}
        /\ lit' \subseteq lit
        /\ UNCHANGED <<module, msg, buffer, presses>>
    BY <1>8 DEF TurnOff
  <2>2. QED
    BY <2>1
<1>9. CASE UNCHANGED vars
  BY <1>9 DEF vars
<1>10. QED
  BY <1>1, <1>2, <1>3, <1>4, <1>5, <1>6, <1>7, <1>8, <1>9 DEF Next, Program

LEMMA AlwaysButtonInv == Spec => []ButtonInv
<1>1. Init => ButtonInv
  BY PressAssumption DEF Init, ButtonInv, TypeOK
<1>2. QED
  BY <1>1, ButtonStep, PTL DEF Spec

-----------------------------------------------------------------------------
(***************************************************************************)
(* The blinking module of Lab1.                                            *)
(***************************************************************************)
\* All pins are held while the LEDs are switched, those requested so far while
\* they are requested; and those freed so far are not held any more.
BlinkInv ==
  /\ Blink!TypeOK
  /\ blinkPhase \in {"absent", "inserted", "removed"} => step = 1
  /\ blinkPhase \in {"absent", "request", "direction", "on", "off"} => round < 5
  /\ blinkPhase = "request" => \A i \in 1 .. step - 1 : owner[Blink!SetupOrder[i]] = "blink"
  /\ blinkPhase \in {"direction", "on", "off"} => \A p \in Blink!Pin : owner[p] = "blink"
  /\ blinkPhase = "free" => \A i \in 1 .. step - 1 : owner[Blink!FreeOrder[i]] # "blink"
  /\ blinkPhase = "removed" => \A p \in Blink!Pin : owner[p] # "blink"

LEMMA BlinkStep == BlinkInv /\ [Blink!Next]_blinkVars => BlinkInv'
<1> SUFFICES ASSUME BlinkInv, [Blink!Next]_blinkVars PROVE BlinkInv'
  OBVIOUS
<1> USE DEF BlinkInv, Blink!TypeOK, Blink!Rounds, Blink!Advance, Blink!Pin
<1>1. ASSUME NEW valid \in BOOLEAN, Blink!Insert(valid) PROVE BlinkInv'
  BY <1>1 DEF Blink!Insert
<1>2. CASE Blink!Request
  <2> DEFINE pin == Blink!SetupOrder[step]
  <2>1. CASE owner[pin] # "nobody"
    BY <1>2, <2>1 DEF Blink!Request
  <2>2. CASE owner[pin] = "nobody" /\ step = 4
    BY <1>2, <2>2 DEF Blink!Request, Blink!SetupOrder
  <2>3. CASE owner[pin] = "nobody" /\ step # 4
    BY <1>2, <2>3 DEF Blink!Request, Blink!SetupOrder
  <2>4. QED
    BY <2>1, <2>2, <2>3
<1>3. CASE Blink!SetDirection
  BY <1>3 DEF Blink!SetDirection, Blink!SetupOrder
<1>4. CASE Blink!SwitchOn
  BY <1>4 DEF Blink!SwitchOn, Blink!BlinkOrder
<1>5. CASE Blink!SwitchOff
  <2>1. CASE step = 4
    BY <1>5, <2>1 DEF Blink!SwitchOff, Blink!BlinkOrder
  <2>2. CASE step # 4
    BY <1>5, <2>2 DEF Blink!SwitchOff, Blink!BlinkOrder
  <2>3. QED
    BY <2>1, <2>2
<1>6. CASE Blink!Remove
  BY <1>6 DEF Blink!Remove
<1>7. CASE Blink!Free
  <2>1. CASE step = 4
    BY <1>7, <2>1 DEF Blink!Free, Blink!FreeOrder
  <2>2. CASE step # 4
    BY <1>7, <2>2 DEF Blink!Free, Blink!FreeOrder
  <2>3. QED
    BY <2>1, <2>2
<1>8. CASE UNCHANGED blinkVars
  BY <1>8 DEF blinkVars
<1>9. QED
  BY <1>1, <1>2, <1>3, <1>4, <1>5, <1>6, <1>7, <1>8 DEF Blink!Next

LEMMA AlwaysBlinkInv == Blink!Spec => []BlinkInv
<1>1. Blink!Init => BlinkInv
  BY DEF Blink!Init, BlinkInv, Blink!TypeOK, Blink!Rounds
<1>2. BlinkInv /\ [Blink!Next]_(Blink!vars) => BlinkInv'
  BY BlinkStep DEF Blink!vars, blinkVars
<1>3. QED
  BY <1>1, <1>2, PTL DEF Blink!Spec
-----------------------------------------------------------------------------
(***************************************************************************)
(* The programs beside each other.                                         *)
(***************************************************************************)
\* A step of one program leaves the variables of the others alone.
LEMMA Alone == MCSpec => Spec /\ Threads!Spec /\ Polled!Spec /\ Blink!Spec
<1> USE DEF allVars, buttonVars
<1>1. MCInit => Init /\ Threads!Init /\ Polled!Init /\ Blink!Init
  BY DEF MCInit
<1>2. [MCNext]_allVars => [Next]_vars
  BY DEF MCNext
<1>3. [MCNext]_allVars => [Threads!Next]_(Threads!vars)
  BY DEF MCNext, Threads!vars, threadsVars
<1>4. [MCNext]_allVars => [Polled!Next]_(Polled!vars)
  BY DEF MCNext, Polled!vars, polledVars
<1>5. [MCNext]_allVars => [Blink!Next]_(Blink!vars)
  BY DEF MCNext, Blink!vars, blinkVars
<1>6. QED
  BY <1>1, <1>2, <1>3, <1>4, <1>5, PTL DEF MCSpec, Spec, Threads!Spec, Polled!Spec, Blink!Spec

\* Also beside the other programs of the board: a thread of Lab3_Part2.c that
\* sleeps has its lamp on and no other one.
THEOREM MyLampAlone == MCSpec => []OnlyMyLamp
  BY SleeperAlone, Alone, PTL DEF OnlyMyLamp

\* The threads of Lab3_Part2.c keep what the abstract light promises: a lamp is
\* written only by the turn that has the light.
THEOREM ThreadsKeepBoard == MCSpec => ThreadsImplementBoard
  BY ThreadsRefine, Alone, PTL DEF ThreadsImplementBoard

\* The polled loop of Lab3_Part1.c keeps what the abstract light promises.
THEOREM PolledKeepBoard == MCSpec => PolledImplementsBoard
  BY PolledRefine, Alone, PTL DEF PolledImplementsBoard

\* An LED of Lab1_cdev_user.c goes off only after the letter of a reset was
\* read, whatever is pressed while the program is busy.
THEOREM ResetTurnsOff == MCSpec => OffOnlyOnReset
<1>1. ButtonInv /\ [Next]_vars => [lit \subseteq lit' \/ buffer = "r"]_vars
  BY DEF ButtonInv, Next, Program, RegisterDevice, RequestPins, RequestIrq, FreePins,
         Unregister,
         Press, OpenDevice, Read, Light, TurnOff
<1>2. QED
  BY <1>1, Alone, AlwaysButtonInv, PTL DEF OffOnlyOnReset, Spec

\* However led_blink_init ended, Lab1Week1.c holds no pin once it is removed.
THEOREM PinsGivenBack == MCSpec => []NothingKept
<1>1. BlinkInv => NothingKept
  BY DEF BlinkInv, NothingKept, Blink!NothingKept
<1>2. QED
  BY <1>1, Alone, AlwaysBlinkInv, PTL

\* Whichever request fails, Lab1Week1.c switches no pin that it does not hold.
THEOREM OthersPinsUntouched == MCSpec => OnlyOwnPins
<1>1. BlinkInv /\ [Blink!Next]_(Blink!vars)
        => [\A p \in Blink!Pin : blinkLed'[p] # blinkLed[p] => owner[p] = "blink"]_(Blink!vars)
  BY DEF BlinkInv, Blink!Next, Blink!Insert, Blink!Request, Blink!SetDirection, Blink!SwitchOn,
         Blink!SwitchOff, Blink!Remove, Blink!Free
<1>2. QED
  BY <1>1, Alone, AlwaysBlinkInv, PTL DEF OnlyOwnPins, Blink!OnlyOwnPins, Blink!Spec

\* Every variable of the four programs keeps its type.
THEOREM TypeCorrect == MCSpec => []TypesOK
<1>1. ButtonInv => TypeOK
  BY DEF ButtonInv
<1>2. BlinkInv => Blink!TypeOK
  BY DEF BlinkInv
<1>3. QED
  BY <1>1, <1>2, Alone, ThreadsTypeCorrect, PolledTypeCorrect, AlwaysButtonInv, AlwaysBlinkInv,
  PTL
     DEF TypesOK
=============================================================================
