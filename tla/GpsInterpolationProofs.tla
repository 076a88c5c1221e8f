------------------------ MODULE GpsInterpolationProofs ------------------------
(***************************************************************************)
(* Proofs about GpsInterpolation, for any number of threads, fixes and     *)
(* presses: who holds a semaphore is alone with what it protects, so that  *)
(* each child gets the press it was created for and the times of two       *)
(* consecutive fixes.                                                      *)
(***************************************************************************)
EXTENDS GpsInterpolation, TLAPS

USE LimitsAssumption DEF Child

\* What comes from outside, and the pipes.
InputType ==
  /\ now \in Nat /\ fixes \in 0 .. MaxFixes /\ presses \in 0 .. MaxPresses
  /\ pipe1 \in Seq(Nat) /\ pipe2 \in Seq(Nat)
  /\ closed \subseteq {"N_pipe1", "N_pipe2"} /\ eofs \in 0 .. MaxEofs

FixType ==
  /\ main \in {"create", "initLocation", "initButton", "read", "wait", "stamp"}
  /\ location \in Nat /\ tv \in Nat /\ prevLoc \in Nat /\ nextLoc \in Nat
  /\ prevTS \in Nat /\ nextTS \in Nat /\ timestamp \in Nat
  /\ stamped \in Seq(Nat \X Nat)

ButtonType ==
  /\ thread0 \in {"none", "read", "wait", "asleep", "create"}
  /\ waiters \subseteq {"Thread0"}
  /\ timeBuffer \in Nat /\ buttonTS \in Nat
  /\ due \in Seq(Nat)

ChildType ==
  /\ child \in [Child -> {"none", "copy", "post", "wait", "fill", "send", "exited"}]
  /\ buttonTS_tmp \in [Child -> Nat]

ResultType ==
  /\ results \in [Child -> InterpResults]
  /\ display \in Seq(InterpResults) /\ shown \in Seq(InterpResults)

\* Children are created in order, and none before the semaphores are set up.
CreatedInv ==
  /\ Len(due) <= ThreadLimit
  /\ \A c \in Child : child[c] = "none" <=> c > Len(due)
  /\ main = "create" <=> thread0 = "none"
  /\ main \in {"create", "initLocation", "initButton"} =>
       buttonTSSem = 0 /\ thread0 # "create" /\ due = <<>>

\* At most one thread holds buttonTSSem: Thread0, or the child it has created.
ButtonSemInv ==
  /\ buttonTSSem \in {0, 1}
  /\ thread0 = "create" => buttonTSSem = 0 /\ \A c \in Child : child[c] \notin {"copy", "post"}
  /\ \A c \in Child : child[c] \in {"copy", "post"} =>
       buttonTSSem = 0 /\ \A d \in Child \ {c} : child[d] \notin {"copy", "post"}

\* At most one thread holds locationTimeSem: main, or a child.
LocationSemInv ==
  /\ locationTimeSem \in {0, 1}
  /\ main \in {"create", "initLocation"} => locationTimeSem = 0
  /\ main = "stamp" => locationTimeSem = 0 /\ \A c \in Child : child[c] # "fill"
  /\ \A c \in Child : child[c] = "fill" =>
       locationTimeSem = 0 /\ \A d \in Child \ {c} : child[d] # "fill"

SemInv == CreatedInv /\ ButtonSemInv /\ LocationSemInv

Inputs == GpsFix \/ Press \/ \E pipe \in {"N_pipe1", "N_pipe2"} : WriterExits(pipe)
ThreadVars == <<main, locationTimeSem, buttonTSSem, thread0, due, child>>

LEMMA SemInit == Init => SemInv /\ ButtonType /\ ChildType
  BY DEF Init, SemInv, CreatedInv, ButtonSemInv, LocationSemInv, ButtonType, ChildType

LEMMA SemStep ==
  SemInv /\ FixType /\ ButtonType /\ ChildType /\ [Next]_vars => SemInv'
<1> SUFFICES ASSUME SemInv, FixType, ButtonType, ChildType, [Next]_vars PROVE SemInv'
  OBVIOUS
<1> USE DEF SemInv
<1>1. ASSUME UNCHANGED ThreadVars PROVE SemInv'
  BY <1>1 DEF ThreadVars, CreatedInv, ButtonSemInv, LocationSemInv
<1>2. CASE Inputs
  BY <1>1, <1>2 DEF Inputs, GpsFix, Press, WriterExits, fixVars, buttonVars, childVars, ThreadVars
<1>3. CASE CreateThreads
  BY <1>3 DEF CreateThreads, childVars, fixVars, CreatedInv, ButtonSemInv, LocationSemInv, ButtonType
<1>4. CASE InitLocationSem
  BY <1>4 DEF InitLocationSem, childVars, buttonVars, CreatedInv, ButtonSemInv, LocationSemInv, ChildType
<1>5. CASE InitButtonSem
  BY <1>5 DEF InitButtonSem, childVars, CreatedInv, ButtonSemInv, LocationSemInv, ChildType
<1>6. CASE ReadLocation
  BY <1>6 DEF ReadLocation, childVars, buttonVars, CreatedInv, ButtonSemInv, LocationSemInv
<1>7. CASE ShiftFix
  BY <1>7 DEF ShiftFix, childVars, buttonVars, CreatedInv, ButtonSemInv, LocationSemInv
<1>8. CASE StampFix
  BY <1>8 DEF StampFix, childVars, buttonVars, CreatedInv, ButtonSemInv, LocationSemInv
<1>9. CASE ReadPress
  BY <1>9 DEF ReadPress, childVars, CreatedInv, ButtonSemInv, LocationSemInv
<1>10. CASE HoldPress
  BY <1>10 DEF HoldPress, childVars, CreatedInv, ButtonSemInv, LocationSemInv
<1>11. CASE Sleep
  BY <1>11 DEF Sleep, childVars, CreatedInv, ButtonSemInv, LocationSemInv
<1>12. CASE CreateChild
  <2>1. CASE Len(due) < ThreadLimit
    <3>1. /\ thread0 = "create" /\ thread0' = "read"
          /\ due' = Append(due, timeBuffer)
          /\ child' = [child EXCEPT ![Len(due) + 1] = "copy"]
          /\ UNCHANGED <<main, locationTimeSem, buttonTSSem>>
      BY <1>12, <2>1 DEF CreateChild
    <3>2. Len(due) \in Nat /\ Len(due') = Len(due) + 1 /\ Len(due) + 1 \in Child /\ due' # <<>>
      BY <2>1, <3>1 DEF ButtonType
    <3>3. CreatedInv'
      BY <2>1, <3>1, <3>2 DEF CreatedInv, ChildType
    <3>4. ButtonSemInv'
      BY <3>1, <3>2 DEF ButtonSemInv, ChildType
    <3>5. LocationSemInv'
      BY <3>1, <3>2 DEF LocationSemInv, ChildType
    <3>6. QED
      BY <3>3, <3>4, <3>5
  <2>2. CASE Len(due) = ThreadLimit
    BY <1>12, <2>2 DEF CreateChild, CreatedInv, ButtonSemInv, LocationSemInv
  <2>3. QED
    BY <1>12, <2>1, <2>2 DEF CreateChild
<1>13. ASSUME NEW c \in Child, Child_Thread(c) PROVE SemInv'
  <2>1. c <= Len(due)
    BY <1>13 DEF Child_Thread, CopyPress, ReleasePress, TakeFixes, FillResults, SendResults,
                 CreatedInv, ChildType, ButtonType
  <2>2. main \notin {"create", "initLocation", "initButton"}
    BY <2>1 DEF CreatedInv
  <2>3. CASE CopyPress(c)
    BY <2>1, <2>3 DEF CopyPress, buttonVars, CreatedInv, ButtonSemInv, LocationSemInv, ChildType
  <2>4. CASE ReleasePress(c)
    BY <2>1, <2>2, <2>4 DEF ReleasePress, CreatedInv, ButtonSemInv, LocationSemInv, ChildType, ButtonType
  <2>5. CASE TakeFixes(c)
    BY <2>1, <2>2, <2>5 DEF TakeFixes, buttonVars, CreatedInv, ButtonSemInv, LocationSemInv, ChildType
  <2>6. CASE FillResults(c)
    BY <2>1, <2>2, <2>6 DEF FillResults, buttonVars, CreatedInv, ButtonSemInv, LocationSemInv, ChildType
  <2>7. CASE SendResults(c)
    BY <2>1, <2>7 DEF SendResults, buttonVars, CreatedInv, ButtonSemInv, LocationSemInv, ChildType
  <2>8. QED
    BY <1>13, <2>3, <2>4, <2>5, <2>6, <2>7 DEF Child_Thread
<1>14. CASE ShowResults
  BY <1>1, <1>14 DEF ShowResults, buttonVars, childVars, ThreadVars
<1>15. CASE UNCHANGED vars
  BY <1>1, <1>15 DEF vars, buttonVars, childVars, ThreadVars
<1>16. QED
  BY <1>2, <1>3, <1>4, <1>5, <1>6, <1>7, <1>8, <1>9, <1>10, <1>11, <1>12, <1>13, <1>14, <1>15
  DEF Next, Inputs, Main, Thread0
-----------------------------------------------------------------------------
(***************************************************************************)
(* Types.                                                                  *)
(***************************************************************************)
\* What a read leaves in its buffer and in the pipe.
LEMMA ReadsType ==
  ASSUME NEW pipe, NEW contents \in Seq(Nat), NEW buffer \in Nat, NEW buffer2, NEW contents2, NEW eofs2,
         eofs \in 0 .. MaxEofs, ReadsInto(pipe, contents, buffer, buffer2, contents2, eofs2)
  PROVE  buffer2 \in Nat /\ contents2 \in Seq(Nat) /\ eofs2 \in 0 .. MaxEofs
<1>1. CASE contents # <<>> /\ buffer2 = Head(contents) /\ contents2 = Tail(contents) /\ eofs2 = eofs
  BY <1>1
<1>2. CASE contents = <<>> /\ eofs < MaxEofs /\ buffer2 = buffer /\ contents2 = contents
           /\ eofs2 = eofs + 1
  BY <1>2
<1>3. QED
  BY <1>1, <1>2 DEF ReadsInto

LEMMA InputStep == InputType /\ FixType /\ ButtonType /\ [Next]_vars => InputType'
<1> SUFFICES ASSUME InputType, FixType, ButtonType, [Next]_vars PROVE InputType'
  OBVIOUS
<1> USE DEF InputType, inputs
<1>1. CASE GpsFix
  BY <1>1 DEF GpsFix
<1>2. CASE Press
  BY <1>2 DEF Press
<1>3. ASSUME NEW pipe \in {"N_pipe1", "N_pipe2"}, WriterExits(pipe) PROVE InputType'
  BY <1>3 DEF WriterExits
<1>4. CASE CreateThreads \/ InitLocationSem \/ InitButtonSem \/ StampFix
  BY <1>4 DEF CreateThreads, InitLocationSem, InitButtonSem, StampFix
<1>5. CASE ReadLocation
  BY <1>5, ReadsType DEF ReadLocation, FixType
<1>6. CASE ShiftFix
  BY <1>6 DEF ShiftFix
<1>7. CASE ReadPress
  BY <1>7, ReadsType DEF ReadPress, ButtonType
<1>8. CASE HoldPress \/ Sleep \/ CreateChild
  BY <1>8 DEF HoldPress, Sleep, CreateChild
<1>9. ASSUME NEW c \in Child, Child_Thread(c) PROVE InputType'
  BY <1>9 DEF Child_Thread, CopyPress, ReleasePress, TakeFixes, FillResults, SendResults
<1>10. CASE ShowResults \/ UNCHANGED vars
  BY <1>10 DEF ShowResults, vars
<1>11. QED
  BY <1>1, <1>2, <1>3, <1>4, <1>5, <1>6, <1>7, <1>8, <1>9, <1>10 DEF Next, Main, Thread0

LEMMA FixStep == InputType /\ FixType /\ [Next]_vars => FixType'
<1> SUFFICES ASSUME InputType, FixType, [Next]_vars PROVE FixType'
  OBVIOUS
<1> USE DEF FixType, fixVars
<1>1. CASE Inputs
  BY <1>1 DEF Inputs, GpsFix, Press, WriterExits
<1>2. CASE CreateThreads \/ InitLocationSem \/ InitButtonSem
  BY <1>2 DEF CreateThreads, InitLocationSem, InitButtonSem
<1>3. CASE ReadLocation
  BY <1>3, ReadsType DEF ReadLocation, InputType
<1>4. CASE ShiftFix
  BY <1>4 DEF ShiftFix, InputType
<1>5. CASE StampFix
  BY <1>5 DEF StampFix
<1>6. CASE Thread0
  BY <1>6 DEF Thread0, ReadPress, HoldPress, Sleep, CreateChild
<1>7. ASSUME NEW c \in Child, Child_Thread(c) PROVE FixType'
  BY <1>7 DEF Child_Thread, CopyPress, ReleasePress, TakeFixes, FillResults, SendResults
<1>8. CASE ShowResults \/ UNCHANGED vars
  BY <1>8 DEF ShowResults, vars
<1>9. QED
  BY <1>1, <1>2, <1>3, <1>4, <1>5, <1>6, <1>7, <1>8 DEF Next, Main, Inputs

LEMMA ButtonStep == InputType /\ ButtonType /\ [Next]_vars => ButtonType'
<1> SUFFICES ASSUME InputType, ButtonType, [Next]_vars PROVE ButtonType'
  OBVIOUS
<1> USE DEF ButtonType, buttonVars
<1>1. CASE Inputs
  BY <1>1 DEF Inputs, GpsFix, Press, WriterExits
<1>2. CASE Main
  BY <1>2 DEF Main, CreateThreads, InitLocationSem, InitButtonSem, ReadLocation, ShiftFix, StampFix
<1>3. CASE ReadPress
  BY <1>3, ReadsType DEF ReadPress, InputType
<1>4. CASE HoldPress \/ Sleep
  BY <1>4 DEF HoldPress, Sleep
<1>5. CASE CreateChild
  <2>1. Append(due, timeBuffer) \in Seq(Nat)
    OBVIOUS
  <2>2. due' \in Seq(Nat) /\ thread0' = "read" /\ UNCHANGED <<waiters, timeBuffer, buttonTS>>
    BY <1>5, <2>1 DEF CreateChild
  <2>3. QED
    BY <2>2
<1>6. ASSUME NEW c \in Child, Child_Thread(c) PROVE ButtonType'
  BY <1>6 DEF Child_Thread, CopyPress, ReleasePress, TakeFixes, FillResults, SendResults
<1>7. CASE ShowResults \/ UNCHANGED vars
  BY <1>7 DEF ShowResults, vars
<1>8. QED
  BY <1>1, <1>2, <1>3, <1>4, <1>5, <1>6, <1>7 DEF Next, Thread0, Inputs

LEMMA ChildStep == ButtonType /\ ChildType /\ [Next]_vars => ChildType'
<1> SUFFICES ASSUME ButtonType, ChildType, [Next]_vars PROVE ChildType'
  OBVIOUS
<1> USE DEF ChildType, childVars
<1>1. CASE Inputs
  BY <1>1 DEF Inputs, GpsFix, Press, WriterExits
<1>2. CASE Main
  BY <1>2 DEF Main, CreateThreads, InitLocationSem, InitButtonSem, ReadLocation, ShiftFix, StampFix
<1>3. CASE ReadPress \/ HoldPress \/ Sleep
  BY <1>3 DEF ReadPress, HoldPress, Sleep
<1>4. CASE CreateChild
  BY <1>4 DEF CreateChild
<1>5. ASSUME NEW c \in Child, CopyPress(c) PROVE ChildType'
  BY <1>5 DEF CopyPress, ButtonType
<1>6. ASSUME NEW c \in Child, ReleasePress(c) \/ TakeFixes(c) \/ FillResults(c) \/ SendResults(c)
      PROVE  ChildType'
  BY <1>6 DEF ReleasePress, TakeFixes, FillResults, SendResults
<1>7. CASE ShowResults \/ UNCHANGED vars
  BY <1>7 DEF ShowResults, vars
<1>8. QED
  BY <1>1, <1>2, <1>3, <1>4, <1>5, <1>6, <1>7 DEF Next, Thread0, Inputs, Child_Thread

LEMMA ResultStep == FixType /\ ChildType /\ ResultType /\ [Next]_vars => ResultType'
<1> SUFFICES ASSUME FixType, ChildType, ResultType, [Next]_vars PROVE ResultType'
  OBVIOUS
<1> USE DEF ResultType, childVars
<1>1. CASE Inputs
  BY <1>1 DEF Inputs, GpsFix, Press, WriterExits
<1>2. CASE Main
  BY <1>2 DEF Main, CreateThreads, InitLocationSem, InitButtonSem, ReadLocation, ShiftFix, StampFix
<1>3. CASE Thread0
  BY <1>3 DEF Thread0, ReadPress, HoldPress, Sleep, CreateChild
<1>4. ASSUME NEW c \in Child, CopyPress(c) \/ ReleasePress(c) \/ TakeFixes(c) PROVE ResultType'
  BY <1>4 DEF CopyPress, ReleasePress, TakeFixes
<1>5. ASSUME NEW c \in Child, FillResults(c) PROVE ResultType'
  <2>1. [press |-> c, buttonTS |-> buttonTS_tmp[c], prevLoc |-> prevLoc, nextLoc |-> nextLoc,
         prevTS |-> prevTS, nextTS |-> nextTS] \in InterpResults
    BY DEF InterpResults, FixType, ChildType
  <2>2. results' \in [Child -> InterpResults]
    BY <1>5, <2>1 DEF FillResults
  <2>3. QED
    BY <1>5, <2>2 DEF FillResults
<1>6. ASSUME NEW c \in Child, SendResults(c) PROVE ResultType'
  BY <1>6 DEF SendResults
<1>7. CASE ShowResults
  BY <1>7 DEF ShowResults
<1>8. CASE UNCHANGED vars
  BY <1>8 DEF vars
<1>9. QED
  BY <1>1, <1>2, <1>3, <1>4, <1>5, <1>6, <1>7, <1>8 DEF Next, Inputs, Child_Thread

TypeInv == InputType /\ FixType /\ ButtonType /\ ChildType /\ ResultType

LEMMA TypeInit == Init => TypeInv
<1>1. NoResult \in InterpResults
  BY DEF NoResult, InterpResults
<1>2. <<>> \in Seq(Nat) /\ <<>> \in Seq(InterpResults) /\ << <<0, 0>>, <<0, 0>> >> \in Seq(Nat \X Nat)
  OBVIOUS
<1>3. Init => InputType /\ FixType /\ ButtonType
  BY <1>2 DEF Init, InputType, FixType, ButtonType
<1>4. Init => ChildType /\ ResultType
  BY <1>1, <1>2 DEF Init, ChildType, ResultType
<1>5. QED
  BY <1>3, <1>4 DEF TypeInv

LEMMA TypeAlways == Spec => [](TypeInv /\ SemInv)
<1>1. TypeInv /\ SemInv /\ [Next]_vars => (TypeInv /\ SemInv)'
  BY InputStep, FixStep, ButtonStep, ChildStep, ResultStep, SemStep DEF TypeInv
<1>2. QED
  BY <1>1, TypeInit, SemInit, PTL DEF Spec

\* Every variable keeps its type, and the two semaphores are 0 or 1.
THEOREM TypeCorrect == Spec => []TypeOK
<1>1. TypeInv /\ SemInv => TypeOK
  BY DEF TypeInv, SemInv, TypeOK, InputType, FixType, ButtonType, ChildType, ResultType,
         ButtonSemInv, LocationSemInv
<1>2. QED
  BY <1>1, TypeAlways, PTL
-----------------------------------------------------------------------------
(***************************************************************************)
(* The handover of a press.                                                *)
(***************************************************************************)
\* buttonTS has the press of the thread that holds buttonTSSem.
PressInv ==
  /\ thread0 = "create" => buttonTS = timeBuffer
  /\ \A c \in Child : child[c] = "copy" => buttonTS = due[c]
  /\ HandoverExact

Handing == <<thread0, timeBuffer, buttonTS, due, child, buttonTS_tmp>>

LEMMA PressInit == Init => PressInv
  BY DEF Init, PressInv, HandoverExact

LEMMA PressStep == TypeInv /\ SemInv /\ PressInv /\ [Next]_vars => PressInv'
<1> SUFFICES ASSUME TypeInv, SemInv, PressInv, [Next]_vars PROVE PressInv'
  OBVIOUS
<1> USE DEF PressInv, HandoverExact
<1>1. ASSUME UNCHANGED Handing PROVE PressInv'
  BY <1>1 DEF Handing
<1>2. CASE Inputs
  BY <1>1, <1>2 DEF Inputs, GpsFix, Press, WriterExits, buttonVars, childVars, Handing
<1>3. CASE CreateThreads
  BY <1>3 DEF CreateThreads, childVars
<1>4. CASE InitLocationSem \/ InitButtonSem
  BY <1>1, <1>4 DEF InitLocationSem, InitButtonSem, buttonVars, childVars, Handing
<1>5. CASE ReadLocation \/ ShiftFix \/ StampFix
  BY <1>1, <1>5 DEF ReadLocation, ShiftFix, StampFix, buttonVars, childVars, Handing
<1>6. CASE ReadPress
  BY <1>6 DEF ReadPress, childVars
<1>7. CASE HoldPress
  BY <1>7 DEF HoldPress, childVars, SemInv, ButtonSemInv
<1>8. CASE Sleep
  BY <1>8 DEF Sleep, childVars
<1>9. CASE CreateChild
  <2>1. CASE Len(due) < ThreadLimit
    <3>1. /\ thread0 = "create" /\ thread0' = "read"
          /\ due' = Append(due, timeBuffer)
          /\ child' = [child EXCEPT ![Len(due) + 1] = "copy"]
          /\ UNCHANGED <<timeBuffer, buttonTS, buttonTS_tmp>>
      BY <1>9, <2>1 DEF CreateChild
    <3>2. Len(due) \in Nat /\ due \in Seq(Nat) /\ due'[Len(due) + 1] = timeBuffer
      BY <3>1 DEF TypeInv, ButtonType
    <3>3. \A c \in Child : c # Len(due) + 1 => child'[c] = child[c]
      BY <3>1 DEF TypeInv, ChildType
    <3>4. \A c \in Child : c <= Len(due) => due'[c] = due[c]
      BY <3>1, <3>2
    <3>5. \A c \in Child : c > Len(due) + 1 => child'[c] = "none"
      BY <3>2, <3>3 DEF SemInv, CreatedInv
    <3>6. child'[Len(due) + 1] = "copy"
      BY <2>1, <3>1, <3>2 DEF TypeInv, ChildType
    <3>7. buttonTS = timeBuffer /\ \A c \in Child : child[c] # "copy"
      BY <3>1 DEF SemInv, ButtonSemInv
    <3>8. QED
      BY <3>1, <3>2, <3>3, <3>4, <3>5, <3>6, <3>7
  <2>2. CASE Len(due) = ThreadLimit
    BY <1>9, <2>2 DEF CreateChild
  <2>3. QED
    BY <1>9, <2>1, <2>2 DEF CreateChild
<1>10. ASSUME NEW c \in Child, CopyPress(c) PROVE PressInv'
  BY <1>10 DEF CopyPress, buttonVars, TypeInv, ChildType
<1>11. ASSUME NEW c \in Child, ReleasePress(c) PROVE PressInv'
  BY <1>11 DEF ReleasePress, TypeInv, ChildType, SemInv, ButtonSemInv
<1>12. ASSUME NEW c \in Child, TakeFixes(c) \/ FillResults(c) \/ SendResults(c) PROVE PressInv'
  BY <1>12 DEF TakeFixes, FillResults, SendResults, buttonVars, TypeInv, ChildType
<1>13. CASE ShowResults \/ UNCHANGED vars
  BY <1>1, <1>13 DEF ShowResults, vars, buttonVars, childVars, Handing
<1>14. QED
  BY <1>2, <1>3, <1>4, <1>5, <1>6, <1>7, <1>8, <1>9, <1>10, <1>11, <1>12, <1>13
  DEF Next, Inputs, Main, Thread0, Child_Thread

\* Every child works on the press that it was created for, however many
\* presses arrive while it starts.
THEOREM HandedOver == Spec => []HandoverExact
<1>1. PressInv => HandoverExact
  BY DEF PressInv
<1>2. QED
  BY <1>1, PressInit, PressStep, TypeAlways, PTL DEF Spec
-----------------------------------------------------------------------------
(***************************************************************************)
(* The times of a result.                                                  *)
(***************************************************************************)
\* a and b are the times of two fixes that were stamped one after the other.
Consecutive(a, b) ==
  \E k \in 1 .. Len(stamped) - 1 : stamped[k][1] = a /\ stamped[k + 1][1] = b

\* timestamp and prevTS are the times of the last two fixes, but for prevTS
\* while main holds the semaphore; a child that holds it has taken the last.
StampInv ==
  /\ Len(stamped) >= 2
  /\ timestamp = stamped[Len(stamped)][1]
  /\ main # "stamp" => prevTS = stamped[Len(stamped) - 1][1]
  /\ main = "stamp" => prevTS = timestamp
  /\ \A c \in Child : child[c] = "fill" => nextTS = timestamp
  /\ \A c \in Child : child[c] \in {"send", "exited"} => Consecutive(results[c].prevTS, results[c].nextTS)

Stamping == <<stamped, timestamp, prevTS, nextTS, main, child, results>>

LEMMA StampInit == Init => StampInv
  BY DEF Init, StampInv

LEMMA StampStep == TypeInv /\ SemInv /\ StampInv /\ [Next]_vars => StampInv'
<1> SUFFICES ASSUME TypeInv, SemInv, StampInv, [Next]_vars PROVE StampInv'
  OBVIOUS
<1>1. ASSUME UNCHANGED <<stamped, timestamp, prevTS, nextTS, child, results>>,
             main = "stamp" <=> main' = "stamp"
      PROVE  StampInv'
  BY <1>1 DEF StampInv, Consecutive
<1>2. CASE Inputs
  BY <1>1, <1>2 DEF Inputs, GpsFix, Press, WriterExits, fixVars, childVars
<1>3. CASE CreateThreads \/ InitLocationSem \/ InitButtonSem \/ ReadLocation
  BY <1>1, <1>3 DEF CreateThreads, InitLocationSem, InitButtonSem, ReadLocation, fixVars, childVars
<1>4. CASE ShiftFix
  <2>1. /\ main = "wait" /\ main' = "stamp" /\ locationTimeSem > 0 /\ prevTS' = timestamp
        /\ UNCHANGED <<stamped, timestamp, nextTS, child, results>>
    BY <1>4 DEF ShiftFix, childVars
  <2>2. QED
    BY <2>1 DEF StampInv, Consecutive
<1>5. CASE StampFix
  <2>1. /\ main = "stamp" /\ main' = "read" /\ timestamp' = tv
        /\ stamped' = Append(stamped, <<tv, location>>)
        /\ UNCHANGED <<prevTS, nextTS, child, results>>
    BY <1>5 DEF StampFix, childVars
  <2>2. stamped \in Seq(Nat \X Nat)
    BY DEF TypeInv, FixType
  <2>3. /\ Len(stamped') = Len(stamped) + 1
        /\ \A k \in 1 .. Len(stamped) : stamped'[k] = stamped[k]
        /\ stamped'[Len(stamped) + 1] = <<tv, location>>
    BY <2>1, <2>2
  <2>4. \A c \in Child : child[c] # "fill"
    BY <2>1 DEF SemInv, LocationSemInv
  <2>5. prevTS' = stamped'[Len(stamped') - 1][1]
    BY <2>1, <2>2, <2>3 DEF StampInv
  <2>6. timestamp' = stamped'[Len(stamped')][1] /\ Len(stamped') >= 2
    BY <2>1, <2>2, <2>3 DEF StampInv
  <2>7. \A c \in Child : child'[c] \in {"send", "exited"} =>
          Consecutive(results[c].prevTS, results[c].nextTS)'
    <3>1. TAKE c \in Child
    <3>2. HAVE child'[c] \in {"send", "exited"}
    <3>3. Consecutive(results[c].prevTS, results[c].nextTS)
      BY <2>1, <3>2 DEF StampInv
    <3>4. QED
      BY <2>1, <2>2, <2>3, <3>3 DEF Consecutive
  <2>8. QED
    BY <2>1, <2>4, <2>5, <2>6, <2>7 DEF StampInv
<1>6. CASE ReadPress \/ HoldPress \/ Sleep
  BY <1>1, <1>6 DEF ReadPress, HoldPress, Sleep, fixVars, childVars
<1>7. ASSUME NEW c, NEW place, place \notin {"fill", "send", "exited"},
             child' = [child EXCEPT ![c] = place], UNCHANGED <<stamped, timestamp, prevTS, nextTS, main, results>>
      PROVE  StampInv'
  BY <1>7 DEF StampInv, Consecutive, TypeInv, ChildType
<1>8. CASE CreateChild
  <2>1. CASE child' = child
    BY <1>1, <1>8, <2>1 DEF CreateChild, fixVars
  <2>2. CASE child' = [child EXCEPT ![Len(due) + 1] = "copy"]
    BY <1>7, <1>8, <2>2 DEF CreateChild, fixVars
  <2>3. QED
    BY <1>8, <2>1, <2>2 DEF CreateChild
<1>9. ASSUME NEW c \in Child, CopyPress(c) \/ ReleasePress(c) PROVE StampInv'
  BY <1>7, <1>9 DEF CopyPress, ReleasePress, fixVars
<1>10. ASSUME NEW c \in Child, TakeFixes(c) PROVE StampInv'
  BY <1>10 DEF TakeFixes, StampInv, Consecutive, TypeInv, ChildType
<1>11. ASSUME NEW c \in Child, FillResults(c) PROVE StampInv'
  <2>1. /\ child[c] = "fill" /\ child' = [child EXCEPT ![c] = "send"]
        /\ results'[c].prevTS = prevTS /\ results'[c].nextTS = nextTS
        /\ \A d \in Child \ {c} : results'[d] = results[d]
        /\ UNCHANGED <<stamped, timestamp, prevTS, nextTS, main>>
    BY <1>11 DEF FillResults, fixVars, TypeInv, ResultType
  <2>2. main # "stamp"
    BY <2>1 DEF SemInv, LocationSemInv
  <2>3. stamped[Len(stamped) - 1][1] = prevTS /\ stamped[Len(stamped)][1] = nextTS
    BY <2>1, <2>2 DEF StampInv
  <2>4. Len(stamped) \in Nat /\ Len(stamped) >= 2
    BY DEF StampInv, TypeInv, FixType
  <2>5. Consecutive(prevTS, nextTS)
    BY <2>3, <2>4 DEF Consecutive
  <2>6. \A d \in Child : child'[d] \in {"send", "exited"} =>
          Consecutive(results[d].prevTS, results[d].nextTS)'
    <3>1. TAKE d \in Child
    <3>2. HAVE child'[d] \in {"send", "exited"}
    <3>3. CASE d = c
      BY <2>1, <2>5, <3>3 DEF Consecutive
    <3>4. CASE d # c
      BY <2>1, <3>2, <3>4 DEF StampInv, Consecutive, TypeInv, ChildType
    <3>5. QED
      BY <3>3, <3>4
  <2>7. \A d \in Child : child'[d] # "fill"
    BY <2>1 DEF SemInv, LocationSemInv, TypeInv, ChildType
  <2>8. QED
    BY <2>1, <2>6, <2>7 DEF StampInv
<1>12. ASSUME NEW c \in Child, SendResults(c) PROVE StampInv'
  BY <1>12 DEF SendResults, fixVars, StampInv, Consecutive, TypeInv, ChildType
<1>13. CASE ShowResults \/ UNCHANGED vars
  BY <1>1, <1>13 DEF ShowResults, vars, fixVars, childVars
<1>14. QED
  BY <1>2, <1>3, <1>4, <1>5, <1>6, <1>8, <1>9, <1>10, <1>11, <1>12, <1>13
  DEF Next, Inputs, Main, Thread0, Child_Thread

\* The times of every result are those of two fixes stamped one right after
\* the other.
THEOREM ConsecutiveFixes == Spec => []StampsConsecutive
<1>1. StampInv => StampsConsecutive
  BY DEF StampInv, Consecutive, StampsConsecutive
<1>2. QED
  BY <1>1, StampInit, StampStep, TypeAlways, PTL DEF Spec
=============================================================================
