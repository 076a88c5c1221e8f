--------------------------- MODULE GpsInterpolation ---------------------------
(***************************************************************************)
(* Lab4: Process1.c estimates where the GPS device was when a button was   *)
(* pressed.  Its threads share global variables and two semaphores:        *)
(*                                                                         *)
(*   main          reads the locations that GPS_device writes to N_pipe1   *)
(*                 and stamps each with the time (locationTimeSem);        *)
(*   Thread0       reads the times of button presses that Process2.c       *)
(*                 writes to N_pipe2 and creates a child thread for each,  *)
(*                 handing the time over in buttonTS (buttonTSSem);        *)
(*   Child_Thread  interpolates and sends the result through a pipe;       *)
(*   Thread1       prints the results.                                     *)
(*                                                                         *)
(* Locations are numbered in the order GPS_device sends them; 0 stands for *)
(* the initial value of the globals.  Time is a counter.                   *)
(***************************************************************************)
EXTENDS Integers, Sequences

CONSTANTS
  ThreadLimit,  \* threads the process can have; children are never joined
  MaxFixes,     \* bound: locations sent by GPS_device
  MaxPresses,   \* bound: presses sent by Process2
  MaxEofs       \* bound: reads that find a pipe empty and closed

ASSUME LimitsAssumption ==
  /\ ThreadLimit \in Nat /\ MaxFixes \in Nat /\ MaxPresses \in Nat
  /\ MaxEofs \in Nat

VARIABLES
  now,              \* CLOCK_MONOTONIC
  fixes, presses,   \* sent so far by GPS_device and by Process2
  pipe1, pipe2,     \* contents of N_pipe1 and N_pipe2
  closed,           \* the pipes whose writer has exited
  eofs,             \* reads so far that returned 0
  main, location, tv,
  prevLoc, nextLoc, prevTS, nextTS, timestamp,
  locationTimeSem,
  thread0, timeBuffer, buttonTS,
  buttonTSSem,
  waiters,          \* threads registered as waiting for buttonTSSem
  child,            \* where each child thread is
  buttonTS_tmp, results,
  display,          \* contents of the display pipe
  shown,            \* results printed by Thread1
  due,              \* history: the time each child thread was created for
  stamped           \* history: the locations stamped so far, with their times

inputs == <<now, fixes, presses, closed>>
fixVars == <<location, tv, prevLoc, nextLoc, prevTS, nextTS, timestamp>>
buttonVars == <<thread0, timeBuffer, buttonTS, buttonTSSem, waiters, due>>
childVars == <<child, buttonTS_tmp, results>>
vars == <<inputs, pipe1, pipe2, eofs, main, fixVars, locationTimeSem, buttonVars,
          childVars, display, shown, stamped>>

Child == 1 .. ThreadLimit
InterpResults == [press : Nat, buttonTS : Nat, prevLoc : Nat, nextLoc : Nat,
                  prevTS : Nat, nextTS : Nat]
NoResult == [press |-> 0, buttonTS |-> 0, prevLoc |-> 0, nextLoc |-> 0,
             prevTS |-> 0, nextTS |-> 0]

\* Globals without an initialiser are 0, the semaphores included.
Init ==
  /\ now = 0 /\ fixes = 0 /\ presses = 0 /\ closed = {} /\ eofs = 0
  /\ pipe1 = <<>> /\ pipe2 = <<>>
  /\ main = "create" /\ location = 0 /\ tv = 0
  /\ prevLoc = 0 /\ nextLoc = 0 /\ prevTS = 0 /\ nextTS = 0 /\ timestamp = 0
  /\ locationTimeSem = 0 /\ buttonTSSem = 0 /\ waiters = {}
  /\ thread0 = "none" /\ timeBuffer = 0 /\ buttonTS = 0
  /\ child = [c \in Child |-> "none"]
  /\ buttonTS_tmp = [c \in Child |-> 0]
  /\ results = [c \in Child |-> NoResult]
  /\ display = <<>> /\ shown = <<>>
  /\ due = <<>> /\ stamped = << <<0, 0>>, <<0, 0>> >>

-----------------------------------------------------------------------------
(***************************************************************************)
(* The processes at the other ends of the pipes.                           *)
(***************************************************************************)
GpsFix ==
  /\ fixes < MaxFixes /\ "N_pipe1" \notin closed
  /\ fixes' = fixes + 1
  /\ pipe1' = Append(pipe1, fixes + 1)
  /\ UNCHANGED <<now, presses, closed, pipe2, eofs, main, fixVars,
                 locationTimeSem, buttonVars, childVars, display, shown, stamped>>

\* Process2 polls the button and sends the time at which it is down.
Press ==
  /\ presses < MaxPresses /\ "N_pipe2" \notin closed
  /\ presses' = presses + 1
  /\ now' = now + 1
  /\ pipe2' = Append(pipe2, now + 1)
  /\ UNCHANGED <<fixes, closed, pipe1, eofs, main, fixVars,
                 locationTimeSem, buttonVars, childVars, display, shown, stamped>>

WriterExits(pipe) ==
  /\ eofs < MaxEofs
  /\ pipe \notin closed
  /\ closed' = closed \cup {pipe}
  /\ UNCHANGED <<now, fixes, presses, pipe1, pipe2, eofs, main, fixVars,
                 locationTimeSem, buttonVars, childVars, display, shown, stamped>>

\* read > -1: the next datum of the pipe, or, once the writer has exited and
\* the pipe is empty, 0 bytes, which leave the buffer as it was.
ReadsInto(pipe, contents, buffer, buffer2, contents2, eofs2) ==
  \/ /\ contents # <<>>
     /\ buffer2 = Head(contents)
     /\ contents2 = Tail(contents)
     /\ eofs2 = eofs
  \/ /\ contents = <<>> /\ pipe \in closed /\ eofs < MaxEofs
     /\ buffer2 = buffer
     /\ contents2 = contents
     /\ eofs2 = eofs + 1

-----------------------------------------------------------------------------
(***************************************************************************)
(* main.                                                                   *)
(***************************************************************************)
\* The threads run before the semaphores they use are initialised.
CreateThreads ==
  /\ main = "create"
  /\ main' = "initLocation"
  /\ thread0' = "read"
  /\ UNCHANGED <<inputs, pipe1, pipe2, eofs, fixVars, locationTimeSem, timeBuffer,
                 buttonTS, buttonTSSem, waiters, due, childVars, display, shown, stamped>>

InitLocationSem ==
  /\ main = "initLocation"
  /\ main' = "initButton"
  /\ locationTimeSem' = 1
  /\ UNCHANGED <<inputs, pipe1, pipe2, eofs, fixVars, buttonVars, childVars,
                 display, shown, stamped>>

\* sem_init wakes nobody: it forgets who waits.
InitButtonSem ==
  /\ main = "initButton"
  /\ main' = "read"
  /\ buttonTSSem' = 1
  /\ waiters' = {}
  /\ UNCHANGED <<inputs, pipe1, pipe2, eofs, fixVars, locationTimeSem, thread0,
                 timeBuffer, buttonTS, due, childVars, display, shown, stamped>>

\* The location is overwritten before the semaphore is taken.
ReadLocation ==
  /\ main = "read"
  /\ main' = "wait"
  /\ ReadsInto("N_pipe1", pipe1, location, location', pipe1', eofs')
  /\ UNCHANGED <<inputs, pipe2, tv, prevLoc, nextLoc, prevTS, nextTS, timestamp,
                 locationTimeSem, buttonVars, childVars, display, shown, stamped>>

\* sem_wait, the clock, and the assignments to prevLoc, nextLoc and prevTS.
ShiftFix ==
  /\ main = "wait"
  /\ locationTimeSem > 0
  /\ main' = "stamp"
  /\ locationTimeSem' = locationTimeSem - 1
  /\ now' \in {now, now + 1}
  /\ tv' = now'
  /\ prevLoc' = nextLoc
  /\ nextLoc' = location
  /\ prevTS' = timestamp
  /\ UNCHANGED <<fixes, presses, closed, pipe1, pipe2, eofs, location, nextTS,
                 timestamp, buttonVars, childVars, display, shown, stamped>>

\* The assignment to timestamp, and sem_post.
StampFix ==
  /\ main = "stamp"
  /\ main' = "read"
  /\ timestamp' = tv
  /\ locationTimeSem' = locationTimeSem + 1
  /\ stamped' = Append(stamped, <<tv, location>>)
  /\ UNCHANGED <<inputs, pipe1, pipe2, eofs, location, tv, prevLoc, nextLoc, prevTS,
                 nextTS, buttonVars, childVars, display, shown>>

-----------------------------------------------------------------------------
(***************************************************************************)
(* Thread0.                                                                *)
(***************************************************************************)
ReadPress ==
  /\ thread0 = "read"
  /\ thread0' = "wait"
  /\ ReadsInto("N_pipe2", pipe2, timeBuffer, timeBuffer', pipe2', eofs')
  /\ UNCHANGED <<inputs, pipe1, main, fixVars, locationTimeSem, buttonTS,
                 buttonTSSem, waiters, due, childVars, display, shown, stamped>>

\* Fault: Thread0 does not wait for the child to release the semaphore.
HoldPressAtOnce ==
  /\ thread0 = "wait"
  /\ thread0' = "create"
  /\ buttonTS' = timeBuffer
  /\ UNCHANGED <<inputs, pipe1, pipe2, eofs, main, fixVars, locationTimeSem, timeBuffer,
                 buttonTSSem, waiters, due, childVars, display, shown, stamped>>

\* sem_wait succeeds, and the time is handed over in buttonTS.
HoldPress ==
  /\ thread0 = "wait"
  /\ buttonTSSem > 0
  /\ thread0' = "create"
  /\ buttonTSSem' = buttonTSSem - 1
  /\ buttonTS' = timeBuffer
  /\ UNCHANGED <<inputs, pipe1, pipe2, eofs, main, fixVars, locationTimeSem, timeBuffer,
                 waiters, due, childVars, display, shown, stamped>>

\* sem_wait finds 0 and sleeps until a post that knows of the waiter.
Sleep ==
  /\ thread0 = "wait"
  /\ buttonTSSem = 0
  /\ thread0' = "asleep"
  /\ waiters' = waiters \cup {"Thread0"}
  /\ UNCHANGED <<inputs, pipe1, pipe2, eofs, main, fixVars, locationTimeSem, timeBuffer,
                 buttonTS, buttonTSSem, due, childVars, display, shown, stamped>>

\* pthread_create fails once the children have used up the threads; the result
\* is not looked at.
CreateChild ==
  /\ thread0 = "create"
  /\ thread0' = "read"
  /\ \/ /\ Len(due) < ThreadLimit
        /\ due' = Append(due, timeBuffer)
        /\ child' = [child EXCEPT ![Len(due) + 1] = "copy"]
     \/ /\ Len(due) = ThreadLimit
        /\ UNCHANGED <<due, child>>
  /\ UNCHANGED <<inputs, pipe1, pipe2, eofs, main, fixVars, locationTimeSem, timeBuffer,
                 buttonTS, buttonTSSem, waiters, buttonTS_tmp, results, display, shown,
                 stamped>>

-----------------------------------------------------------------------------
(***************************************************************************)
(* Child_Thread.                                                           *)
(***************************************************************************)
CopyPress(c) ==
  /\ child[c] = "copy"
  /\ child' = [child EXCEPT ![c] = "post"]
  /\ buttonTS_tmp' = [buttonTS_tmp EXCEPT ![c] = buttonTS]
  /\ UNCHANGED <<inputs, pipe1, pipe2, eofs, main, fixVars, locationTimeSem, buttonVars,
                 results, display, shown, stamped>>

\* Fault: the child forgets to release what Thread0 holds.
KeepPress(c) ==
  /\ child[c] = "post"
  /\ child' = [child EXCEPT ![c] = "wait"]
  /\ UNCHANGED <<inputs, pipe1, pipe2, eofs, main, fixVars, locationTimeSem, buttonVars,
                 buttonTS_tmp, results, display, shown, stamped>>

\* sem_post wakes a registered waiter, which tries again.
ReleasePress(c) ==
  /\ child[c] = "post"
  /\ child' = [child EXCEPT ![c] = "wait"]
  /\ buttonTSSem' = buttonTSSem + 1
  /\ waiters' = {}
  /\ thread0' = IF "Thread0" \in waiters THEN "wait" ELSE thread0
  /\ UNCHANGED <<inputs, pipe1, pipe2, eofs, main, fixVars, locationTimeSem, timeBuffer,
                 buttonTS, due, buttonTS_tmp, results, display, shown, stamped>>

\* Fault: the child reads the fixes without the semaphore.
TakeFixesAtOnce(c) ==
  /\ child[c] = "wait"
  /\ child' = [child EXCEPT ![c] = "fill"]
  /\ nextLoc' = location
  /\ nextTS' = timestamp
  /\ UNCHANGED <<inputs, pipe1, pipe2, eofs, main, location, tv, prevLoc, prevTS,
                 timestamp, locationTimeSem, buttonVars, buttonTS_tmp, results, display,
                 shown, stamped>>

\* sem_wait; the child moves the globals nextLoc and nextTS on to what main
\* has read last.
TakeFixes(c) ==
  /\ child[c] = "wait"
  /\ locationTimeSem > 0
  /\ child' = [child EXCEPT ![c] = "fill"]
  /\ locationTimeSem' = locationTimeSem - 1
  /\ nextLoc' = location
  /\ nextTS' = timestamp
  /\ UNCHANGED <<inputs, pipe1, pipe2, eofs, main, location, tv, prevLoc, prevTS,
                 timestamp, buttonVars, buttonTS_tmp, results, display, shown, stamped>>

\* The results are filled in (y0 is a function of them), and sem_post.
FillResults(c) ==
  /\ child[c] = "fill"
  /\ child' = [child EXCEPT ![c] = "send"]
  /\ results' = [results EXCEPT ![c] =
       [press |-> c, buttonTS |-> buttonTS_tmp[c], prevLoc |-> prevLoc,
        nextLoc |-> nextLoc, prevTS |-> prevTS, nextTS |-> nextTS]]
  /\ locationTimeSem' = locationTimeSem + 1
  /\ UNCHANGED <<inputs, pipe1, pipe2, eofs, main, fixVars, buttonVars, buttonTS_tmp,
                 display, shown, stamped>>

SendResults(c) ==
  /\ child[c] = "send"
  /\ child' = [child EXCEPT ![c] = "exited"]
  /\ display' = Append(display, results[c])
  /\ UNCHANGED <<inputs, pipe1, pipe2, eofs, main, fixVars, locationTimeSem, buttonVars,
                 buttonTS_tmp, results, shown, stamped>>

-----------------------------------------------------------------------------
(***************************************************************************)
(* Thread1.                                                                *)
(***************************************************************************)
ShowResults ==
  /\ main # "create"
  /\ display # <<>>
  /\ display' = Tail(display)
  /\ shown' = Append(shown, Head(display))
  /\ UNCHANGED <<inputs, pipe1, pipe2, eofs, main, fixVars, locationTimeSem, buttonVars,
                 childVars, stamped>>

-----------------------------------------------------------------------------
Main ==
  \/ CreateThreads \/ InitLocationSem \/ InitButtonSem
  \/ ReadLocation \/ ShiftFix \/ StampFix

Thread0 == ReadPress \/ HoldPress \/ Sleep \/ CreateChild

Child_Thread(c) ==
  \/ CopyPress(c) \/ ReleasePress(c)
  \/ TakeFixes(c) \/ FillResults(c) \/ SendResults(c)

Next ==
  \/ GpsFix \/ Press
  \/ \E pipe \in {"N_pipe1", "N_pipe2"} : WriterExits(pipe)
  \/ Main
  \/ Thread0
  \/ \E c \in Child : Child_Thread(c)
  \/ ShowResults

Spec == Init /\ [][Next]_vars

\* The scheduler runs every thread that can run.
FairSpec ==
  /\ Spec
  /\ WF_vars(Main) /\ WF_vars(Thread0) /\ WF_vars(ShowResults)
  /\ \A c \in Child : WF_vars(Child_Thread(c))
-----------------------------------------------------------------------------
(***************************************************************************)
(* Properties.                                                             *)
(***************************************************************************)
\* Every variable keeps its type; the semaphores are binary.
TypeOK ==
  /\ now \in Nat /\ fixes \in 0 .. MaxFixes /\ presses \in 0 .. MaxPresses
  /\ pipe1 \in Seq(Nat) /\ pipe2 \in Seq(Nat)
  /\ closed \subseteq {"N_pipe1", "N_pipe2"} /\ eofs \in 0 .. MaxEofs
  /\ main \in {"create", "initLocation", "initButton", "read", "wait", "stamp"}
  /\ {location, tv, prevLoc, nextLoc, prevTS, nextTS, timestamp} \subseteq Nat
  /\ locationTimeSem \in {0, 1} /\ buttonTSSem \in {0, 1}
  /\ thread0 \in {"none", "read", "wait", "asleep", "create"}
  /\ waiters \subseteq {"Thread0"}
  /\ timeBuffer \in Nat /\ buttonTS \in Nat
  /\ child \in [Child -> {"none", "copy", "post", "wait", "fill", "send", "exited"}]
  /\ buttonTS_tmp \in [Child -> Nat]
  /\ results \in [Child -> InterpResults]
  /\ display \in Seq(InterpResults) /\ shown \in Seq(InterpResults)
  /\ due \in Seq(Nat) /\ stamped \in Seq(Nat \X Nat)

\* Every child thread works on the press it was created for, although all
\* presses pass through the one global buttonTS: Thread0 cannot overwrite it
\* before the child has copied it (Process1.c:107-111 and 157-159).
HandoverExact ==
  \A c \in Child : child[c] \notin {"none", "copy"} => buttonTS_tmp[c] = due[c]

\* The two times of a result are those of two fixes stamped one right after
\* the other: no child sees main's assignments to prevTS and timestamp, nor
\* another child's to nextTS, half done (Process1.c:75-84 and 163-181).
StampsConsecutive ==
  \A c \in Child : child[c] \in {"send", "exited"} =>
    \E k \in 1 .. Len(stamped) - 1 :
      /\ stamped[k][1] = results[c].prevTS
      /\ stamped[k + 1][1] = results[c].nextTS

\* Thread0 sleeps in a sem_wait that no sem_post knows of: it slept on
\* buttonTSSem before main initialised it.
Stranded == thread0 = "asleep" /\ "Thread0" \notin waiters

\* As long as threads can be created, every press that Thread0 has read is
\* shown in the end; the only thing that can keep a press from being shown
\* is a Thread0 that slept on the semaphore before it was initialised.
PressShown ==
  \A c \in Child :
    presses >= c ~>
      (Stranded \/ \E k \in DOMAIN shown : shown[k].press = c)

\* Claimed by Process1.c ("based on the previous and next GPS time and
\* location information"): the locations of a result are those that were
\* stamped with its times.
LocationsMatchStamps ==
  \A k \in DOMAIN shown :
    \E i \in 1 .. Len(stamped) - 1 :
      /\ stamped[i] = <<shown[k].prevTS, shown[k].prevLoc>>
      /\ stamped[i + 1] = <<shown[k].nextTS, shown[k].nextLoc>>

=============================================================================
