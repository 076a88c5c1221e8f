------------------------------ MODULE LineMerge ------------------------------
(***************************************************************************)
(* Lab2, week 2: two threads read a file each, a line per period, into a   *)
(* buffer each; a third one copies the buffers to fullString with a longer *)
(* period.  Nothing but the periods coordinates them.                      *)
(*                                                                         *)
(* A buffer is 2 * k when it holds line k, 2 * k - 1 while line k is being *)
(* written over line k - 1, and 0 before the first line.  The unit of time *)
(* is the sixth part of a millisecond.                                     *)
(***************************************************************************)
EXTENDS PeriodicTask, Sequences

CONSTANTS
  Lines,     \* lines of each file: 10
  Entries,   \* entries of fullString: 20
  MaxPhase   \* bound: no thread starts later than this

VARIABLES buffer, fullString

vars == <<timer, buffer, fullString>>

Reader == {"first", "second"}
Thread == Reader \cup {"third"}

\* Fault: the periods of readers and copier are exchanged.
TaskPeriodExchanged == [t \in Thread |-> IF t = "third" THEN 2 ELSE 3]

\* taskPeriod1_ns, taskPeriod2_ns, taskPeriod3_ns.
TaskPeriod == [t \in Thread |-> IF t = "third" THEN 3 ELSE 2]

ASSUME LinesAssumption ==
  /\ Lines \in Nat /\ Entries \in Nat /\ Entries % 2 = 0 /\ MaxPhase \in Nat
  /\ Task = Thread /\ period_ns = TaskPeriod

Init ==
  /\ PeriodicInit
  /\ buffer = [r \in Reader |-> 0]
  /\ fullString = <<>>

Stay == UNCHANGED <<now, next_period, start, runs>>

\* Fault: a line is read after the last one.
FgetsPastEnd(r) ==
  /\ pc[r] = "work"
  /\ buffer[r] % 2 = 0 /\ buffer[r] <= 2 * Lines
  /\ buffer' = [buffer EXCEPT ![r] = @ + 1]
  /\ UNCHANGED <<pc, fullString>> /\ Stay

\* fgets, during which the copier may look at the buffer.
FgetsBegin(r) ==
  /\ pc[r] = "work"
  /\ buffer[r] % 2 = 0 /\ buffer[r] < 2 * Lines
  /\ buffer' = [buffer EXCEPT ![r] = @ + 1]
  /\ UNCHANGED <<pc, fullString>> /\ Stay

FgetsEnd(r) ==
  /\ pc[r] = "work"
  /\ buffer[r] % 2 = 1
  /\ buffer' = [buffer EXCEPT ![r] = @ + 1]
  /\ Goto(r, "wait")
  /\ UNCHANGED fullString /\ Stay

\* Fault: at the end of its file the thread waits for a further line.
EofBlocks(r) ==
  /\ pc[r] = "work"
  /\ buffer[r] > 2 * Lines
  /\ Goto(r, "done")
  /\ UNCHANGED <<buffer, fullString>> /\ Stay

Eof(r) ==
  /\ pc[r] = "work"
  /\ buffer[r] = 2 * Lines
  /\ Goto(r, "done")
  /\ UNCHANGED <<buffer, fullString>> /\ Stay

\* One strcpy of the third thread; lineCount is the length of fullString.
CopyFirst ==
  /\ pc["third"] = "work"
  /\ Len(fullString) < Entries /\ Len(fullString) % 2 = 0
  /\ fullString' = Append(fullString, buffer["first"])
  /\ UNCHANGED <<pc, buffer>> /\ Stay

\* Fault: the period is initialised again in every round.
CopySecondRestart ==
  /\ pc["third"] = "work"
  /\ Len(fullString) % 2 = 1
  /\ fullString' = Append(fullString, buffer["second"])
  /\ Goto("third", "start")
  /\ UNCHANGED buffer /\ Stay

CopySecond ==
  /\ pc["third"] = "work"
  /\ Len(fullString) % 2 = 1
  /\ fullString' = Append(fullString, buffer["second"])
  /\ Goto("third", "wait")
  /\ UNCHANGED buffer /\ Stay

Full ==
  /\ pc["third"] = "work"
  /\ Len(fullString) = Entries
  /\ Goto("third", "done")
  /\ UNCHANGED <<buffer, fullString>> /\ Stay

\* Time passes while main has a thread to join.
Pass ==
  /\ Quiet
  /\ \E t \in Thread : pc[t] \notin {"done", "exited"}
  /\ now >= MaxPhase => \A t \in Thread : pc[t] # "start"
  /\ Tick
  /\ UNCHANGED <<buffer, fullString>>

\* A thread without the right to real-time priority, or without its file,
\* calls exit.
NotAllowed(t) ==
  /\ Exit(t)
  /\ UNCHANGED <<buffer, fullString>>

Timer(t) ==
  /\ periodic_task_init(t) \/ wait_rest_of_period(t)
  /\ UNCHANGED <<buffer, fullString>>

Next ==
  \/ \E r \in Reader : FgetsBegin(r) \/ FgetsEnd(r) \/ Eof(r)
  \/ CopyFirst \/ CopySecond \/ Full
  \/ \E t \in Thread : NotAllowed(t) \/ Timer(t)
  \/ Pass

Spec == Init /\ [][Next]_vars

\* Time passes and the threads run.
FairSpec == Spec /\ WF_vars(Next)
-----------------------------------------------------------------------------
(***************************************************************************)
(* Properties.                                                             *)
(***************************************************************************)
\* Every variable keeps its type.
TypeOK ==
  /\ now \in Nat
  /\ next_period \in [Thread -> Timespec]
  /\ pc \in [Thread -> {"start", "work", "wait", "carry", "asleep", "done", "exited"}]
  /\ start \in [Thread -> Nat] /\ runs \in [Thread -> Nat]
  /\ buffer \in [Reader -> 0 .. 2 * Lines]
  /\ \A i \in DOMAIN fullString : fullString[i] \in 0 .. 2 * Lines
  /\ Len(fullString) <= Entries

\* From one copy to the next a reader that has begun and has not reached the
\* end of its file gets on, and by two lines at most: no line is repeated but
\* the last one, no two successive lines are both missing, wherever the threads
\* have started and whichever comes first when two of them wake up at the same
\* time (Lab2-Week2.c:84-87, 132-135, 166-173).
Pace ==
  \A i \in 1 .. Len(fullString) - 2 :
    LET a == fullString[i]
        b == fullString[i + 2]
    IN  a > 0 => (a < b \/ a = 2 * Lines) /\ b <= a + 4

\* main's three pthread_join return, unless a thread has ended the process.
EveryThreadEnds == <>(\A t \in Thread : pc[t] = "done") \/ <>(\A t \in Thread : pc[t] = "exited")

\* The three threads do with their periods what PeriodicTask says.
ImplementsTimer == PeriodicSpec
=============================================================================
