------------------------------ MODULE ButtonPoll ------------------------------
(***************************************************************************)
(* Lab4: Process2.c looks at the button once per period and sends the time *)
(* to Process1 through N_pipe2 whenever it finds it down.                  *)
(***************************************************************************)
EXTENDS PeriodicTask

CONSTANTS
  Late,     \* the loop wakes up this late at most
  MaxTime   \* bound: how long the program is watched

VARIABLES
  pipe,     \* "none", "open", or "failed" when it cannot be opened
  button,   \* is the button down?
  held,     \* for how long it has been down
  reports   \* the writes to the pipe since it went down

vars == <<timer, pipe, button, held, reports>>

Poller == "poll"

Init ==
  /\ PeriodicInit
  /\ pipe = "none"
  /\ button \in BOOLEAN
  /\ held = 0 /\ reports = 0

\* open waits until Process1 has the other end open.
OpenPipe ==
  /\ pipe = "none"
  /\ pipe' \in {"open", "failed"}
  /\ UNCHANGED <<timer, button, held, reports>>

\* A new press is counted from now on.
PressOrRelease ==
  /\ button' = ~ button
  /\ held' = 0 /\ reports' = 0
  /\ UNCHANGED <<timer, pipe>>

\* Fault: only a change of the button is reported.
LookForChange ==
  /\ pc[Poller] = "work"
  /\ \/ button /\ reports = 0 /\ reports' = 1
     \/ ~ (button /\ reports = 0) /\ UNCHANGED reports
  /\ Goto(Poller, "wait")
  /\ UNCHANGED <<now, next_period, start, runs, pipe, button, held>>

Look ==
  /\ pc[Poller] = "work"
  /\ \/ button /\ reports' = reports + 1
     \/ ~ button /\ UNCHANGED reports
  /\ Goto(Poller, "wait")
  /\ UNCHANGED <<now, next_period, start, runs, pipe, button, held>>

Timer ==
  /\ pipe = "open"
  /\ periodic_task_init(Poller) \/ wait_rest_of_period(Poller)
  /\ UNCHANGED <<pipe, button, held, reports>>

\* Time passes while the loop sleeps.
Pass ==
  /\ pc[Poller] = "asleep" /\ now < Total(Poller) + Late
  /\ now < MaxTime
  /\ Tick
  /\ held' = IF button THEN held + 1 ELSE 0
  /\ UNCHANGED <<pipe, button, reports>>

Next == OpenPipe \/ PressOrRelease \/ Look \/ Timer \/ Pass

Spec == Init /\ [][Next]_vars
-----------------------------------------------------------------------------
(***************************************************************************)
(* Properties.                                                             *)
(***************************************************************************)
\* A press is reported once per period that it lasts, and at most once more than
\* the periods that fit in it and in what one wake-up is late; the delays do not
\* add up however long the button is held.  So a press that lasts a period is not missed, a shorter
\* one may be, and a long one counts as several presses for Process1
\* (Process2.c:58-67, 85-102).
ReportsPerPress ==
  Quiet /\ pc[Poller] = "asleep" /\ button =>
    /\ reports >= held \div period_ns[Poller]
    /\ reports <= (held + Late) \div period_ns[Poller] + 1
=============================================================================
