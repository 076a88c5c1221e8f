----------------------------- MODULE PeriodicTask -----------------------------
(***************************************************************************)
(* The timer functions shared by Lab2-Week2.c and Process2.c: a thread     *)
(* that does its work once per period and sleeps until an absolute time,   *)
(* which it computes in seconds and nanoseconds.  What the work is, is     *)
(* left to the modules that extend this one.                               *)
(***************************************************************************)
EXTENDS Integers

CONSTANTS
  Task,        \* the periodic threads
  period_ns,   \* the period of each
  SECOND       \* nanoseconds in a second: 1000000000

ASSUME PeriodAssumption ==
  /\ SECOND \in Nat \ {0}
  /\ period_ns \in [Task -> Nat \ {0}]

VARIABLES
  now,           \* CLOCK_MONOTONIC in nanoseconds
  next_period,   \* tv_sec and tv_nsec of each thread
  pc,            \* where each thread is
  start, runs    \* history: when it has started, how many periods it has added

timer == <<now, next_period, pc, start, runs>>

Timespec == [tv_sec : Nat, tv_nsec : Nat]

Total(t) == next_period[t].tv_sec * SECOND + next_period[t].tv_nsec

PeriodicInit ==
  /\ now = 0
  /\ next_period = [t \in Task |-> [tv_sec |-> 0, tv_nsec |-> 0]]
  /\ pc = [t \in Task |-> "start"]
  /\ start = [t \in Task |-> 0] /\ runs = [t \in Task |-> 0]

Goto(t, place) == pc' = [pc EXCEPT ![t] = place]

\* clock_gettime.
periodic_task_init(t) ==
  /\ pc[t] = "start"
  /\ next_period' = [next_period EXCEPT
       ![t] = [tv_sec |-> now \div SECOND, tv_nsec |-> now % SECOND]]
  /\ start' = [start EXCEPT ![t] = now]
  /\ Goto(t, "work")
  /\ UNCHANGED <<now, runs>>

\* The work ends with the end of the thread or with a wait for its period.
Work(t) ==
  /\ pc[t] = "work"
  /\ Goto(t, "wait") \/ Goto(t, "done")
  /\ UNCHANGED <<now, next_period, start, runs>>

increment_period(t) ==
  /\ pc[t] = "wait"
  /\ next_period' = [next_period EXCEPT ![t].tv_nsec = @ + period_ns[t]]
  /\ runs' = [runs EXCEPT ![t] = @ + 1]
  /\ Goto(t, "carry")
  /\ UNCHANGED <<now, start>>

\* Fault: what exceeds the second is lost.
CarryAll(t) ==
  /\ pc[t] = "carry"
  /\ next_period[t].tv_nsec >= SECOND
  /\ next_period' = [next_period EXCEPT
       ![t] = [tv_sec |-> @.tv_sec + 1, tv_nsec |-> 0]]
  /\ UNCHANGED <<now, pc, start, runs>>

\* One iteration of the loop in increment_period.
Carry(t) ==
  /\ pc[t] = "carry"
  /\ next_period[t].tv_nsec >= SECOND
  /\ next_period' = [next_period EXCEPT
       ![t] = [tv_sec |-> @.tv_sec + 1, tv_nsec |-> @.tv_nsec - SECOND]]
  /\ UNCHANGED <<now, pc, start, runs>>

\* Fault: a full second is not carried.
FallAsleepLate(t) ==
  /\ pc[t] = "carry"
  /\ next_period[t].tv_nsec <= SECOND
  /\ Goto(t, "asleep")
  /\ UNCHANGED <<now, next_period, start, runs>>

\* The end of that loop, and clock_nanosleep.
FallAsleep(t) ==
  /\ pc[t] = "carry"
  /\ next_period[t].tv_nsec < SECOND
  /\ Goto(t, "asleep")
  /\ UNCHANGED <<now, next_period, start, runs>>

WakeUp(t) ==
  /\ pc[t] = "asleep"
  /\ Total(t) <= now
  /\ Goto(t, "work")
  /\ UNCHANGED <<now, next_period, start, runs>>

\* exit, before a thread has initialised its period, ends all threads.
Exit(t) ==
  /\ pc[t] = "start"
  /\ pc' = [u \in Task |-> "exited"]
  /\ UNCHANGED <<now, next_period, start, runs>>

wait_rest_of_period(t) == increment_period(t) \/ Carry(t) \/ FallAsleep(t) \/ WakeUp(t)

\* The threads have real-time priority and little to do: time passes when all
\* that have started sleep until a later time.
Quiet == \A t \in Task : pc[t] \in {"start", "done", "exited"} \/ (pc[t] = "asleep" /\ Total(t) > now)

Tick ==
  /\ now' = now + 1
  /\ UNCHANGED <<next_period, pc, start, runs>>

PeriodicNext ==
  \/ Tick
  \/ \E t \in Task : periodic_task_init(t) \/ Exit(t) \/ Work(t) \/ wait_rest_of_period(t)

PeriodicSpec == PeriodicInit /\ [][PeriodicNext]_timer
-----------------------------------------------------------------------------
(***************************************************************************)
(* Properties.                                                             *)
(***************************************************************************)
\* The time a thread waits for is its start plus a whole number of periods:
\* bringing the nanoseconds below a second loses no time, and late wake-ups do
\* not add up (Lab2-Week2.c:243-252).
NoDrift ==
  \A t \in Task : pc[t] \notin {"start", "exited"} =>
    Total(t) = start[t] + runs[t] * period_ns[t]

\* clock_nanosleep refuses a tv_nsec of a second or more; it never gets one.
Normalised == \A t \in Task : pc[t] \in {"work", "asleep"} => next_period[t].tv_nsec < SECOND
=============================================================================
