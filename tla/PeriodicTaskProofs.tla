--------------------------- MODULE PeriodicTaskProofs ---------------------------
(***************************************************************************)
(* Proofs about PeriodicTask: the absolute times for which the threads     *)
(* wait are exact and well-formed, whatever the periods, the work and the  *)
(* delays are.                                                             *)
(***************************************************************************)
EXTENDS PeriodicTask, TLAPS

TimerType ==
  /\ now \in Nat
  /\ next_period \in [Task -> Timespec]
  /\ pc \in [Task -> {"start", "work", "wait", "carry", "asleep", "done", "exited"}]
  /\ start \in [Task -> Nat] /\ runs \in [Task -> Nat]

\* Nothing is added to the time that has been read; outside the loop that
\* carries the nanoseconds stay below a second.
TimerInv ==
  /\ TimerType
  /\ NoDrift
  /\ \A t \in Task : pc[t] \notin {"carry", "exited"} => next_period[t].tv_nsec < SECOND
  /\ \A t \in Task : pc[t] = "start" => runs[t] = 0

\* Seconds and nanoseconds read from the clock are the time that was read.
LEMMA Split == ASSUME NEW n \in Nat
               PROVE  /\ n \div SECOND \in Nat
                      /\ n % SECOND \in Nat /\ n % SECOND < SECOND
                      /\ (n \div SECOND) * SECOND + (n % SECOND) = n
  BY PeriodAssumption

\* What a step that changes only one thread has to keep.
OneThread(t) ==
  /\ next_period[t] \in Timespec /\ start[t] \in Nat /\ runs[t] \in Nat
  /\ pc[t] \in {"start", "work", "wait", "carry", "asleep", "done", "exited"}
  /\ pc[t] \notin {"start", "exited"} => Total(t) = start[t] + runs[t] * period_ns[t]
  /\ pc[t] \notin {"carry", "exited"} => next_period[t].tv_nsec < SECOND
  /\ pc[t] = "start" => runs[t] = 0

\* A step of thread t changes nothing of another one.
Changes(t) ==
  /\ now' = now
  /\ next_period' = [next_period EXCEPT ![t] = next_period'[t]]
  /\ pc' = [pc EXCEPT ![t] = pc'[t]]
  /\ start' = [start EXCEPT ![t] = start'[t]]
  /\ runs' = [runs EXCEPT ![t] = runs'[t]]

LEMMA ByThread == ASSUME TimerInv, NEW t \in Task, Changes(t), OneThread(t)'
                  PROVE  TimerInv'
<1> USE DEF TimerInv, Changes, OneThread, TimerType
<1>1. TimerType'
  OBVIOUS
<1>2. \A u \in Task \ {t} : /\ pc'[u] = pc[u] /\ start'[u] = start[u] /\ runs'[u] = runs[u]
                            /\ next_period'[u] = next_period[u]
  OBVIOUS
<1>3. \A u \in Task \ {t} : Total(u)' = Total(u)
  BY <1>2 DEF Total
<1>4. NoDrift'
  BY <1>2, <1>3 DEF NoDrift
<1>5. QED
  BY <1>1, <1>2, <1>4

LEMMA TimerStep == TimerInv /\ [PeriodicNext]_timer => TimerInv'
<1> SUFFICES ASSUME TimerInv, [PeriodicNext]_timer PROVE TimerInv'
  OBVIOUS
<1> USE PeriodAssumption
<1>1. ASSUME now' \in Nat, UNCHANGED <<next_period, pc, start, runs>> PROVE TimerInv'
  <2>1. \A u \in Task : Total(u)' = Total(u)
    BY <1>1 DEF Total
  <2>2. QED
    BY <1>1, <2>1 DEF TimerInv, TimerType, NoDrift
<1>2. CASE Tick
  BY <1>1, <1>2 DEF Tick, TimerInv, TimerType
<1>3. CASE UNCHANGED timer
  BY <1>1, <1>3 DEF timer, TimerInv, TimerType
<1>4. ASSUME NEW t \in Task, Exit(t) PROVE TimerInv'
  BY <1>4 DEF Exit, TimerInv, TimerType, NoDrift
<1> SUFFICES ASSUME NEW t \in Task, periodic_task_init(t) \/ Work(t) \/ wait_rest_of_period(t)
             PROVE  TimerInv'
  BY <1>2, <1>3, <1>4 DEF PeriodicNext
<1>5. OneThread(t) /\ now \in Nat /\ TimerType
  BY DEF OneThread, TimerInv, TimerType, NoDrift
<1> DEFINE sec == next_period[t].tv_sec
           nsec == next_period[t].tv_nsec
<1>6. sec \in Nat /\ nsec \in Nat /\ Total(t) = sec * SECOND + nsec
  BY <1>5 DEF OneThread, Timespec, Total
<1>7. CASE periodic_task_init(t)
  <2>1. /\ next_period'[t] = [tv_sec |-> now \div SECOND, tv_nsec |-> now % SECOND]
        /\ start'[t] = now /\ pc'[t] = "work" /\ runs'[t] = runs[t] /\ pc[t] = "start"
    BY <1>5, <1>7 DEF periodic_task_init, Goto, TimerType
  <2>2. Changes(t)
    BY <1>5, <1>7 DEF periodic_task_init, Goto, TimerType, Changes
  <2>3. runs'[t] = 0 /\ runs'[t] * period_ns[t] = 0
    BY <2>1, <1>5 DEF OneThread
  <2>4. Total(t)' = now
    BY <2>1, <1>5, Split DEF Total
  <2>5. OneThread(t)'
    BY <2>1, <2>3, <2>4, <1>5, Split DEF OneThread, Timespec
  <2>6. QED
    BY <2>2, <2>5, ByThread
<1>8. CASE Work(t) \/ FallAsleep(t) \/ WakeUp(t)
  <2>1. /\ next_period'[t] = next_period[t] /\ start'[t] = start[t] /\ runs'[t] = runs[t]
        /\ pc[t] \notin {"start", "exited"} /\ pc'[t] \in {"work", "wait", "done", "asleep"}
        /\ pc[t] = "carry" => nsec < SECOND
    BY <1>5, <1>8 DEF Work, FallAsleep, WakeUp, Goto, TimerType
  <2>2. Changes(t)
    BY <1>5, <1>8 DEF Work, FallAsleep, WakeUp, Goto, TimerType, Changes
  <2>3. Total(t)' = Total(t)
    BY <2>1 DEF Total
  <2>4. QED
    BY <2>1, <2>2, <2>3, <1>5, ByThread DEF OneThread
<1>9. CASE increment_period(t)
  <2>1. /\ next_period'[t] = [tv_sec |-> sec, tv_nsec |-> nsec + period_ns[t]]
        /\ runs'[t] = runs[t] + 1 /\ pc'[t] = "carry" /\ start'[t] = start[t] /\ pc[t] = "wait"
    BY <1>5, <1>6, <1>9 DEF increment_period, Goto, TimerType, Timespec
  <2>2. Changes(t)
    BY <1>5, <1>9 DEF increment_period, Goto, TimerType, Changes
  <2>3. Total(t)' = Total(t) + period_ns[t]
    BY <2>1, <1>6 DEF Total
  <2>4. runs'[t] * period_ns[t] = runs[t] * period_ns[t] + period_ns[t]
    BY <2>1, <1>5 DEF OneThread
  <2>5. OneThread(t)'
    BY <2>1, <2>3, <2>4, <1>5, <1>6 DEF OneThread, Timespec
  <2>6. QED
    BY <2>2, <2>5, ByThread
<1>10. CASE Carry(t)
  <2>1. /\ next_period'[t] = [tv_sec |-> sec + 1, tv_nsec |-> nsec - SECOND] /\ nsec >= SECOND
        /\ runs'[t] = runs[t] /\ pc'[t] = "carry" /\ start'[t] = start[t] /\ pc[t] = "carry"
    BY <1>5, <1>6, <1>10 DEF Carry, TimerType, Timespec
  <2>2. Changes(t)
    BY <1>5, <1>10 DEF Carry, TimerType, Changes
  <2>3. (sec + 1) * SECOND = sec * SECOND + SECOND
    BY <1>6
  <2>4. Total(t)' = Total(t)
    BY <2>1, <2>3, <1>6 DEF Total
  <2>5. OneThread(t)'
    BY <2>1, <2>4, <1>5, <1>6 DEF OneThread, Timespec
  <2>6. QED
    BY <2>2, <2>5, ByThread
<1>11. QED
  BY <1>7, <1>8, <1>9, <1>10 DEF wait_rest_of_period

LEMMA TimerAlways == PeriodicSpec => []TimerInv
<1>1. PeriodicInit => TimerInv
  BY PeriodAssumption DEF PeriodicInit, TimerInv, TimerType, NoDrift, Timespec
<1>2. QED
  BY <1>1, TimerStep, PTL DEF PeriodicSpec
-----------------------------------------------------------------------------
\* Whatever the periods, the work and the delays, the time a thread waits for
\* is its start plus a whole number of periods (increment_period in
\* Lab2-Week2.c and Process2.c).
THEOREM ExactTimes == PeriodicSpec => []NoDrift
  BY TimerAlways, PTL DEF TimerInv

\* clock_nanosleep gets less than a second of nanoseconds.
THEOREM WellFormedTimes == PeriodicSpec => []Normalised
<1>1. TimerInv => Normalised
  BY DEF TimerInv, Normalised
<1>2. QED
  BY <1>1, TimerAlways, PTL
=============================================================================
