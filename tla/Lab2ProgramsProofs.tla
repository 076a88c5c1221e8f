--------------------------- MODULE Lab2ProgramsProofs ---------------------------
(***************************************************************************)
(* Proofs about the programs of Lab2 and the button process of Lab4: the   *)
(* threads of LineMerge use the timer as PeriodicTask says and keep pace   *)
(* with each other, ButtonPoll reports a press once per period, the        *)
(* threads of Convolution compute each element once before the image is    *)
(* printed, and what they compute is the image under the filter.  Each     *)
(* program behaves in MCLab2Programs as it does alone.                     *)
(***************************************************************************)
EXTENDS MCLab2Programs, PeriodicTaskProofs, FiniteSetTheorems

\* Each thread of Lab2-Week2.c uses the timer as PeriodicTask says: what it
\* reads and copies takes the place of the work.
THEOREM UsesTimer == Spec => ImplementsTimer
<1>1. Init => PeriodicInit
  BY DEF Init
<1>2. [Next]_vars => [PeriodicNext]_timer
  <2> SUFFICES ASSUME [Next]_vars PROVE [PeriodicNext]_timer
    OBVIOUS
  <2> USE LinesAssumption DEF Stay, Goto, timer, PeriodicNext
  <2>1. Task = Thread /\ Reader \subseteq Thread /\ "third" \in Thread
    BY DEF Thread, Reader
  <2>2. ASSUME NEW r \in Reader, FgetsBegin(r) PROVE UNCHANGED timer
    BY <2>2 DEF FgetsBegin
  <2>3. ASSUME NEW r \in Reader, FgetsEnd(r) \/ Eof(r) PROVE Work(r)
    BY <2>3 DEF FgetsEnd, Eof, Work
  <2>4. CASE CopyFirst
    BY <2>4 DEF CopyFirst
  <2>5. CASE CopySecond \/ Full
    BY <2>5, <2>1 DEF CopySecond, Full, Work
  <2>6. ASSUME NEW t \in Thread, NotAllowed(t) \/ Timer(t) PROVE [PeriodicNext]_timer
    BY <2>6, <2>1 DEF NotAllowed, Timer
  <2>7. CASE Pass
    BY <2>7 DEF Pass
  <2>8. CASE UNCHANGED vars
    BY <2>8 DEF vars
  <2>9. QED
    BY <2>1, <2>2, <2>3, <2>4, <2>5, <2>6, <2>7, <2>8 DEF Next
<1>3. QED
  BY <1>1, <1>2, PTL DEF Spec, ImplementsTimer, PeriodicSpec

\* So the periods of the three threads do not drift.
COROLLARY MergeExactTimes == Spec => []NoDrift
  BY UsesTimer, ExactTimes, PTL DEF ImplementsTimer
-----------------------------------------------------------------------------
MergeType ==
  /\ buffer \in [Reader -> 0 .. 2 * Lines]
  /\ fullString \in Seq(0 .. 2 * Lines) /\ Len(fullString) <= Entries

LEMMA MergeStep == MergeType /\ [Next]_vars => MergeType'
<1> SUFFICES ASSUME MergeType, [Next]_vars PROVE MergeType'
  OBVIOUS
<1> USE LinesAssumption DEF MergeType
<1>1. ASSUME NEW r \in Reader, FgetsBegin(r) \/ FgetsEnd(r) PROVE MergeType'
  <2>1. /\ buffer' = [buffer EXCEPT ![r] = buffer[r] + 1] /\ UNCHANGED fullString
        /\ buffer[r] < 2 * Lines \/ buffer[r] % 2 = 1
    BY <1>1 DEF FgetsBegin, FgetsEnd
  <2>2. buffer[r] + 1 \in 0 .. 2 * Lines
    BY <2>1
  <2>3. QED
    BY <2>1, <2>2
<1>2. ASSUME UNCHANGED <<buffer, fullString>> PROVE MergeType'
  BY <1>2
<1>3. CASE CopyFirst \/ CopySecond
  <2>1. /\ \E r \in Reader : fullString' = Append(fullString, buffer[r])
        /\ UNCHANGED buffer
        /\ Len(fullString) < Entries \/ Len(fullString) % 2 = 1
    BY <1>3 DEF CopyFirst, CopySecond, Reader
  <2>2. Len(fullString) + 1 <= Entries
    <3>1. Len(fullString) \in Nat /\ Len(fullString) <= Entries
      OBVIOUS
    <3>2. Entries \in Nat /\ Entries % 2 = 0
      OBVIOUS
    <3> HIDE LinesAssumption DEF MergeType
    <3>3. QED
      BY <2>1, <3>1, <3>2
  <2>3. PICK r \in Reader : fullString' = Append(fullString, buffer[r])
    BY <2>1
  <2>4. buffer[r] \in 0 .. 2 * Lines
    OBVIOUS
  <2>5. fullString' \in Seq(0 .. 2 * Lines) /\ Len(fullString') = Len(fullString) + 1
    BY <2>3, <2>4
  <2>6. QED
    BY <2>1, <2>2, <2>5
<1>4. QED
  BY <1>1, <1>2, <1>3 DEF Next, Eof, Full, NotAllowed, Timer, Pass, vars

\* Every variable of LineMerge keeps its type: no line is read after the last
\* one and nothing is copied past the end of fullString (Lab2-Week2.c:165-169).
THEOREM TypeCorrect == Spec => []TypeOK
<1>1. Init => MergeType
  BY LinesAssumption DEF Init, MergeType
<1>2. MergeType /\ TimerInv => TypeOK
  BY LinesAssumption DEF MergeType, TimerInv, TimerType, TypeOK
<1>3. QED
  BY <1>1, <1>2, MergeStep, UsesTimer, TimerAlways, PTL DEF Spec, ImplementsTimer
-----------------------------------------------------------------------------
(***************************************************************************)
(* The pace of the copier.  Nobody is late, so that the times of the       *)
(* threads say what the buffers hold, and what they held at each copy.     *)
(***************************************************************************)
\* The time for which thread t waits or has waited, by its history.
Due(t) == start[t] + runs[t] * TaskPeriod[t]

\* A thread does its work at the time for which it has waited.
OnTime(t) ==
  /\ pc[t] \in {"work", "wait"} => now = Due(t)
  /\ pc[t] = "carry" => now + TaskPeriod[t] = Due(t)
  /\ pc[t] = "asleep" => now <= Due(t) /\ Due(t) <= now + TaskPeriod[t]

\* A reader has read a line in each of its periods, and is done after the last.
HasRead(r) ==
  /\ pc[r] = "start" => buffer[r] = 0
  /\ pc[r] = "work" => buffer[r] \in {2 * runs[r], 2 * runs[r] + 1}
  /\ pc[r] = "wait" => buffer[r] = 2 * runs[r] + 2
  /\ pc[r] \in {"carry", "asleep"} => buffer[r] = 2 * runs[r]
  /\ pc[r] = "done" => buffer[r] = 2 * Lines /\ start[r] + 2 * Lines <= now

\* The copier has made two copies in each of its periods.
HasCopied ==
  /\ pc["third"] = "start" => Len(fullString) = 0
  /\ pc["third"] = "work" => Len(fullString) \in {2 * runs["third"], 2 * runs["third"] + 1}
  /\ pc["third"] = "wait" => Len(fullString) = 2 * runs["third"] + 2
  /\ pc["third"] \in {"carry", "asleep"} => Len(fullString) = 2 * runs["third"]

ReaderOf(i) == IF i % 2 = 1 THEN "first" ELSE "second"

\* When entry i of fullString was copied.
CopiedAt(i) == start["third"] + 3 * ((i - 1) \div 2)

\* When entry i was copied its reader had begun the lines that it holds and had
\* not come to the next one.
Window(i) ==
  LET r == ReaderOf(i)
      a == fullString[i]
  IN  /\ CopiedAt(i) <= now
      /\ a > 0 => pc[r] # "start" /\ start[r] + 2 * ((a - 1) \div 2) <= CopiedAt(i)
      /\ a < 2 * Lines /\ pc[r] # "start" => CopiedAt(i) <= start[r] + 2 * (a \div 2)

\* The arithmetic of two successive copies of one buffer, 3 units apart.
LEMMA TwoCopies ==
  ASSUME NEW s \in Nat, NEW c \in Nat, NEW a \in 0 .. 2 * Lines, NEW b \in 0 .. 2 * Lines,
         a > 0, s + 2 * ((a - 1) \div 2) <= c,
         a < 2 * Lines => c <= s + 2 * (a \div 2),
         b > 0 => s + 2 * ((b - 1) \div 2) <= c + 3,
         b < 2 * Lines => c + 3 <= s + 2 * (b \div 2)
  PROVE  (a < b \/ a = 2 * Lines) /\ b <= a + 4
<1>1. Lines \in Nat
  BY LinesAssumption
<1>2. CASE a = 2 * Lines
  BY <1>1, <1>2
<1>3. CASE a < 2 * Lines
  <2>1. a < b
    BY <1>1, <1>3
  <2>2. b <= a + 4
    BY <1>1, <1>3
  <2>3. QED
    BY <2>1, <2>2
<1>4. QED
  BY <1>1, <1>2, <1>3

\* Both halves of a pair of numbers, and the number before the pair.
LEMMA Halves == ASSUME NEW k \in Nat
                PROVE  /\ (2 * k) \div 2 = k /\ (2 * k + 1) \div 2 = k
                       /\ (2 * k + 1 - 1) \div 2 = k /\ (2 * k + 2 - 1) \div 2 = k
                       /\ (2 * k + 2) \div 2 = k + 1
                       /\ k > 0 => (2 * k - 1) \div 2 = k - 1
  OBVIOUS

LEMMA Pair == ASSUME NEW n \in Nat, NEW k \in Nat
              PROVE  /\ n % 2 = 0 => (n + 1) % 2 = 1
                     /\ n % 2 = 1 => (n + 1) % 2 # 1
                     /\ n \in {2 * k, 2 * k + 1} /\ n % 2 = 0 => n + 1 = 2 * k + 1
                     /\ n \in {2 * k, 2 * k + 1} /\ n % 2 = 1 => n + 1 = 2 * k + 2
  OBVIOUS

LEMMA OneMore == ASSUME NEW k \in Nat, NEW p \in Nat
                 PROVE  (k + 1) * p = k * p + p /\ 0 * p = 0
  OBVIOUS

\* The lines that a reader holds, by its time.
LEMMA HeldLines ==
  ASSUME NEW s \in Nat, NEW k \in Nat, NEW c \in Nat, NEW a \in Nat,
         \/ a \in {2 * k, 2 * k + 1} /\ c = s + k * 2
         \/ a = 2 * k + 2 /\ c = s + k * 2
         \/ a = 2 * k /\ c <= s + k * 2 /\ s + k * 2 <= c + 2
  PROVE  /\ a > 0 => s + 2 * ((a - 1) \div 2) <= c
         /\ c <= s + 2 * (a \div 2)
<1>1. CASE a = 2 * k /\ c <= s + k * 2 /\ s + k * 2 <= c + 2
  BY <1>1, Halves
<1>2. CASE a = 2 * k + 1 /\ c = s + k * 2
  BY <1>2, Halves
<1>3. CASE a = 2 * k + 2 /\ c = s + k * 2
  BY <1>3, Halves
<1>4. QED
  BY <1>1, <1>2, <1>3

\* The three threads and their periods.
LEMMA Periods == /\ Task = Thread /\ Reader \subseteq Thread /\ "third" \in Thread \ Reader
                 /\ period_ns = TaskPeriod /\ TaskPeriod["third"] = 3
                 /\ \A r \in Reader : TaskPeriod[r] = 2
                 /\ \A t \in Thread : t \in Reader \/ t = "third"
  BY LinesAssumption DEF TaskPeriod, Thread, Reader

\* The time of a thread and the history of its periods agree.
LEMMA DueIsTotal == ASSUME TimerInv, NEW t \in Thread, pc[t] \notin {"start", "exited"}
                    PROVE  Total(t) = Due(t)
  BY Periods DEF TimerInv, NoDrift, Due

AllWindows == \A i \in DOMAIN fullString : Window(i)

\* What is true of the copies that have been made stays true while time passes
\* and no thread starts.
LEMMA KeepWindows ==
  ASSUME AllWindows, now \in Nat, now' \in Nat, now <= now',
         start["third"] \in Nat, fullString \in Seq(0 .. 2 * Lines),
         UNCHANGED <<fullString, start>>,
         \A r \in Reader : pc[r] = "start" <=> pc'[r] = "start"
  PROVE  AllWindows'
<1> SUFFICES ASSUME NEW i \in DOMAIN fullString PROVE Window(i)'
  BY DEF AllWindows
<1>1. Window(i)
  BY DEF AllWindows
<1>2. ReaderOf(i) \in Reader
  BY DEF ReaderOf, Reader
<1>3. CopiedAt(i) <= now => CopiedAt(i) <= now'
  <2>1. CopiedAt(i) \in Int
    BY DEF CopiedAt
  <2>2. QED
    BY <2>1
<1>4. CopiedAt(i)' = CopiedAt(i) /\ ReaderOf(i)' = ReaderOf(i)
  BY DEF CopiedAt, ReaderOf
<1>5. QED
  BY <1>1, <1>2, <1>3, <1>4 DEF Window

\* The types that the arithmetic below needs.
LEMMA PaceTypes ==
  ASSUME TimerInv, MergeType
  PROVE  /\ now \in Nat
         /\ \A t \in Thread : /\ start[t] \in Nat /\ runs[t] \in Nat
                              /\ pc[t] \in {"start", "work", "wait", "carry", "asleep", "done", "exited"}
         /\ pc \in [Thread -> {"start", "work", "wait", "carry", "asleep", "done", "exited"}]
         /\ start \in [Thread -> Nat] /\ runs \in [Thread -> Nat]
         /\ \A r \in Reader : buffer[r] \in 0 .. 2 * Lines
         /\ Len(fullString) \in Nat
  BY Periods DEF TimerInv, TimerType, MergeType

LEMMA EntryType == ASSUME MergeType, NEW i \in DOMAIN fullString
                   PROVE  fullString[i] \in 0 .. 2 * Lines
  BY LinesAssumption DEF MergeType

\* Copying at its time, the third thread finds in a buffer what the reader's
\* time says.
LEMMA CopyWindow ==
  ASSUME TimerInv, MergeType, \A t \in Thread : OnTime(t), HasCopied, pc["third"] = "work",
         NEW r \in Reader, HasRead(r),
         NEW n \in Nat, n = Len(fullString), r = ReaderOf(n + 1),
         fullString' = Append(fullString, buffer[r]), UNCHANGED <<now, start, runs>>,
         pc[r] # "exited", pc'[r] = pc[r]
  PROVE  Window(n + 1)'
<1> DEFINE a == buffer[r]
<1>0. /\ now \in Nat /\ start[r] \in Nat /\ runs[r] \in Nat /\ a \in 0 .. 2 * Lines
      /\ Lines \in Nat
      /\ start["third"] \in Nat /\ runs["third"] \in Nat /\ a \in Nat
      /\ pc[r] \in {"start", "work", "wait", "carry", "asleep", "done"}
  BY PaceTypes, Periods, LinesAssumption
<1>1. CopiedAt(n + 1) = now
  <2>1. now = start["third"] + runs["third"] * 3
    BY Periods DEF OnTime, Due
  <2>2. n \in {2 * runs["third"], 2 * runs["third"] + 1}
    BY DEF HasCopied
  <2>3. n \div 2 = runs["third"]
    BY <1>0, <2>2, Halves
  <2>4. (n + 1) - 1 = n
    BY <1>0
  <2>5. QED
    BY <1>0, <2>1, <2>3, <2>4 DEF CopiedAt
<1>2. fullString'[n + 1] = a
  BY DEF MergeType
<1>3. Due(r) = start[r] + runs[r] * 2
  BY Periods DEF Due
<1>4. OnTime(r) /\ TaskPeriod[r] = 2
  BY Periods
<1> DEFINE Begun == start[r] + 2 * ((a - 1) \div 2) <= now
           NotNext == now <= start[r] + 2 * (a \div 2)
<1>5. (a > 0 => pc[r] # "start" /\ Begun) /\ (a < 2 * Lines /\ pc[r] # "start" => NotNext)
  <2>1. CASE pc[r] = "start"
    BY <2>1, <1>0 DEF HasRead
  <2>2. CASE pc[r] = "work"
    <3>1. now = start[r] + runs[r] * 2 /\ a \in {2 * runs[r], 2 * runs[r] + 1}
      BY <2>2, <1>3, <1>4 DEF OnTime, HasRead
    <3>2. (a > 0 => Begun) /\ NotNext
      BY <3>1, <1>0, HeldLines
    <3>3. QED
      BY <3>2, <2>2
  <2>3. CASE pc[r] = "wait"
    <3>1. now = start[r] + runs[r] * 2 /\ a = 2 * runs[r] + 2
      BY <2>3, <1>3, <1>4 DEF OnTime, HasRead
    <3>2. (a > 0 => Begun) /\ NotNext
      BY <3>1, <1>0, HeldLines
    <3>3. QED
      BY <3>2, <2>3
  <2>4. CASE pc[r] \in {"carry", "asleep"}
    <3>1. /\ now <= start[r] + runs[r] * 2 /\ start[r] + runs[r] * 2 <= now + 2
          /\ a = 2 * runs[r]
      <4>1. a = 2 * runs[r]
        BY <2>4 DEF HasRead
      <4>2. now + 2 = Due(r) \/ (now <= Due(r) /\ Due(r) <= now + 2)
        BY <2>4, <1>4 DEF OnTime
      <4>3. QED
        BY <4>1, <4>2, <1>3, <1>0
    <3>2. (a > 0 => Begun) /\ NotNext
      BY <3>1, <1>0, HeldLines
    <3>3. QED
      BY <3>2, <2>4
  <2>5. CASE pc[r] = "done"
    <3>1. a = 2 * Lines /\ start[r] + 2 * Lines <= now
      BY <2>5 DEF HasRead
    <3>2. a > 0 => Begun
      <4>1. ASSUME a > 0 PROVE (a - 1) \div 2 = Lines - 1
        BY <4>1, <3>1, <1>0, Halves
      <4>2. QED
        BY <4>1, <3>1, <1>0
    <3>3. QED
      BY <3>1, <3>2, <2>5, <1>0
  <2>6. QED
    BY <2>1, <2>2, <2>3, <2>4, <2>5, <1>0
<1>6. CopiedAt(n + 1)' = now /\ ReaderOf(n + 1)' = r /\ now' = now /\ start' = start
      /\ pc'[r] = pc[r]
  <2>1. CopiedAt(n + 1)' = CopiedAt(n + 1)
    BY DEF CopiedAt
  <2>2. QED
    BY <1>1, <2>1 DEF ReaderOf
<1>7. now <= now
  BY <1>0
<1>8. QED
  BY <1>2, <1>5, <1>6, <1>7 DEF Window

Running ==
  /\ \A t \in Thread : OnTime(t) /\ pc[t] # "exited"
  /\ \A r \in Reader : HasRead(r)
  /\ HasCopied
  /\ AllWindows

\* A step in which time stands still and thread t goes from one place to
\* another that is not "start", leaving the buffers of the others alone.
Steps(t) ==
  /\ now' = now
  /\ \A u \in Thread \ {t} : pc'[u] = pc[u] /\ start'[u] = start[u] /\ runs'[u] = runs[u]
  /\ \A r \in Reader \ {t} : buffer'[r] = buffer[r]
  /\ t # "third" => fullString' = fullString

\* It is enough to look at that thread.
LEMMA StepsKeep ==
  ASSUME Running, NEW t \in Thread, Steps(t), OnTime(t)', pc'[t] # "exited",
         t \in Reader => HasRead(t)', t = "third" => HasCopied', AllWindows'
  PROVE  Running'
<1> USE Periods
<1>1. \A u \in Thread : OnTime(u)' /\ pc'[u] # "exited"
  BY DEF Running, Steps, OnTime, Due
<1>2. \A r \in Reader : HasRead(r)'
  BY DEF Running, Steps, HasRead
<1>3. HasCopied'
  BY DEF Running, Steps, HasCopied
<1>4. QED
  BY <1>1, <1>2, <1>3 DEF Running

LEMMA RunningStep ==
  ASSUME Running, TimerInv, MergeType, Next, ~ \E t \in Thread : NotAllowed(t)
  PROVE  Running'
<1> USE Periods, PaceTypes
<1>1. ASSUME NEW r \in Reader, FgetsBegin(r) \/ FgetsEnd(r) \/ Eof(r) PROVE Running'
  <2>1. /\ pc[r] = "work" /\ UNCHANGED <<now, start, runs, fullString>>
        /\ \/ pc' = pc
           \/ pc' = [pc EXCEPT ![r] = "wait"]
           \/ pc' = [pc EXCEPT ![r] = "done"]
        /\ buffer' = [buffer EXCEPT ![r] = buffer'[r]]
    BY <1>1 DEF FgetsBegin, FgetsEnd, Eof, Stay, Goto, MergeType
  <2>2. Steps(r)
    BY <2>1 DEF Steps, MergeType
  <2>3. pc'[r] \in {"work", "wait", "done"}
    BY <2>1
  <2>4. OnTime(r)'
    BY <2>1, <2>3 DEF Running, OnTime, Due
  <2>5. HasRead(r)'
    <3>1. buffer[r] \in {2 * runs[r], 2 * runs[r] + 1} /\ now = start[r] + runs[r] * 2
      BY <2>1 DEF Running, HasRead, OnTime, Due
    <3>2. CASE FgetsBegin(r)
      <4>1. buffer'[r] = buffer[r] + 1 /\ buffer[r] % 2 = 0 /\ pc' = pc
        BY <3>2 DEF FgetsBegin, MergeType, Stay
      <4>2. buffer'[r] = 2 * runs[r] + 1
        BY <4>1, <3>1
      <4>3. QED
        BY <4>1, <4>2, <2>1 DEF HasRead
    <3>3. CASE FgetsEnd(r)
      <4>1. buffer'[r] = buffer[r] + 1 /\ buffer[r] % 2 = 1 /\ pc'[r] = "wait"
        BY <3>3 DEF FgetsEnd, MergeType, Goto, Stay
      <4>2. buffer'[r] = 2 * runs[r] + 2
        BY <4>1, <3>1
      <4>3. QED
        BY <4>1, <4>2, <2>1 DEF HasRead
    <3>4. CASE Eof(r)
      <4>1. buffer'[r] = buffer[r] /\ buffer[r] = 2 * Lines /\ pc'[r] = "done"
        BY <3>4 DEF Eof, Goto, Stay
      <4>2. start[r] + 2 * Lines <= now
        <5>1. 2 * Lines = 2 * runs[r]
          BY <4>1, <3>1, LinesAssumption
        <5>2. QED
          BY <5>1, <3>1
      <4>3. QED
        BY <4>1, <4>2, <2>1 DEF HasRead
    <3>5. QED
      BY <1>1, <3>2, <3>3, <3>4
  <2>6. AllWindows'
    <3>1. \A q \in Reader : pc[q] = "start" <=> pc'[q] = "start"
      BY <2>1, <2>3, <2>2 DEF Steps
    <3>2. QED
      BY <2>1, <3>1, KeepWindows DEF Running, MergeType
  <2>7. QED
    BY <2>2, <2>3, <2>4, <2>5, <2>6, StepsKeep
<1>2. CASE CopyFirst \/ CopySecond
  <2>0. PICK n \in Nat : n = Len(fullString)
    OBVIOUS
  <2>1. PICK r \in Reader : r = ReaderOf(n + 1) /\ fullString' = Append(fullString, buffer[r])
    BY <1>2, <2>0, Pair DEF CopyFirst, CopySecond, ReaderOf, Reader
  <2>2. /\ pc["third"] = "work" /\ UNCHANGED <<now, start, runs, buffer>>
        /\ \/ CopyFirst /\ pc' = pc
           \/ CopySecond /\ pc' = [pc EXCEPT !["third"] = "wait"]
    BY <1>2 DEF CopyFirst, CopySecond, Stay, Goto
  <2>3. Steps("third")
    BY <2>2 DEF Steps
  <2>4. pc'["third"] \in {"work", "wait"} /\ \A q \in Reader : pc'[q] = pc[q]
    BY <2>2
  <2>5. OnTime("third")'
    BY <2>2, <2>4 DEF Running, OnTime, Due
  <2>6. HasCopied'
    <3>1. n \in {2 * runs["third"], 2 * runs["third"] + 1}
      BY <2>0, <2>2 DEF Running, HasCopied
    <3>2. Len(fullString') = n + 1
      BY <2>0, <2>1 DEF MergeType
    <3>3. CASE CopyFirst
      <4>1. n % 2 = 0 /\ pc' = pc
        BY <2>0, <3>3 DEF CopyFirst, Stay
      <4>2. n + 1 = 2 * runs["third"] + 1
        BY <4>1, <3>1, Pair
      <4>3. QED
        BY <4>1, <4>2, <3>2, <2>2 DEF HasCopied
    <3>4. CASE CopySecond
      <4>1. n % 2 = 1 /\ pc'["third"] = "wait"
        BY <2>0, <3>4 DEF CopySecond, Stay, Goto
      <4>2. n + 1 = 2 * runs["third"] + 2
        BY <4>1, <3>1, Pair
      <4>3. QED
        BY <4>1, <4>2, <3>2, <2>2 DEF HasCopied
    <3>5. QED
      BY <1>2, <3>3, <3>4
  <2>7. AllWindows'
    <3>1. n \in Nat /\ Len(fullString') = n + 1 /\ DOMAIN fullString' = 1 .. n + 1
      BY <2>0, <2>1 DEF MergeType
    <3>2. Window(n + 1)'
      BY <2>0, <2>1, <2>2, <2>4, <3>1, CopyWindow DEF Running
    <3>3. ASSUME NEW i \in 1 .. n PROVE Window(i)'
      <4>1. Window(i)
        BY <2>0, <3>3 DEF Running, AllWindows, MergeType
      <4>2. fullString'[i] = fullString[i] /\ ReaderOf(i) \in Reader
        BY <2>0, <2>1, <3>3 DEF MergeType, ReaderOf, Reader
      <4>3. CopiedAt(i)' = CopiedAt(i) /\ ReaderOf(i)' = ReaderOf(i)
        BY <2>2 DEF CopiedAt, ReaderOf
      <4>4. QED
        BY <4>1, <4>2, <4>3, <2>2, <2>4 DEF Window
    <3>4. QED
      BY <3>1, <3>2, <3>3 DEF AllWindows
  <2>8. QED
    BY <2>3, <2>4, <2>5, <2>6, <2>7, StepsKeep
<1>3. CASE Full
  <2>1. /\ pc["third"] = "work" /\ UNCHANGED <<now, start, runs, buffer, fullString>>
        /\ pc' = [pc EXCEPT !["third"] = "done"] /\ pc'["third"] = "done"
    BY <1>3 DEF Full, Stay, Goto
  <2>2. Steps("third")
    BY <2>1 DEF Steps
  <2>3. AllWindows'
    BY <2>1, KeepWindows DEF Running, MergeType
  <2>4. OnTime("third")' /\ HasCopied'
    BY <2>1 DEF OnTime, HasCopied
  <2>5. QED
    BY <2>1, <2>2, <2>3, <2>4, StepsKeep
<1>4. ASSUME NEW t \in Thread, periodic_task_init(t), UNCHANGED <<buffer, fullString>>
      PROVE  Running'
  <2>1. /\ pc[t] = "start" /\ pc' = [pc EXCEPT ![t] = "work"] /\ pc'[t] = "work"
        /\ start' = [start EXCEPT ![t] = now] /\ start'[t] = now
        /\ UNCHANGED <<now, runs, buffer, fullString>> /\ runs[t] = 0
    BY <1>4 DEF periodic_task_init, Goto, TimerInv
  <2>2. Steps(t)
    BY <2>1 DEF Steps
  <2>3. OnTime(t)'
    <3>1. runs'[t] * TaskPeriod[t] = 0
      BY <2>1, PeriodAssumption, OneMore
    <3>2. QED
      BY <2>1, <3>1 DEF OnTime, Due
  <2>4. t \in Reader => HasRead(t)'
    BY <2>1 DEF HasRead, Running
  <2>5. t = "third" => HasCopied'
    BY <2>1 DEF HasCopied, Running
  <2>6. AllWindows'
    <3>1. CASE t = "third"
      <4>1. DOMAIN fullString' = {}
        BY <2>1, <3>1 DEF Running, HasCopied, MergeType
      <4>2. QED
        BY <4>1 DEF AllWindows
    <3>2. CASE t \in Reader
      <4> SUFFICES ASSUME NEW i \in DOMAIN fullString PROVE Window(i)'
        BY <2>1 DEF AllWindows
      <4>1. Window(i) /\ CopiedAt(i)' = CopiedAt(i) /\ ReaderOf(i)' = ReaderOf(i)
            /\ ReaderOf(i) \in Reader
        BY <2>1, <3>2 DEF Running, AllWindows, CopiedAt, ReaderOf, Reader
      <4>2. CASE ReaderOf(i) = t
        <5>1. fullString[i] = 0
          <6>1. fullString[i] \in 0 .. 2 * Lines
            BY EntryType
          <6>2. ~ fullString[i] > 0
            BY <2>1, <4>1, <4>2 DEF Window
          <6>3. QED
            BY <6>1, <6>2, LinesAssumption
        <5>2. CopiedAt(i) <= now + 2 * (0 \div 2)
          <6>1. CopiedAt(i) \in Int
            BY DEF CopiedAt, MergeType
          <6>2. QED
            BY <4>1, <6>1 DEF Window
        <5>3. QED
          BY <2>1, <4>1, <4>2, <5>1, <5>2 DEF Window
      <4>3. CASE ReaderOf(i) # t
        BY <2>1, <4>1, <4>3 DEF Window
      <4>4. QED
        BY <4>2, <4>3
    <3>3. QED
      BY <3>1, <3>2
  <2>7. QED
    BY <2>1, <2>2, <2>3, <2>4, <2>5, <2>6, StepsKeep
<1>5. ASSUME NEW t \in Thread, wait_rest_of_period(t), UNCHANGED <<buffer, fullString>>
      PROVE  Running'
  <2>1. /\ UNCHANGED <<now, start, buffer, fullString>>
        /\ pc[t] \in {"wait", "carry", "asleep"}
        /\ \/ pc' = pc
           \/ pc' = [pc EXCEPT ![t] = "work"]
           \/ pc' = [pc EXCEPT ![t] = "carry"]
           \/ pc' = [pc EXCEPT ![t] = "asleep"]
        /\ runs' = [runs EXCEPT ![t] = runs'[t]]
    BY <1>5 DEF wait_rest_of_period, increment_period, Carry, FallAsleep, WakeUp, Goto
  <2>2. Steps(t)
    BY <2>1 DEF Steps
  <2>3. pc'[t] \in {"work", "carry", "asleep", "wait"}
    BY <2>1
  <2>4. AllWindows'
    <3>1. \A q \in Reader : pc[q] = "start" <=> pc'[q] = "start"
      BY <2>1, <2>2, <2>3 DEF Steps
    <3>2. QED
      BY <2>1, <3>1, KeepWindows DEF Running, MergeType
  <2>5. Due(t) \in Nat /\ TaskPeriod[t] \in Nat /\ OnTime(t) /\ now \in Nat
    BY PeriodAssumption DEF Due, Running
  <2>6. CASE increment_period(t)
    <3>1. pc[t] = "wait" /\ pc'[t] = "carry" /\ runs'[t] = runs[t] + 1
      BY <2>6 DEF increment_period, Goto
    <3>2. Due(t)' = Due(t) + TaskPeriod[t]
      <4>1. runs'[t] * TaskPeriod[t] = runs[t] * TaskPeriod[t] + TaskPeriod[t]
        <5>1. runs[t] \in Nat
          OBVIOUS
        <5>2. QED
          BY ONLY <5>1, <3>1, <2>5, OneMore
      <4>2. QED
        BY <4>1, <2>1, <2>5 DEF Due
    <3>3. OnTime(t)'
      BY <3>1, <3>2, <2>1, <2>5 DEF OnTime
    <3>4. (t \in Reader => HasRead(t)') /\ (t = "third" => HasCopied')
      <4>1. 2 * runs'[t] = 2 * runs[t] + 2
        BY <3>1
      <4>2. QED
        BY <4>1, <3>1, <2>1 DEF Running, HasRead, HasCopied
    <3>5. QED
      BY <3>1, <3>3, <3>4, <2>2, <2>4, StepsKeep
  <2>7. CASE Carry(t) \/ FallAsleep(t)
    <3>1. pc[t] = "carry" /\ pc'[t] \in {"carry", "asleep"} /\ runs' = runs
      BY <2>7 DEF Carry, FallAsleep, Goto
    <3>2. Due(t)' = Due(t)
      BY <3>1, <2>1 DEF Due
    <3>3. now + TaskPeriod[t] = Due(t)
      BY <3>1, <2>5 DEF OnTime
    <3>4. now <= Due(t)
      BY <3>3, <2>5
    <3>5. Due(t) <= now + TaskPeriod[t]
      BY <3>3, <2>5
    <3>6. OnTime(t)'
      BY <3>1, <3>2, <3>3, <3>4, <3>5, <2>1 DEF OnTime
    <3>7. (t \in Reader => HasRead(t)') /\ (t = "third" => HasCopied')
      BY <3>1, <2>1 DEF Running, HasRead, HasCopied
    <3>8. QED
      BY <3>1, <3>6, <3>7, <2>2, <2>4, StepsKeep
  <2>8. CASE WakeUp(t)
    <3>1. pc[t] = "asleep" /\ pc'[t] = "work" /\ runs' = runs /\ Total(t) <= now
      BY <2>8 DEF WakeUp, Goto
    <3>2. Due(t)' = Due(t)
      BY <3>1, <2>1 DEF Due
    <3>3. now = Due(t)
      <4>1. Due(t) <= now
        BY <3>1, DueIsTotal
      <4>2. now <= Due(t)
        BY <3>1, <2>5 DEF OnTime
      <4>3. QED
        BY <4>1, <4>2, <2>5
    <3>4. OnTime(t)'
      BY <3>1, <3>2, <3>3, <2>1 DEF OnTime
    <3>5. (t \in Reader => HasRead(t)') /\ (t = "third" => HasCopied')
      BY <3>1, <2>1 DEF Running, HasRead, HasCopied
    <3>6. QED
      BY <3>1, <3>4, <3>5, <2>2, <2>4, StepsKeep
  <2>9. QED
    BY <1>5, <2>6, <2>7, <2>8 DEF wait_rest_of_period
<1>6. CASE Pass
  <2>1. /\ now' = now + 1 /\ UNCHANGED <<pc, start, runs, buffer, fullString>>
        /\ now' \in Nat /\ now <= now'
    BY <1>6 DEF Pass, Tick
  <2>2. AllWindows'
    BY <2>1, KeepWindows DEF Running, MergeType
  <2>3. ASSUME NEW t \in Thread PROVE OnTime(t)' /\ pc'[t] # "exited"
    <3>1. Due(t) \in Nat /\ TaskPeriod[t] \in Nat /\ OnTime(t) /\ pc[t] # "exited" /\ now \in Nat
      BY PeriodAssumption DEF Due, Running
    <3>2. pc[t] \in {"start", "done"} \/ (pc[t] = "asleep" /\ Due(t) > now)
      BY <1>6, <3>1, DueIsTotal DEF Pass, Quiet
    <3>3. Due(t)' = Due(t)
      BY <2>1 DEF Due
    <3>4. pc[t] = "asleep" => now + 1 <= Due(t) /\ Due(t) <= now + 1 + TaskPeriod[t]
      BY <3>1, <3>2 DEF OnTime
    <3>5. QED
      BY <3>1, <3>2, <3>3, <3>4, <2>1 DEF OnTime
  <2>4. ASSUME NEW r \in Reader PROVE HasRead(r)'
    <3>1. start[r] + 2 * Lines <= now => start[r] + 2 * Lines <= now'
      BY <2>1, LinesAssumption
    <3>2. QED
      BY <3>1, <2>1 DEF Running, HasRead
  <2>5. HasCopied'
    BY <2>1 DEF Running, HasCopied
  <2>6. QED
    BY <2>2, <2>3, <2>4, <2>5 DEF Running
<1>7. QED
  BY <1>1, <1>2, <1>3, <1>4, <1>5, <1>6 DEF Next, Timer

\* The inductive invariant: a thread has ended the process, or all of them have
\* kept to their times.
PaceInv ==
  /\ Pace
  /\ Running \/ \A t \in Thread : pc[t] = "exited"

\* The copies of one buffer that follow each other were made 3 units apart.
LEMMA WindowsPace == ASSUME Running, TimerInv, MergeType PROVE Pace
<1> SUFFICES ASSUME NEW i \in 1 .. Len(fullString) - 2, fullString[i] > 0
             PROVE  /\ fullString[i] < fullString[i + 2] \/ fullString[i] = 2 * Lines
                    /\ fullString[i + 2] <= fullString[i] + 4
  BY DEF Pace
<1>0. Len(fullString) \in Nat /\ start["third"] \in Nat
  BY PaceTypes, Periods
<1>1. i \in DOMAIN fullString /\ i + 2 \in DOMAIN fullString /\ i \in Nat
  BY <1>0 DEF MergeType
<1>2. fullString[i] \in 0 .. 2 * Lines /\ fullString[i + 2] \in 0 .. 2 * Lines
  BY <1>1, EntryType
<1>3. Window(i) /\ Window(i + 2)
  BY <1>1 DEF Running, AllWindows
<1> DEFINE r == ReaderOf(i)
<1>4. r \in Reader /\ ReaderOf(i + 2) = r
  <2>1. (i + 2) % 2 = i % 2
    BY <1>1
  <2>2. QED
    BY <2>1 DEF ReaderOf, Reader
<1>5. CopiedAt(i) \in Nat /\ CopiedAt(i + 2) = CopiedAt(i) + 3
  <2>1. (i + 2 - 1) \div 2 = (i - 1) \div 2 + 1
    BY <1>1
  <2>2. (i - 1) \div 2 \in Nat /\ i >= 1
    BY <1>1
  <2>3. QED
    BY <2>1, <2>2, <1>0 DEF CopiedAt
<1>6. start[r] \in Nat
  BY <1>4, PaceTypes, Periods
<1>7. /\ start[r] + 2 * ((fullString[i] - 1) \div 2) <= CopiedAt(i)
      /\ fullString[i] < 2 * Lines => CopiedAt(i) <= start[r] + 2 * (fullString[i] \div 2)
      /\ fullString[i + 2] > 0 => start[r] + 2 * ((fullString[i + 2] - 1) \div 2) <= CopiedAt(i) + 3
      /\ fullString[i + 2] < 2 * Lines => CopiedAt(i) + 3 <= start[r] + 2 * (fullString[i + 2] \div 2)
  BY <1>3, <1>4, <1>5 DEF Window
<1>8. QED
  BY <1>2, <1>5, <1>6, <1>7, TwoCopies

LEMMA PaceInit == Init => PaceInv
<1> SUFFICES ASSUME Init PROVE PaceInv
  OBVIOUS
<1> USE Periods DEF Init, PeriodicInit
<1>1. fullString = <<>> /\ Len(fullString) = 0 /\ DOMAIN fullString = {}
  OBVIOUS
<1>2. Pace
  BY <1>1 DEF Pace
<1>3. Running
  BY <1>1 DEF Running, OnTime, HasRead, HasCopied, AllWindows
<1>4. QED
  BY <1>2, <1>3 DEF PaceInv

LEMMA PaceStep == PaceInv /\ TimerInv /\ MergeType /\ TimerInv' /\ [Next]_vars => PaceInv'
<1> SUFFICES ASSUME PaceInv, TimerInv, MergeType, TimerInv', [Next]_vars PROVE PaceInv'
  OBVIOUS
<1>1. CASE UNCHANGED vars
  BY <1>1 DEF vars, timer, PaceInv, Pace, Running, OnTime, Due, HasRead, HasCopied, AllWindows,
              Window, ReaderOf, CopiedAt
<1>2. ASSUME NEW t \in Thread, NotAllowed(t) PROVE PaceInv'
  BY <1>2, Periods DEF NotAllowed, Exit, PaceInv, Pace
<1>3. ASSUME Next, ~ \E t \in Thread : NotAllowed(t) PROVE PaceInv'
  <2>1. CASE Running
    <3>1. Running' /\ MergeType'
      BY <2>1, <1>3, RunningStep, MergeStep
    <3>2. (Running /\ TimerInv /\ MergeType => Pace)'
      BY WindowsPace, PTL
    <3>3. QED
      BY <3>1, <3>2 DEF PaceInv
  <2>2. CASE \A t \in Thread : pc[t] = "exited"
    <3>1. ~ Next
      BY <1>3, <2>2, Periods DEF Next, FgetsBegin, FgetsEnd, Eof, CopyFirst, CopySecond, Full,
              Timer, periodic_task_init, wait_rest_of_period, increment_period, Carry,
              FallAsleep, WakeUp, Pass
    <3>2. QED
      BY <1>3, <3>1
  <2>3. QED
    BY <2>1, <2>2 DEF PaceInv
<1>4. QED
  BY <1>1, <1>2, <1>3

\* However many lines and entries there are and whenever the three threads
\* start: from one copy to the next a reader gets on by at least a line and by
\* two at most (getFirstThd, getSecThd and getThirdThd of Lab2-Week2.c).
THEOREM KeepsPace == Spec => []Pace
<1>1. Init => MergeType
  BY LinesAssumption DEF Init, MergeType
<1>2. PaceInv => Pace
  BY DEF PaceInv
<1>3. QED
  BY <1>1, <1>2, PaceInit, PaceStep, MergeStep, UsesTimer, TimerAlways, PTL
     DEF Spec, ImplementsTimer
-----------------------------------------------------------------------------
(***************************************************************************)
(* Process2.c.  The looks at the button are a period apart and at most     *)
(* Late off their times, so that they count how long it is held.           *)
(***************************************************************************)
Clock == INSTANCE PeriodicTaskProofs WITH
           Task <- {"poll"}, period_ns <- [t \in {"poll"} |-> PollPeriod],
           now <- pollNow, next_period <- pollNext, pc <- pollPc, start <- pollStart, runs <- pollRuns

\* The loop of Process2.c uses the timer as PeriodicTask says.
THEOREM PollUsesTimer == Poll!Spec => Clock!PeriodicSpec
<1>1. Poll!Init => Clock!PeriodicInit
  BY DEF Poll!Init, Poll!PeriodicInit, Clock!PeriodicInit
<1>2. [Poll!Next]_(Poll!vars) => [Clock!PeriodicNext]_(Clock!timer)
  <2> SUFFICES ASSUME [Poll!Next]_(Poll!vars) PROVE [Clock!PeriodicNext]_(Clock!timer)
    OBVIOUS
  <2> USE DEF Poll!timer, Clock!timer, Poll!Poller
  <2>1. CASE Poll!OpenPipe \/ Poll!PressOrRelease \/ UNCHANGED Poll!vars
    BY <2>1 DEF Poll!OpenPipe, Poll!PressOrRelease, Poll!vars
  <2>2. CASE Poll!Look
    BY <2>2 DEF Poll!Look, Poll!Goto, Clock!Work, Clock!Goto, Clock!PeriodicNext
  <2>3. CASE Poll!Timer
    BY <2>3 DEF Poll!Timer, Poll!periodic_task_init, Clock!periodic_task_init,
                Poll!wait_rest_of_period, Clock!wait_rest_of_period,
                Poll!increment_period, Clock!increment_period, Poll!Carry, Clock!Carry,
                Poll!FallAsleep, Clock!FallAsleep, Poll!WakeUp, Clock!WakeUp, Poll!Total,
                Clock!Total,
                Poll!Goto, Clock!Goto, Clock!PeriodicNext
  <2>4. CASE Poll!Pass
    BY <2>4 DEF Poll!Pass, Poll!Tick, Clock!Tick, Clock!PeriodicNext
  <2>5. QED
    BY <2>1, <2>2, <2>3, <2>4 DEF Poll!Next
<1>3. QED
  BY <1>1, <1>2, PTL DEF Poll!Spec, Clock!PeriodicSpec

\* How often the loop has looked, and the time of its next look.
Looks == IF pollPc["poll"] = "wait" THEN pollRuns["poll"] + 1 ELSE pollRuns["poll"]
NextLook == Looks * PollPeriod
Pressed == pollNow - held

\* The loop is on time up to Late; a press began at most a period before the time
\* of the first look that has reported it, and at most Late after that time.
PollInv ==
  /\ button \in BOOLEAN /\ held \in Nat /\ reports \in Nat /\ held <= pollNow
  /\ ~ button => held = 0
  /\ pollPc["poll"] = "start" => pollNow = 0
  /\ pollStart["poll"] = 0
  /\ NextLook <= pollNow + PollPeriod /\ pollNow <= NextLook + Late
  /\ pollPc["poll"] = "work" => NextLook <= pollNow
  /\ NextLook - reports * PollPeriod <= Pressed + PollPeriod
  /\ reports > 0 => button /\ Pressed <= NextLook - reports * PollPeriod + Late

LEMMA PollInit == Poll!Init => PollInv
  BY ProgramsAssumption DEF Poll!Init, Poll!PeriodicInit, PollInv, Looks, NextLook, Pressed

LEMMA PollStep == ASSUME PollInv, Clock!TimerInv, [Poll!Next]_(Poll!vars)
                  PROVE  PollInv'
<1>0. /\ pollNow \in Nat /\ PollPeriod \in Nat \ {0} /\ Late \in Nat
      /\ pollRuns["poll"] \in Nat /\ pollStart["poll"] \in Nat
      /\ pollPc \in [{"poll"} -> {"start", "work", "wait", "carry", "asleep", "done", "exited"}]
      /\ pollRuns \in [{"poll"} -> Nat] /\ pollStart \in [{"poll"} -> Nat]
      /\ pollPc["poll"] \in {"start", "work", "wait", "carry", "asleep", "done", "exited"}
  BY ProgramsAssumption DEF Clock!TimerInv, Clock!TimerType
<1>1. Looks \in Nat /\ NextLook \in Nat /\ held \in Nat /\ reports \in Nat /\ Pressed \in Nat
      /\ reports * PollPeriod \in Nat
  BY <1>0 DEF Looks, NextLook, Pressed, PollInv
<1>2. pollPc["poll"] \notin {"start", "wait", "exited"} => Poll!Total("poll") = NextLook
  BY <1>0 DEF Clock!TimerInv, Clock!NoDrift, Clock!Total, Poll!Total, NextLook, Looks, PollInv
<1>3. CASE Poll!OpenPipe \/ UNCHANGED Poll!vars
  BY <1>3 DEF Poll!OpenPipe, Poll!vars, Poll!timer, PollInv, Looks, NextLook, Pressed
<1>4. CASE Poll!PressOrRelease
  BY <1>0, <1>1, <1>4 DEF Poll!PressOrRelease, Poll!timer, PollInv, Looks, NextLook, Pressed
<1>5. CASE Poll!Look
  <2>1. pollPc["poll"] = "work" /\ pollPc'["poll"] = "wait"
        /\ UNCHANGED <<pollNow, pollRuns, pollStart, button, held>>
    BY <1>0, <1>5 DEF Poll!Look, Poll!Poller, Poll!Goto
  <2>2. Looks' = Looks + 1
    BY <2>1 DEF Looks
  <2>3. NextLook' = NextLook + PollPeriod
    BY <2>2, <1>0, <1>1, OneMore DEF NextLook
  <2>4. \/ button /\ reports' = reports + 1 /\ reports' * PollPeriod = reports * PollPeriod + PollPeriod
        \/ ~ button /\ reports' = reports /\ reports = 0
    BY <1>0, <1>1, <1>5, OneMore DEF Poll!Look, PollInv
  <2>5. Pressed' = Pressed
    BY <2>1 DEF Pressed
  <2>6. NextLook <= pollNow /\ pollNow <= NextLook + Late /\ Pressed <= pollNow
    BY <2>1, <1>0, <1>1 DEF PollInv, Pressed
  <2>7. CASE button /\ reports' = reports + 1
             /\ reports' * PollPeriod = reports * PollPeriod + PollPeriod
    <3>1. NextLook' - reports' * PollPeriod = NextLook - reports * PollPeriod
      BY <2>3, <2>7, <1>0, <1>1
    <3>2. Pressed <= NextLook - reports * PollPeriod + Late
      <4>1. CASE reports = 0
        BY <4>1, <2>6, <1>0, <1>1, OneMore
      <4>2. CASE reports > 0
        BY <4>2 DEF PollInv
      <4>3. QED
        BY <4>1, <4>2, <1>1
    <3>3. QED
      BY <2>1, <2>3, <2>5, <2>6, <2>7, <3>1, <3>2, <1>0, <1>1 DEF PollInv
  <2>8. CASE ~ button /\ reports' = reports /\ reports = 0
    <3>1. reports * PollPeriod = 0 /\ reports' * PollPeriod = 0
      BY <2>8, <1>0, OneMore
    <3>2. NextLook' - reports' * PollPeriod <= Pressed' + PollPeriod
      <4>1. Pressed = pollNow
        BY <2>1, <2>8, <1>0, <1>1 DEF PollInv, Pressed
      <4>2. QED
        BY <4>1, <3>1, <2>3, <2>5, <2>6, <1>0, <1>1
    <3>3. QED
      BY <3>1, <3>2, <2>1, <2>3, <2>5, <2>6, <2>8, <1>0, <1>1 DEF PollInv
  <2>9. QED
    BY <2>4, <2>7, <2>8
<1>6. CASE Poll!Timer
  <2>1. UNCHANGED <<pollNow, button, held, reports>>
    BY <1>6 DEF Poll!Timer, Poll!periodic_task_init, Poll!wait_rest_of_period,
                Poll!increment_period,
                Poll!Carry, Poll!FallAsleep, Poll!WakeUp
  <2>2. CASE Poll!periodic_task_init("poll")
    <3>1. /\ pollPc["poll"] = "start" /\ pollPc'["poll"] = "work" /\ pollNow = 0
          /\ pollStart'["poll"] = 0 /\ pollRuns' = pollRuns /\ pollRuns["poll"] = 0
      BY <2>2, <1>0 DEF Poll!periodic_task_init, Poll!Goto, PollInv, Clock!TimerInv
    <3>2. Looks' = Looks /\ NextLook' = NextLook /\ NextLook = 0 /\ Pressed' = Pressed
      BY <3>1, <2>1, <1>0, OneMore DEF Looks, NextLook, Pressed
    <3>3. QED
      BY <3>1, <3>2, <2>1, <1>0, <1>1 DEF PollInv
  <2>3. CASE Poll!increment_period("poll")
    <3>1. /\ pollPc["poll"] = "wait" /\ pollPc'["poll"] = "carry" /\ pollStart' = pollStart
          /\ pollRuns'["poll"] = pollRuns["poll"] + 1
      BY <2>3, <1>0 DEF Poll!increment_period, Poll!Goto
    <3>2. Looks' = Looks /\ NextLook' = NextLook /\ Pressed' = Pressed
      BY <3>1, <2>1 DEF Looks, NextLook, Pressed
    <3>3. QED
      BY <3>1, <3>2, <2>1, <1>0, <1>1 DEF PollInv
  <2>4. CASE Poll!Carry("poll") \/ Poll!FallAsleep("poll") \/ Poll!WakeUp("poll")
    <3>1. /\ pollPc["poll"] \in {"carry", "asleep"}
          /\ pollPc'["poll"] \in {"carry", "asleep", "work"}
          /\ pollStart' = pollStart /\ pollRuns' = pollRuns
          /\ pollPc'["poll"] = "work" => Poll!Total("poll") <= pollNow
      BY <2>4, <1>0 DEF Poll!Carry, Poll!FallAsleep, Poll!WakeUp, Poll!Goto
    <3>2. Looks' = Looks /\ NextLook' = NextLook /\ Pressed' = Pressed
      BY <3>1, <2>1 DEF Looks, NextLook, Pressed
    <3>3. QED
      BY <3>1, <3>2, <2>1, <1>0, <1>1, <1>2 DEF PollInv
  <2>5. QED
    BY <1>6, <2>2, <2>3, <2>4 DEF Poll!Timer, Poll!wait_rest_of_period, Poll!Poller
<1>7. CASE Poll!Pass
  <2>1. /\ pollPc["poll"] = "asleep" /\ pollNow' = pollNow + 1 /\ pollNow < NextLook + Late
        /\ UNCHANGED <<pollPc, pollRuns, pollStart, button, reports>>
        /\ \/ button /\ held' = held + 1
           \/ ~ button /\ held' = 0
    BY <1>2, <1>7 DEF Poll!Pass, Poll!Poller, Poll!Tick, PollInv
  <2>2. Looks' = Looks /\ NextLook' = NextLook
    BY <2>1 DEF Looks, NextLook
  <2>3. CASE button
    BY <2>1, <2>2, <2>3, <1>0, <1>1 DEF PollInv, Pressed
  <2>4. CASE ~ button
    BY <2>1, <2>2, <2>4, <1>0, <1>1 DEF PollInv, Pressed
  <2>5. QED
    BY <2>3, <2>4 DEF PollInv
<1>8. QED
  BY <1>3, <1>4, <1>5, <1>6, <1>7 DEF Poll!Next

\* Numbers of whole periods.
LEMMA WholePeriods ==
  ASSUME NEW x \in Nat, NEW r \in Nat, NEW p \in Nat \ {0}
  PROVE  /\ x < r * p + p => x \div p <= r
         /\ r * p <= x => r <= x \div p
<1> DEFINE q == x \div p
<1>1. q \in Nat /\ q * p <= x /\ x < q * p + p
  OBVIOUS
<1>2. \A i \in Nat, j \in Nat : i <= j => i * p <= j * p
  OBVIOUS
<1>3. ASSUME x < r * p + p, q > r PROVE FALSE
  <2>1. (r + 1) * p <= q * p
    BY <1>1, <1>2, <1>3
  <2>2. QED
    BY <2>1, <1>1, <1>3, OneMore
<1>4. ASSUME r * p <= x, r > q PROVE FALSE
  <2>1. (q + 1) * p <= r * p
    BY <1>1, <1>2, <1>4
  <2>2. QED
    BY <2>1, <1>1, <1>4, OneMore
<1>5. QED
  BY <1>1, <1>3, <1>4

LEMMA PollReports == PollInv /\ Clock!TimerInv => ReportsPerPress
<1> SUFFICES ASSUME PollInv, Clock!TimerInv, Poll!Quiet, pollPc["poll"] = "asleep", button
             PROVE  /\ reports >= held \div PollPeriod
                    /\ reports <= (held + Late) \div PollPeriod + 1
  BY DEF ReportsPerPress, Poll!ReportsPerPress, Poll!Poller
<1>1. /\ pollNow \in Nat /\ PollPeriod \in Nat \ {0} /\ Late \in Nat /\ held \in Nat
      /\ reports \in Nat
      /\ NextLook \in Nat /\ reports * PollPeriod \in Nat
  BY ProgramsAssumption DEF Clock!TimerInv, Clock!TimerType, PollInv, NextLook, Looks
<1>2. pollNow < NextLook /\ NextLook <= pollNow + PollPeriod
  <2>1. Poll!Total("poll") > pollNow
    BY DEF Poll!Quiet
  <2>2. Poll!Total("poll") = pollStart["poll"] + pollRuns["poll"] * PollPeriod
    BY DEF Clock!TimerInv, Clock!NoDrift, Clock!Total, Poll!Total
  <2>3. Poll!Total("poll") = NextLook
    BY <2>2, <1>1 DEF PollInv, NextLook, Looks
  <2>4. QED
    BY <2>1, <2>3, <1>1 DEF PollInv
<1>3. held < reports * PollPeriod + PollPeriod
  BY <1>1, <1>2 DEF PollInv, Pressed
<1>4. CASE reports = 0
  BY <1>1, <1>3, <1>4, WholePeriods
<1>5. CASE reports > 0
  <2>1. (reports - 1) * PollPeriod + PollPeriod = reports * PollPeriod /\ reports - 1 \in Nat
    <3>1. reports - 1 \in Nat /\ (reports - 1) + 1 = reports
      BY <1>1, <1>5
    <3>2. QED
      BY <3>1, <1>1, OneMore
  <2>2. (reports - 1) * PollPeriod <= held + Late
    BY <2>1, <1>1, <1>2, <1>5 DEF PollInv, Pressed
  <2>3. reports - 1 <= (held + Late) \div PollPeriod
    BY <2>1, <2>2, <1>1, WholePeriods
  <2>4. QED
    BY <2>3, <1>1, <1>3, WholePeriods
<1>6. QED
  BY <1>1, <1>4, <1>5

\* Whatever its period is and however late it wakes up, the loop of Process2.c
\* reports a press once per period that it lasts.
THEOREM PressReported == Poll!Spec => []ReportsPerPress
<1>1. Clock!PeriodicSpec => []Clock!TimerInv
  BY Clock!TimerAlways, ProgramsAssumption, PeriodAssumption
<1>2. QED
  BY <1>1, PollInit, PollStep, PollReports, PollUsesTimer, PTL DEF Poll!Spec
-----------------------------------------------------------------------------
(***************************************************************************)
(* Lab2-Week1.c.  The division of the work: in each case the elements are  *)
(* divided among the threads.                                              *)
(***************************************************************************)
\* The sizes of the image are numbers.
SizesOK == m.rows \in Nat /\ m.cols \in Nat

\* A multiple of a larger number is larger.
LEMMA Monotone == ASSUME NEW i \in Nat, NEW j \in Nat, NEW p \in Nat
                  PROVE  /\ i * p \in Nat /\ (i + 1) * p = i * p + p /\ 0 * p = 0 /\ 1 * p = p
                         /\ i <= j => i * p <= j * p
  OBVIOUS

\* An element and its row.
LEMMA RowOf == ASSUME NEW e \in Nat, NEW p \in Nat \ {0}
               PROVE  /\ e \div p \in Nat /\ e % p \in 0 .. p - 1
                      /\ e = (e \div p) * p + (e % p)
                      /\ (e \div p) * p <= e /\ e < (e \div p) * p + p
<1>1. e \div p \in Nat /\ e % p \in 0 .. p - 1
  OBVIOUS
<1>2. (e \div p) * p <= e /\ e < (e \div p) * p + p
  OBVIOUS
<1>3. e = (e \div p) * p + (e % p)
  OBVIOUS
<1>4. QED
  BY <1>1, <1>2, <1>3

\* How many threads each case has, and the elements of each of them, in order.
Count(d) == CASE d = 1 -> 1 [] d = 2 -> m.rows [] d = 3 -> m.rows * m.cols
From(d, t) == CASE d = 1 -> 0 [] d = 2 -> t * m.cols [] d = 3 -> t
Upto(d, t) == CASE d = 1 -> m.rows * m.cols [] d = 2 -> t * m.cols + m.cols [] d = 3 -> t + 1

LEMMA Intervals ==
  ASSUME SizesOK, NEW d \in 1 .. 3
  PROVE  /\ Count(d) \in Nat /\ Filter!Threads(d) = 0 .. Count(d) - 1
         /\ \A t \in Filter!Threads(d) : /\ From(d, t) \in Nat /\ Upto(d, t) \in Nat
                                         /\ From(d, t) <= Upto(d, t)
                                         /\ Filter!Share(d)[t] = From(d, t) .. Upto(d, t) - 1
                                         /\ Filter!Share(d)[t] \subseteq Filter!Elements
<1> DEFINE c == m.cols
<1>1. m.rows \in Nat /\ c \in Nat /\ m.rows * c \in Nat
  BY Monotone DEF SizesOK
<1>2. CASE d = 1
  BY <1>1, <1>2 DEF Count, From, Upto, Filter!Threads, Filter!Share, Filter!Elements
<1>3. CASE d = 2
  <2>1. Filter!Share(d) = [t \in 0 .. m.rows - 1 |-> t * c .. (t + 1) * c - 1]
    BY <1>3 DEF Filter!Share
  <2>2. Count(d) = m.rows /\ Filter!Threads(d) = 0 .. Count(d) - 1
    BY <1>3, <2>1 DEF Count, Filter!Threads
  <2>3. ASSUME NEW t \in 0 .. m.rows - 1
        PROVE  /\ t * c \in Nat /\ (t + 1) * c = t * c + c /\ t * c + c <= m.rows * c
    <3>1. t \in Nat /\ t + 1 \in Nat /\ t + 1 <= m.rows
      BY <1>1
    <3>2. (t + 1) * c = t * c + c /\ t * c \in Nat /\ (t + 1) * c <= m.rows * c
      BY <3>1, <1>1, Monotone
    <3>3. QED
      BY <3>2
  <2>7. Count(d) \in Nat
    BY <1>1, <2>2
  <2>8. ASSUME NEW t \in 0 .. m.rows - 1
        PROVE  /\ From(d, t) \in Nat /\ Upto(d, t) \in Nat /\ From(d, t) <= Upto(d, t)
               /\ Filter!Share(d)[t] = From(d, t) .. Upto(d, t) - 1
               /\ Filter!Share(d)[t] \subseteq Filter!Elements
    <3> DEFINE a == t * c
               b == t * c + c
               x == (t + 1) * c
    <3>1. From(d, t) = a /\ Upto(d, t) = b /\ Filter!Share(d)[t] = a .. x - 1
      <4>1. From(d, t) = a /\ Upto(d, t) = b
        BY <1>3 DEF From, Upto
      <4>2. Filter!Share(d)[t] = a .. x - 1
        BY <2>1
      <4>3. QED
        BY <4>1, <4>2
    <3>2. a \in Nat /\ b = a + c /\ x = b /\ b <= m.rows * c
      BY <2>3
    <3>3. Filter!Elements = 0 .. m.rows * c - 1
      BY DEF Filter!Elements
    <3> DEFINE z == m.rows * c
    <3>4. z \in Nat /\ c \in Nat
      BY <1>1
    <3> HIDE DEF a, b, x, z
    <3>5. a \in Nat /\ b \in Nat /\ a <= b /\ a .. b - 1 \subseteq Filter!Elements
      <4>1. b <= z /\ Filter!Elements = 0 .. z - 1
        BY <3>2, <3>3 DEF z
      <4>2. QED
        BY ONLY <4>1, <3>2, <3>4
    <3>6. QED
      BY ONLY <3>1, <3>2, <3>5
  <2>9. QED
    BY ONLY <2>2, <2>7, <2>8
<1>4. CASE d = 3
  <2>1. Filter!Share(d) = [t \in 0 .. m.rows * c - 1 |-> {t}]
    BY <1>4 DEF Filter!Share, Filter!Elements
  <2>2. Count(d) = m.rows * c /\ Filter!Threads(d) = 0 .. Count(d) - 1
    BY <1>4, <2>1 DEF Count, Filter!Threads
  <2>3. ASSUME NEW t \in 0 .. m.rows * c - 1
        PROVE  /\ From(d, t) = t /\ Upto(d, t) = t + 1 /\ t \in Nat /\ t <= t + 1
               /\ Filter!Share(d)[t] = t .. t + 1 - 1
               /\ Filter!Share(d)[t] \subseteq Filter!Elements
    <3>1. From(d, t) = t /\ Upto(d, t) = t + 1
      BY <1>4 DEF From, Upto
    <3>2. Filter!Share(d)[t] = {t} /\ t \in Nat /\ {t} = t .. t + 1 - 1
      BY <2>1
    <3>3. {t} \subseteq Filter!Elements
      BY DEF Filter!Elements
    <3>4. QED
      BY <3>1, <3>2, <3>3
  <2>4. Count(d) \in Nat
    BY <1>1, <2>2
  <2>5. ASSUME NEW t \in 0 .. m.rows * c - 1
        PROVE  /\ From(d, t) \in Nat /\ Upto(d, t) \in Nat /\ From(d, t) <= Upto(d, t)
               /\ Filter!Share(d)[t] = From(d, t) .. Upto(d, t) - 1
               /\ Filter!Share(d)[t] \subseteq Filter!Elements
    <3>1. From(d, t) = t /\ Upto(d, t) = t + 1 /\ t + 1 \in Nat
      BY <2>3
    <3>2. QED
      BY <2>3, <3>1
  <2>6. QED
    BY ONLY <2>2, <2>4, <2>5
<1>5. QED
  BY <1>2, <1>3, <1>4

\* Each case gives every element to exactly one of its threads.
LEMMA Partition ==
  ASSUME SizesOK, NEW d \in 1 .. 3
  PROVE  /\ \A e \in Filter!Elements : \E t \in Filter!Threads(d) : e \in Filter!Share(d)[t]
         /\ \A t, u \in Filter!Threads(d) : t # u => Filter!Share(d)[t] \cap Filter!Share(d)[u] = {}
<1> DEFINE c == m.cols
<1>1. m.rows \in Nat /\ c \in Nat /\ m.rows * c \in Nat
  BY Monotone DEF SizesOK
<1>2. CASE d = 1
  BY <1>2 DEF Filter!Threads, Filter!Share
<1>3. CASE d = 2
  <2>1. Filter!Share(d) = [t \in 0 .. m.rows - 1 |-> t * c .. (t + 1) * c - 1]
        /\ Filter!Threads(d) = 0 .. m.rows - 1
    BY <1>3 DEF Filter!Share, Filter!Threads
  <2>2. ASSUME NEW e \in Filter!Elements
        PROVE  \E t \in 0 .. m.rows - 1 : e \in t * c .. (t + 1) * c - 1
    <3>1. e \in Nat /\ e < m.rows * c /\ c # 0
      <4>1. c = 0 => m.rows * c = 0
        BY <1>1
      <4>2. QED
        BY <4>1, <1>1 DEF Filter!Elements
    <3> DEFINE t == e \div c
    <3>2. t \in Nat /\ t * c <= e /\ e < t * c + c
      BY <1>1, <3>1, RowOf
    <3>3. t < m.rows
      <4>1. m.rows <= t => m.rows * c <= t * c
        BY <1>1, <3>2, Monotone
      <4>2. QED
        BY <4>1, <3>1, <3>2, <1>1, Monotone
    <3>4. (t + 1) * c = t * c + c /\ t * c \in Nat
      BY <1>1, <3>2, Monotone
    <3>5. t \in 0 .. m.rows - 1 /\ e \in t * c .. (t + 1) * c - 1
      BY <1>1, <3>1, <3>2, <3>3, <3>4
    <3>6. QED
      BY <3>5
  <2>3. ASSUME NEW t \in 0 .. m.rows - 1, NEW u \in 0 .. m.rows - 1, t < u,
               NEW e \in t * c .. (t + 1) * c - 1
        PROVE  e \notin u * c .. (u + 1) * c - 1
    <3>1. t + 1 \in Nat /\ u \in Nat /\ t + 1 <= u
      BY <1>1, <2>3
    <3>2. (t + 1) * c <= u * c /\ (t + 1) * c \in Nat /\ u * c \in Nat
      BY <3>1, <1>1, Monotone
    <3>3. QED
      BY <3>2
  <2>4. ASSUME NEW t \in 0 .. m.rows - 1, NEW u \in 0 .. m.rows - 1, t # u
        PROVE  (t * c .. (t + 1) * c - 1) \cap (u * c .. (u + 1) * c - 1) = {}
    <3>1. t < u \/ u < t
      BY <2>4, <1>1
    <3>2. QED
      BY <3>1, <2>3
  <2>5. QED
    BY <2>1, <2>2, <2>4
<1>4. CASE d = 3
  BY <1>4 DEF Filter!Threads, Filter!Share
<1>5. QED
  BY <1>2, <1>3, <1>4

\* The first element of an interval.
LEMMA FirstOf == ASSUME NEW a \in Int, NEW b \in Int, a <= b PROVE Filter!Min(a .. b) = a
  BY DEF Filter!Min

\* pthread_create is called for each thread of the case.
LEMMA HowMany ==
  ASSUME SizesOK, NEW d \in 1 .. 3
  PROVE  Filter!Cardinality(Filter!Threads(d)) = Count(d)
<1>1. Count(d) \in Nat /\ Filter!Threads(d) = 0 .. Count(d) - 1
  BY Intervals
<1>2. Cardinality(Filter!Threads(d)) = Count(d)
  BY <1>1, FS_Interval
<1>3. Filter!Cardinality(Filter!Threads(d)) = Cardinality(Filter!Threads(d))
  BY DEF Filter!Cardinality, Cardinality
<1>4. QED
  BY <1>2, <1>3
-----------------------------------------------------------------------------
(***************************************************************************)
(* Every element is written once.                                          *)
(***************************************************************************)
Size == m.rows * m.cols

\* A thread that has been created has written its elements up to the next one,
\* the others nothing; without elements there is nothing to say.
WorkInv ==
  /\ SizesOK
  /\ division \in 1 .. 4 /\ created \in Nat
  /\ DOMAIN next = 0 .. created - 1
  /\ division <= 3 => created <= Count(division)
  /\ division = 4 => created = 0
  /\ writes \in [Filter!Elements -> Nat]
  /\ DOMAIN result_matrix = Filter!Elements
  /\ Filter!Elements # {} /\ division <= 3 =>
       \A t \in DOMAIN next : next[t] \in From(division, t) .. Upto(division, t)
  /\ division <= 3 =>
       \A t \in DOMAIN next : \A e \in Filter!Share(division)[t] :
         writes[e] = IF e < next[t] THEN 1 ELSE 0
  /\ \A e \in Filter!Elements : (\A t \in DOMAIN next : e \notin Filter!Share(division)[t])
          => writes[e] = 0

\* What has been written in this case is the value of the filter there.
ResultInv ==
  \A e \in Filter!Elements :
    writes[e] # 0 => result_matrix[e] = Filter!ConvolutionOnElement(Filter!Row(e), Filter!Col(e))

\* The image and the filter stay as they were read.
LEMMA SameValue ==
  m' = m => \A e : Filter!ConvolutionOnElement(Filter!Row(e), Filter!Col(e))'
                    = Filter!ConvolutionOnElement(Filter!Row(e), Filter!Col(e))
  BY DEF Filter!ConvolutionOnElement, Filter!Around, Filter!Row, Filter!Col,
         Filter!MapThenSumSet, Filter!MapThenFoldSet

LEMMA WorkInit == Filter!Init /\ SizesOK => WorkInv /\ ResultInv
<1> SUFFICES ASSUME Filter!Init, SizesOK PROVE WorkInv /\ ResultInv
  OBVIOUS
<1>1. Count(1) = 1
  BY DEF Count
<1>2. DOMAIN next = {} /\ 0 .. created - 1 = {} /\ created = 0 /\ division = 1
  BY DEF Filter!Init
<1>3. writes = [e \in Filter!Elements |-> 0] /\ DOMAIN result_matrix = Filter!Elements
  BY DEF Filter!Init
<1>4. QED
  BY <1>1, <1>2, <1>3 DEF WorkInv, ResultInv

\* No two threads of a case have an element in common.
LEMMA OwnElements ==
  ASSUME WorkInv, NEW t \in DOMAIN next, division \in 1 .. 3
  PROVE  /\ t \in Filter!Threads(division)
         /\ Filter!Share(division)[t] = From(division, t) .. Upto(division, t) - 1
         /\ Filter!Share(division)[t] \subseteq Filter!Elements
         /\ From(division, t) \in Nat /\ Upto(division, t) \in Nat
         /\ \A u \in Filter!Threads(division) : u # t
                 => Filter!Share(division)[t] \cap Filter!Share(division)[u] = {}
<1>1. SizesOK /\ created \in Nat /\ created <= Count(division) /\ DOMAIN next = 0 .. created - 1
  BY DEF WorkInv
<1>2. Count(division) \in Nat /\ Filter!Threads(division) = 0 .. Count(division) - 1
  BY <1>1, Intervals
<1>3. t \in Filter!Threads(division)
  BY <1>1, <1>2
<1>4. QED
  BY <1>1, <1>3, Intervals, Partition

LEMMA CreateStep == ASSUME WorkInv, ResultInv, Filter!Create PROVE WorkInv' /\ ResultInv'
<1> DEFINE d == division
           t == created
<1>0. /\ SizesOK /\ d \in 1 .. 3 /\ t \in Nat /\ DOMAIN next = 0 .. t - 1
      /\ t < Count(d) /\ Count(d) \in Nat /\ Filter!Threads(d) = 0 .. Count(d) - 1
  <2>1. SizesOK /\ d \in 1 .. 3 /\ t \in Nat /\ DOMAIN next = 0 .. t - 1
    BY DEF WorkInv, Filter!Create
  <2>2. t < Filter!Cardinality(Filter!Threads(d))
    BY DEF Filter!Create
  <2>3. QED
    BY <2>1, <2>2, HowMany, Intervals
<1>1. /\ created' = t + 1 /\ UNCHANGED <<m, division, result_matrix, writes>>
      /\ next' = [u \in 0 .. t |-> IF u = t THEN Filter!Min(Filter!Share(d)[t]) ELSE next[u]]
  BY DEF Filter!Create
<1>2. DOMAIN next' = 0 .. t /\ 0 .. created' - 1 = 0 .. t /\ DOMAIN next \subseteq DOMAIN next'
  BY <1>0, <1>1
<1>3. t \in Filter!Threads(d) /\ From(d, t) \in Nat /\ Upto(d, t) \in Nat
      /\ From(d, t) <= Upto(d, t)
      /\ Filter!Share(d)[t] = From(d, t) .. Upto(d, t) - 1
      /\ Filter!Share(d)[t] \subseteq Filter!Elements
  <2>1. t \in Filter!Threads(d)
    BY <1>0
  <2>2. QED
    BY <1>0, <2>1, Intervals
<1>4. /\ SizesOK' /\ Filter!Elements' = Filter!Elements
      /\ \A x : Filter!Share(x)' = Filter!Share(x)
               /\ \A y : From(x, y)' = From(x, y) /\ Upto(x, y)' = Upto(x, y)
      /\ Count(division)' = Count(d)
  BY <1>0, <1>1 DEF SizesOK, Filter!Elements, Filter!Share, From, Upto, Count
<1>5. \A u \in DOMAIN next : next'[u] = next[u]
  BY <1>0, <1>1
<1>6. next'[t] = Filter!Min(Filter!Share(d)[t])
  BY <1>0, <1>1
<1>7. Filter!Elements # {} => next'[t] = From(d, t) /\ From(d, t) < Upto(d, t)
  <2> SUFFICES ASSUME Filter!Elements # {} PROVE From(d, t) <= Upto(d, t) - 1
    BY <1>3, <1>6, FirstOf
  <2>1. m.rows * m.cols \in Nat /\ m.cols \in Nat /\ m.rows \in Nat
    BY <1>0, Monotone DEF SizesOK
  <2>2. m.rows * m.cols > 0
    BY <2>1 DEF Filter!Elements
  <2>3. m.cols > 0
    BY <2>1, <2>2
  <2>4. CASE d = 1
    BY <2>1, <2>2, <2>4 DEF From, Upto
  <2>5. CASE d = 2
    <3>1. From(d, t) = t * m.cols /\ Upto(d, t) = t * m.cols + m.cols
      BY <2>5 DEF From, Upto
    <3>2. t * m.cols \in Nat
      BY <1>3, <3>1
    <3>3. QED
      BY <3>1, <3>2, <2>1, <2>3
  <2>6. CASE d = 3
    BY <1>0, <2>6 DEF From, Upto
  <2>7. QED
    BY <1>0, <2>4, <2>5, <2>6
<1>8. \A e \in Filter!Share(d)[t] : writes[e] = 0
  <2> SUFFICES ASSUME NEW e \in Filter!Share(d)[t] PROVE writes[e] = 0
    OBVIOUS
  <2>1. ASSUME NEW u \in DOMAIN next PROVE e \notin Filter!Share(d)[u]
    <3>1. u \in Filter!Threads(d) /\ u # t
      BY <1>0, OwnElements
    <3>2. QED
      BY <3>1, <1>0, <1>3, Partition
  <2>2. e \in Filter!Elements
    BY <1>3
  <2>3. QED
    BY <2>1, <2>2 DEF WorkInv
<1>9. ResultInv'
  BY <1>1, <1>4, SameValue DEF ResultInv
<1>10. Filter!Elements # {} =>
         \A u \in DOMAIN next' : next'[u] \in From(d, u) .. Upto(d, u)
  <2> SUFFICES ASSUME Filter!Elements # {}, NEW u \in 0 .. t
               PROVE  next'[u] \in From(d, u) .. Upto(d, u)
    BY <1>2
  <2>1. CASE u = t
    BY <2>1, <1>3, <1>7
  <2>2. CASE u # t
    <3>1. u \in DOMAIN next
      BY <1>0, <2>2
    <3>2. QED
      BY <3>1, <1>0, <1>5 DEF WorkInv
  <2>3. QED
    BY <2>1, <2>2
<1>11. \A u \in DOMAIN next' : \A e \in Filter!Share(d)[u] :
            writes[e] = IF e < next'[u] THEN 1 ELSE 0
  <2> SUFFICES ASSUME NEW u \in 0 .. t, NEW e \in Filter!Share(d)[u]
               PROVE  writes[e] = IF e < next'[u] THEN 1 ELSE 0
    BY <1>2
  <2>1. CASE u = t
    <3>1. e \in Filter!Elements /\ e \in Int /\ From(d, t) <= e
      BY <1>3, <2>1
    <3>2. next'[u] = From(d, t)
      BY <3>1, <1>7, <2>1
    <3>3. ~ (e < next'[u])
      BY <3>1, <3>2, <1>3
    <3>4. QED
      BY <3>3, <1>8, <2>1
  <2>2. CASE u # t
    <3>1. u \in DOMAIN next
      BY <1>0, <2>2
    <3>2. QED
      BY <3>1, <1>0, <1>5 DEF WorkInv
  <2>3. QED
    BY <2>1, <2>2
<1>12. \A e \in Filter!Elements : (\A u \in DOMAIN next' : e \notin Filter!Share(d)[u])
            => writes[e] = 0
  BY <1>2 DEF WorkInv
<1>13. created' \in Nat /\ created' <= Count(d)
  BY <1>0, <1>1
<1>14. division' = d /\ writes' = writes /\ result_matrix' = result_matrix
  BY <1>1
<1>15. writes \in [Filter!Elements -> Nat] /\ DOMAIN result_matrix = Filter!Elements
  BY DEF WorkInv
<1>16. d \in 1 .. 4 /\ d # 4
  BY <1>0
<1>17. WorkInv'
  BY <1>2, <1>4, <1>10, <1>11, <1>12, <1>13, <1>14, <1>15, <1>16 DEF WorkInv
<1>18. QED
  BY <1>9, <1>17

LEMMA ComputeStep == ASSUME WorkInv, ResultInv, NEW t \in DOMAIN next, Filter!Compute(t)
                     PROVE  WorkInv' /\ ResultInv'
<1> DEFINE d == division
           e == next[t]
<1>1. /\ e \in Filter!Share(d)[t]
      /\ result_matrix' = [result_matrix EXCEPT ![e]
             = Filter!ConvolutionOnElement(Filter!Row(e), Filter!Col(e))]
      /\ writes' = [writes EXCEPT ![e] = writes[e] + 1]
      /\ next' = [next EXCEPT ![t] = e + 1]
      /\ UNCHANGED <<m, division, created>>
  BY DEF Filter!Compute, Filter!Running
<1>2. d \in 1 .. 3 /\ created \in Nat /\ SizesOK
  <2>1. created # 0
    BY DEF WorkInv
  <2>2. QED
    BY <2>1 DEF WorkInv
<1>3. /\ t \in Filter!Threads(d) /\ e \in Filter!Elements /\ e \in From(d, t) .. Upto(d, t) - 1
      /\ Filter!Share(d)[t] = From(d, t) .. Upto(d, t) - 1
      /\ Filter!Share(d)[t] \subseteq Filter!Elements /\ From(d, t) \in Nat /\ Upto(d, t) \in Nat
      /\ \A u \in Filter!Threads(d) : u # t => Filter!Share(d)[t] \cap Filter!Share(d)[u] = {}
  BY <1>1, <1>2, OwnElements
<1>4. /\ SizesOK' /\ Filter!Elements' = Filter!Elements
      /\ \A x : Filter!Share(x)' = Filter!Share(x)
               /\ \A y : From(x, y)' = From(x, y) /\ Upto(x, y)' = Upto(x, y)
      /\ Count(division)' = Count(d)
  BY <1>1, <1>2 DEF SizesOK, Filter!Elements, Filter!Share, From, Upto, Count
<1>5. /\ DOMAIN next' = DOMAIN next /\ next'[t] = e + 1
      /\ \A u \in DOMAIN next : u # t => next'[u] = next[u]
  BY <1>1
<1>6. /\ writes' \in [Filter!Elements -> Nat] /\ DOMAIN result_matrix' = Filter!Elements
      /\ \A x \in Filter!Elements : x # e
              => writes'[x] = writes[x] /\ result_matrix'[x] = result_matrix[x]
      /\ result_matrix'[e] = Filter!ConvolutionOnElement(Filter!Row(e), Filter!Col(e))
  BY <1>1, <1>3 DEF WorkInv
<1>7. writes'[e] = 1
  <2>1. writes[e] = IF e < next[t] THEN 1 ELSE 0
    BY <1>1, <1>2 DEF WorkInv
  <2>2. ~ (e < next[t])
    BY <1>3
  <2>3. QED
    BY <1>1, <1>3, <2>1, <2>2 DEF WorkInv
<1>8. \A u \in DOMAIN next : next'[u] \in From(d, u) .. Upto(d, u)
  <2> SUFFICES ASSUME NEW u \in DOMAIN next PROVE next'[u] \in From(d, u) .. Upto(d, u)
    OBVIOUS
  <2>1. CASE u = t
    BY <2>1, <1>3, <1>5
  <2>2. CASE u # t
    BY <2>2, <1>2, <1>3, <1>5 DEF WorkInv
  <2>3. QED
    BY <2>1, <2>2
<1>9. \A u \in DOMAIN next : \A x \in Filter!Share(d)[u] :
           writes'[x] = IF x < next'[u] THEN 1 ELSE 0
  <2> SUFFICES ASSUME NEW u \in DOMAIN next, NEW x \in Filter!Share(d)[u]
               PROVE  writes'[x] = IF x < next'[u] THEN 1 ELSE 0
    OBVIOUS
  <2>1. u \in Filter!Threads(d) /\ x \in Filter!Elements
    BY <1>2, OwnElements
  <2>2. writes[x] = IF x < next[u] THEN 1 ELSE 0
    BY <1>2 DEF WorkInv
  <2>3. CASE u # t
    BY <2>1, <2>2, <2>3, <1>1, <1>3, <1>5, <1>6
  <2>4. CASE u = t
    <3>1. x \in Int /\ e \in Int
      BY <1>3, <2>4
    <3>2. CASE x = e
      BY <3>1, <3>2, <2>4, <1>5, <1>7
    <3>3. CASE x # e
      BY <3>1, <3>3, <2>1, <2>2, <2>4, <1>5, <1>6
    <3>4. QED
      BY <3>2, <3>3
  <2>5. QED
    BY <2>3, <2>4
<1>10. \A x \in Filter!Elements : (\A u \in DOMAIN next : x \notin Filter!Share(d)[u])
            => writes'[x] = 0
  BY <1>1, <1>6 DEF WorkInv
<1>11. ResultInv'
  <2> SUFFICES ASSUME NEW x \in Filter!Elements, writes'[x] # 0
               PROVE  result_matrix'[x] = Filter!ConvolutionOnElement(Filter!Row(x), Filter!Col(x))'
    BY <1>4 DEF ResultInv
  <2>1. Filter!ConvolutionOnElement(Filter!Row(x), Filter!Col(x))'
            = Filter!ConvolutionOnElement(Filter!Row(x), Filter!Col(x))
    BY <1>1, SameValue
  <2>2. CASE x = e
    BY <2>1, <2>2, <1>6
  <2>3. CASE x # e
    BY <2>1, <2>3, <1>6 DEF ResultInv
  <2>4. QED
    BY <2>2, <2>3
<1>12. QED
  BY <1>1, <1>2, <1>4, <1>5, <1>6, <1>8, <1>9, <1>10, <1>11 DEF WorkInv

LEMMA NextCaseStep == ASSUME WorkInv, ResultInv, Filter!NextCase PROVE WorkInv' /\ ResultInv'
<1>1. /\ division' = division + 1 /\ created' = 0 /\ next' = [t \in {} |-> 0]
      /\ writes' = [e \in Filter!Elements |-> 0]
      /\ UNCHANGED <<m, result_matrix>> /\ division \in 1 .. 3
  BY DEF Filter!NextCase, Filter!Joined
<1>2. Filter!Elements' = Filter!Elements /\ SizesOK'
  BY <1>1 DEF Filter!Elements, SizesOK, WorkInv
<1>3. DOMAIN next' = {} /\ 0 .. created' - 1 = {} /\ division' \in 1 .. 4
  BY <1>1
<1>4. division' <= 3 => created' <= Count(division)'
  <2>1. PICK k \in 2 .. 4 : k = division + 1
    BY <1>1
  <2>2. Count(division)' = Count(k)
    BY <1>1, <2>1 DEF Count
  <2>3. k <= 3 => Count(k) \in Nat
    BY Intervals DEF WorkInv
  <2>4. QED
    BY <2>1, <2>2, <2>3, <1>1
<1>5. ResultInv'
  BY <1>1, <1>2 DEF ResultInv
<1>6. \A e \in Filter!Elements' : writes'[e] = 0
  BY <1>1, <1>2
<1>7. writes' \in [Filter!Elements' -> Nat] /\ DOMAIN result_matrix' = Filter!Elements'
  BY <1>1, <1>2 DEF WorkInv
<1>8. (division' = 4 => created' = 0) /\ created' \in Nat
  BY <1>1
<1>9. QED
  BY <1>2, <1>3, <1>4, <1>5, <1>6, <1>7, <1>8 DEF WorkInv

LEMMA WorkStep == ASSUME WorkInv, ResultInv, [Filter!Next]_(Filter!vars)
                  PROVE  WorkInv' /\ ResultInv'
<1>1. CASE UNCHANGED Filter!vars
  <2>1. UNCHANGED <<m, division, created, next, result_matrix, writes>>
    BY <1>1 DEF Filter!vars
  <2>2. WorkInv'
    BY <2>1 DEF WorkInv, SizesOK, Filter!Elements, Filter!Share, From, Upto, Count
  <2>3. ResultInv'
    BY <2>1, SameValue DEF ResultInv, Filter!Elements
  <2>4. QED
    BY <2>2, <2>3
<1>2. QED
  BY <1>1, CreateStep, ComputeStep, NextCaseStep DEF Filter!Next

\* When the threads of a case have been joined all its elements are written.
LEMMA AllWritten == ASSUME WorkInv, Filter!Joined PROVE \A e \in Filter!Elements : writes[e] = 1
<1> DEFINE d == division
<1> SUFFICES ASSUME NEW e \in Filter!Elements PROVE writes[e] = 1
  OBVIOUS
<1>1. d \in 1 .. 3 /\ SizesOK /\ created = Count(d)
  BY HowMany DEF Filter!Joined, WorkInv
<1>2. Filter!Threads(d) = 0 .. Count(d) - 1 /\ DOMAIN next = Filter!Threads(d)
  BY <1>1, Intervals DEF WorkInv
<1>3. PICK t \in Filter!Threads(d) : e \in Filter!Share(d)[t]
  BY <1>1, Partition
<1>4. Filter!Share(d)[t] = From(d, t) .. Upto(d, t) - 1 /\ From(d, t) \in Nat
      /\ Upto(d, t) \in Nat
  BY <1>1, Intervals
<1>5. next[t] \in From(d, t) .. Upto(d, t) /\ writes[e] = IF e < next[t] THEN 1 ELSE 0
  BY <1>1, <1>2, <1>3 DEF WorkInv
<1>6. next[t] \notin Filter!Share(d)[t]
  BY <1>2, <1>3 DEF Filter!Joined, Filter!Running
<1>7. next[t] = Upto(d, t)
  BY <1>4, <1>5, <1>6
<1>8. QED
  BY <1>3, <1>4, <1>5, <1>7

\* While a case is running nothing has been written twice.
LEMMA NotTwice == ASSUME WorkInv, NEW e \in Filter!Elements PROVE writes[e] <= 1
<1>1. CASE division \in 1 .. 3 /\ \E t \in DOMAIN next : e \in Filter!Share(division)[t]
  <2>1. writes[e] = 1 \/ writes[e] = 0
    BY <1>1 DEF WorkInv
  <2>2. QED
    BY <2>1
<1>2. CASE division = 4 \/ \A t \in DOMAIN next : e \notin Filter!Share(division)[t]
  <2>1. division = 4 => DOMAIN next = {}
    BY DEF WorkInv
  <2>2. writes[e] = 0
    BY <1>2, <2>1 DEF WorkInv
  <2>3. QED
    BY <2>2
<1>3. QED
  BY <1>1, <1>2 DEF WorkInv
-----------------------------------------------------------------------------
(***************************************************************************)
(* Sums over finite sets, and the value of the filter at an element.       *)
(***************************************************************************)
\* The element of a set that is added first.
One(s) == CHOOSE x \in s : TRUE

SumOf(f, g, s) == IF s = {} THEN 0 ELSE f[One(s)] + g[s \ {One(s)}]

\* g holds the sums of f over the subsets of S.
SumTable(g, f, S) == g = [s \in SUBSET S |-> SumOf(f, g, s)]

LEMMA OneIn == \A s : s # {} => One(s) \in s
  BY DEF One

LEMMA NatSet == ASSUME NEW Q \in SUBSET Nat, 0 \in Q, \A n \in Q : n + 1 \in Q
                PROVE  Q = Nat
<1> DEFINE U == Nat \ Q
           R == {ss \in Nat \X Nat : ss[1] < ss[2]}
<1> SUFFICES ASSUME U # {} PROVE FALSE
  OBVIOUS
<1>1. U \subseteq Nat
  OBVIOUS
<1>2. IsWellFoundedOn(R, Nat)
  BY NatLessThanWellFounded DEF OpToRel
<1> HIDE DEF R, U
<1>3. PICK u \in U : \A v \in U : <<v, u>> \notin R
  BY <1>1, <1>2, WFMin
<1>4. u \in Nat /\ u # 0
  BY <1>3 DEF U
<1>5. u - 1 \in Nat /\ (u - 1) + 1 = u /\ u - 1 < u
  BY <1>4
<1>6. u - 1 \notin U
  BY <1>3, <1>4, <1>5 DEF R
<1>7. u - 1 \in Q
  BY <1>5, <1>6 DEF U
<1>8. QED
  BY <1>3, <1>5, <1>7 DEF U

LEMMA SetInduction ==
  ASSUME NEW S, IsFiniteSet(S), NEW Q, \A s \in SUBSET S : (\A x \in s : s \ {x} \in Q) => s \in Q
  PROVE  SUBSET S \subseteq Q
<1> DEFINE N == {n \in Nat : \A s \in SUBSET S : Cardinality(s) = n => s \in Q}
<1>1. \A s \in SUBSET S : /\ IsFiniteSet(s) /\ Cardinality(s) \in Nat
                          /\ Cardinality(s) = 0 => s = {}
                          /\ \A x \in s : Cardinality(s \ {x}) = Cardinality(s) - 1
  BY FS_Subset, FS_CardinalityType, FS_EmptySet, FS_RemoveElement
<1>2. 0 \in N
  BY <1>1
<1>3. ASSUME NEW n \in N PROVE n + 1 \in N
  <2> SUFFICES ASSUME NEW s \in SUBSET S, Cardinality(s) = n + 1 PROVE s \in Q
    OBVIOUS
  <2>1. ASSUME NEW x \in s PROVE s \ {x} \in Q
    <3>1. Cardinality(s \ {x}) = n
      BY <1>1
    <3>2. QED
      BY <3>1
  <2>2. QED
    BY <2>1
<1>4. N = Nat
  <2> HIDE DEF N
  <2>1. N \subseteq Nat
    BY DEF N
  <2>2. QED
    BY <1>2, <1>3, <2>1, NatSet
<1>5. QED
  BY <1>1, <1>4

LEMMA TableExists ==
  ASSUME NEW S, IsFiniteSet(S), NEW f
  PROVE  \E g : SumTable(g, f, S)
<1> DEFINE Sub(n) == {s \in SUBSET S : Cardinality(s) <= n}
           N == {n \in Nat : \E g : g = [s \in Sub(n) |-> SumOf(f, g, s)]}
<1>1. \A s \in SUBSET S : /\ IsFiniteSet(s) /\ Cardinality(s) \in Nat
                          /\ Cardinality(s) <= Cardinality(S)
                          /\ Cardinality(s) = 0 => s = {}
                          /\ \A x \in s : Cardinality(s \ {x}) = Cardinality(s) - 1
  BY FS_Subset, FS_CardinalityType, FS_EmptySet, FS_RemoveElement
<1>2. 0 \in N
  <2> DEFINE g == [s \in Sub(0) |-> 0]
  <2>1. \A s \in Sub(0) : SumOf(f, g, s) = 0
    BY <1>1 DEF SumOf
  <2>2. g = [s \in Sub(0) |-> SumOf(f, g, s)]
    BY <2>1
  <2>3. QED
    BY <2>2
<1>3. ASSUME NEW n \in N PROVE n + 1 \in N
  <2>1. PICK g : g = [s \in Sub(n) |-> SumOf(f, g, s)]
    OBVIOUS
  <2> DEFINE h == [s \in Sub(n + 1) |-> SumOf(f, g, s)]
  <2>2. ASSUME NEW s \in Sub(n + 1), s # {} PROVE s \ {One(s)} \in Sub(n)
    <3>1. One(s) \in s
      BY <2>2, OneIn
    <3>2. Cardinality(s \ {One(s)}) = Cardinality(s) - 1 /\ Cardinality(s) \in Nat
      BY <3>1, <1>1
    <3>3. QED
      BY <3>2
  <2>3. ASSUME NEW s \in Sub(n) PROVE g[s] = h[s]
    <3>1. s \in Sub(n + 1)
      BY <1>1
    <3>2. g[s] = SumOf(f, g, s)
      BY <2>1
    <3>3. QED
      BY <3>1, <3>2
  <2> HIDE DEF h
  <2>4. ASSUME NEW s \in Sub(n + 1) PROVE SumOf(f, g, s) = SumOf(f, h, s)
    BY <2>2, <2>3 DEF SumOf
  <2>5. h = [s \in Sub(n + 1) |-> SumOf(f, h, s)]
    BY <2>4 DEF h
  <2>6. \E k : k = [s \in Sub(n + 1) |-> SumOf(f, k, s)]
    BY <2>5
  <2> HIDE DEF Sub
  <2>7. QED
    BY <2>6
<1>4. N = Nat
  <2> HIDE DEF N
  <2>1. N \subseteq Nat
    BY DEF N
  <2>2. QED
    BY <1>2, <1>3, <2>1, NatSet
<1>5. Cardinality(S) \in Nat /\ Sub(Cardinality(S)) = SUBSET S
  BY <1>1, FS_CardinalityType
<1>6. PICK g : g = [s \in Sub(Cardinality(S)) |-> SumOf(f, g, s)]
  BY <1>4, <1>5
<1>7. SumTable(g, f, S)
  BY <1>5, <1>6 DEF SumTable
<1>8. QED
  BY <1>7

\* The sums are integers, and any element may be added first.
LEMMA SumAny ==
  ASSUME NEW S, IsFiniteSet(S), NEW f \in [S -> Int], NEW g, SumTable(g, f, S)
  PROVE  /\ g[{}] = 0
         /\ \A s \in SUBSET S : g[s] \in Int
         /\ \A s \in SUBSET S : \A y \in s : g[s] = f[y] + g[s \ {y}]
<1>1. \A s \in SUBSET S : g[s] = SumOf(f, g, s)
  BY DEF SumTable
<1>2. g[{}] = 0
  BY <1>1 DEF SumOf
<1>3. ASSUME NEW s \in SUBSET S, s # {}
      PROVE  One(s) \in s /\ f[One(s)] \in Int /\ g[s] = f[One(s)] + g[s \ {One(s)}]
  BY <1>1, <1>3, OneIn DEF SumOf
<1> DEFINE I == {s \in SUBSET S : g[s] \in Int}
<1>4. ASSUME NEW s \in SUBSET S, \A x \in s : s \ {x} \in I PROVE s \in I
  <2>1. CASE s = {}
    BY <1>2, <2>1
  <2>2. CASE s # {}
    <3>1. One(s) \in s /\ f[One(s)] \in Int /\ g[s] = f[One(s)] + g[s \ {One(s)}]
      BY <1>3, <2>2
    <3>2. g[s \ {One(s)}] \in Int
      BY <1>4, <3>1
    <3>3. g[s] \in Int
      BY ONLY <3>1, <3>2
    <3>4. QED
      BY <3>3
  <2>3. QED
    BY <2>1, <2>2
<1>5. SUBSET S \subseteq I
  <2> HIDE DEF I
  <2>1. QED
    BY <1>4, SetInduction
<1>6. \A s \in SUBSET S : g[s] \in Int
  BY <1>5
<1> DEFINE Q == {s \in SUBSET S : \A y \in s : g[s] = f[y] + g[s \ {y}]}
<1>7. ASSUME NEW s \in SUBSET S, \A x \in s : s \ {x} \in Q PROVE s \in Q
  <2> SUFFICES ASSUME NEW y \in s PROVE g[s] = f[y] + g[s \ {y}]
    OBVIOUS
  <2> DEFINE x == One(s)
  <2>1. x \in s /\ f[x] \in Int /\ g[s] = f[x] + g[s \ {x}]
    BY <1>3
  <2>2. CASE x = y
    BY <2>1, <2>2
  <2>3. CASE x # y
    <3> HIDE DEF x
    <3>1. x \in s \ {y} /\ y \in s \ {x} /\ (s \ {x}) \ {y} = (s \ {y}) \ {x}
      BY <2>1, <2>3
    <3>2. g[s \ {x}] = f[y] + g[(s \ {x}) \ {y}]
      BY <1>7, <2>1, <3>1
    <3>3. g[s \ {y}] = f[x] + g[(s \ {y}) \ {x}]
      BY <1>7, <2>1, <3>1
    <3>4. f[y] \in Int /\ g[(s \ {x}) \ {y}] \in Int
      BY <1>6
    <3> DEFINE z == g[(s \ {x}) \ {y}]
               a == f[x]
               b == f[y]
    <3>5. g[s] = a + (b + z) /\ g[s \ {y}] = a + z /\ a \in Int /\ b \in Int /\ z \in Int
      BY <2>1, <3>1, <3>2, <3>3, <3>4
    <3> HIDE DEF z, a
    <3>6. a + (b + z) = b + (a + z)
      BY <3>5
    <3>7. QED
      BY <3>5, <3>6
  <2>4. QED
    BY <2>2, <2>3
<1>8. SUBSET S \subseteq Q
  <2> HIDE DEF Q
  <2>1. QED
    BY <1>7, SetInduction
<1>9. QED
  BY <1>2, <1>6, <1>8

\* A sum does not change when its elements get other names and zeros are left
\* out.
LEMMA SumTransfer ==
  ASSUME NEW S, IsFiniteSet(S), NEW f \in [S -> Int], NEW g, SumTable(g, f, S),
         NEW T, IsFiniteSet(T), NEW k \in [T -> Int], NEW h, SumTable(h, k, T),
         NEW i, \A q, r \in T : i[q] = i[r] => q = r,
         \A q \in T : k[q] = IF i[q] \in S THEN f[i[q]] ELSE 0,
         \A p \in S : \E q \in T : i[q] = p
  PROVE  h[T] = g[S]
<1> DEFINE Named(t) == {i[q] : q \in t} \cap S
           Q == {t \in SUBSET T : h[t] = g[Named(t)]}
<1>0. /\ g[{}] = 0 /\ \A s \in SUBSET S : \A y \in s : g[s] = f[y] + g[s \ {y}]
      /\ h[{}] = 0 /\ \A t \in SUBSET T : \A y \in t : h[t] = k[y] + h[t \ {y}]
      /\ \A t \in SUBSET T : h[t] \in Int
  BY SumAny
<1>1. ASSUME NEW t \in SUBSET T, \A q \in t : t \ {q} \in Q PROVE t \in Q
  <2>1. CASE t = {}
    <3>1. Named(t) = {}
      BY <2>1
    <3>2. QED
      BY <2>1, <3>1, <1>0
  <2>2. CASE t # {}
    <3>1. PICK q \in t : TRUE
      BY <2>2
    <3>2. h[t] = k[q] + h[t \ {q}] /\ h[t \ {q}] \in Int
      BY <3>1, <1>0
    <3>3. h[t \ {q}] = g[Named(t \ {q})]
      BY <1>1, <3>1
    <3>4. CASE i[q] \in S
      <4>1. Named(t) \in SUBSET S /\ i[q] \in Named(t) /\ Named(t) \ {i[q]} = Named(t \ {q})
        BY <3>1, <3>4
      <4>2. g[Named(t)] = f[i[q]] + g[Named(t) \ {i[q]}]
        BY <4>1, <1>0
      <4>3. k[q] = f[i[q]]
        BY <3>1, <3>4
      <4>4. h[t] = g[Named(t)]
        BY <3>2, <3>3, <4>1, <4>2, <4>3
      <4>5. QED
        BY <4>4
    <3>5. CASE i[q] \notin S
      <4>1. Named(t) = Named(t \ {q})
        BY <3>1, <3>5
      <4>2. k[q] = 0
        BY <3>5
      <4>3. h[t] = h[t \ {q}]
        BY <3>2, <4>2
      <4>4. h[t] = g[Named(t)]
        BY <3>3, <4>1, <4>3
      <4>5. QED
        BY <4>4
    <3>6. QED
      BY <3>4, <3>5
  <2>3. QED
    BY <2>1, <2>2
<1>2. T \in Q
  <2> HIDE DEF Q
  <2>1. QED
    BY <1>1, SetInduction
<1>3. Named(T) = S
  OBVIOUS
<1>4. QED
  BY <1>2, <1>3

\* What ConvolutionOnElement and the reference add up.
InImage(row, col) == {p \in Filter!Around(m.filtered_rows) \X Filter!Around(m.filtered_cols) :
                        row + p[1] \in 0 .. m.rows - 1 /\ col + p[2] \in 0 .. m.cols - 1}
Weighted(row, col, p) ==
  m.filter[(p[1] + m.filtered_rows \div 2) * m.filtered_cols + p[2] + m.filtered_cols \div 2]
    * m.matrix[(row + p[1]) * m.cols + col + p[2]]

Weights == (0 .. m.filtered_rows - 1) \X (0 .. m.filtered_cols - 1)
Referred(row, col, q) ==
  m.filter[q[1] * m.filtered_cols + q[2]]
    * Filter!Image(row + q[1] - m.filtered_rows \div 2, col + q[2] - m.filtered_cols \div 2)

LEMMA ElementTable ==
  ASSUME NEW row, NEW col, NEW S, IsFiniteSet(S), S = InImage(row, col),
         NEW f, f = [p \in S |-> Weighted(row, col, p)]
  PROVE  \E g : SumTable(g, f, S) /\ Filter!ConvolutionOnElement(row, col) = g[S]
<1> DEFINE Table(g) == [s \in SUBSET S |-> IF s = {} THEN 0
                                           ELSE Weighted(row, col, One(s)) + g[s \ {One(s)}]]
           G == CHOOSE g : g = Table(g)
<1>1. Filter!ConvolutionOnElement(row, col) = G[S]
  BY DEF Filter!ConvolutionOnElement, Filter!MapThenSumSet, Filter!MapThenFoldSet, One, InImage,
         Weighted
<1>2. \A g : Table(g) = [s \in SUBSET S |-> SumOf(f, g, s)]
  <2> SUFFICES ASSUME NEW g PROVE Table(g) = [s \in SUBSET S |-> SumOf(f, g, s)]
    OBVIOUS
  <2>1. \A s \in SUBSET S : s # {} => f[One(s)] = Weighted(row, col, One(s))
    BY OneIn
  <2>2. QED
    BY <2>1 DEF SumOf
<1> HIDE DEF Table
<1>3. \E g : g = Table(g)
  <2>1. PICK g : SumTable(g, f, S)
    BY TableExists
  <2>2. g = Table(g)
    BY <1>2, <2>1 DEF SumTable
  <2>3. QED
    BY <2>2
<1>4. G = Table(G)
  BY <1>3
<1> HIDE DEF G
<1>5. SumTable(G, f, S)
  BY <1>2, <1>4 DEF SumTable
<1>6. QED
  BY <1>1, <1>5

LEMMA ReferenceTable ==
  ASSUME NEW row, NEW col, NEW T, IsFiniteSet(T), T = Weights,
         NEW k, k = [q \in T |-> Referred(row, col, q)]
  PROVE  \E h : SumTable(h, k, T) /\ Filter!Reference(row, col) = h[T]
<1> DEFINE Table(h) == [s \in SUBSET T |-> IF s = {} THEN 0
                                           ELSE Referred(row, col, One(s)) + h[s \ {One(s)}]]
           H == CHOOSE h : h = Table(h)
<1>1. Filter!Reference(row, col) = H[T]
  BY DEF Filter!Reference, Filter!MapThenSumSet, Filter!MapThenFoldSet, One, Weights, Referred
<1>2. \A h : Table(h) = [s \in SUBSET T |-> SumOf(k, h, s)]
  <2> SUFFICES ASSUME NEW h PROVE Table(h) = [s \in SUBSET T |-> SumOf(k, h, s)]
    OBVIOUS
  <2>1. \A s \in SUBSET T : s # {} => k[One(s)] = Referred(row, col, One(s))
    BY OneIn
  <2>2. QED
    BY <2>1 DEF SumOf
<1> HIDE DEF Table
<1>3. \E h : h = Table(h)
  <2>1. PICK h : SumTable(h, k, T)
    BY TableExists
  <2>2. h = Table(h)
    BY <1>2, <2>1 DEF SumTable
  <2>3. QED
    BY <2>2
<1>4. H = Table(H)
  BY <1>3
<1> HIDE DEF H
<1>5. SumTable(H, k, T)
  BY <1>2, <1>4 DEF SumTable
<1>6. QED
  BY <1>1, <1>5

\* The image and the filter have all their numbers, the filter has a middle.
ImageOK ==
  /\ SizesOK
  /\ m.filtered_rows \in Nat /\ m.filtered_rows % 2 = 1
  /\ m.filtered_cols \in Nat /\ m.filtered_cols % 2 = 1
  /\ \A e \in Filter!Elements : m.matrix[e] \in Int
  /\ \A e \in 0 .. m.filtered_rows * m.filtered_cols - 1 : m.filter[e] \in Int

\* An odd number of weights is what the loop runs over.
LEMMA Odd == ASSUME NEW n \in Nat, n % 2 = 1
             PROVE  /\ n \div 2 \in Nat /\ n = 2 * (n \div 2) + 1
                    /\ Filter!Around(n) = - (n \div 2) .. n \div 2
  BY DEF Filter!Around

\* A place in an array of rows.
LEMMA Place == ASSUME NEW r \in Nat, NEW c \in Nat, NEW i \in 0 .. r - 1, NEW j \in 0 .. c - 1
               PROVE  i * c + j \in 0 .. r * c - 1
<1>1. i + 1 \in Nat /\ i + 1 <= r /\ i \in Nat
  OBVIOUS
<1>2. (i + 1) * c <= r * c /\ (i + 1) * c = i * c + c /\ i * c \in Nat /\ r * c \in Nat
  BY <1>1, Monotone
<1>3. QED
  BY <1>2

\* At every element ConvolutionOnElement adds up what the filter centred there
\* says, the image being continued by zeros.
LEMMA Filtered ==
  ASSUME ImageOK, NEW row \in Int, NEW col \in Int
  PROVE  Filter!ConvolutionOnElement(row, col) = Filter!Reference(row, col)
<1> DEFINE fr == m.filtered_rows
           fc == m.filtered_cols
           hr == fr \div 2
           hc == fc \div 2
           S == InImage(row, col)
           T == Weights
           f == [p \in S |-> Weighted(row, col, p)]
           k == [q \in T |-> Referred(row, col, q)]
           i == [q \in T |-> <<q[1] - hr, q[2] - hc>>]
<1>0. /\ Filter!Around(fr) = - hr .. hr /\ Filter!Around(fc) = - hc .. hc
      /\ m.rows \in Nat /\ m.cols \in Nat
  BY Odd DEF ImageOK, SizesOK
<1>1. fr \in Nat /\ fc \in Nat /\ hr \in Nat /\ hc \in Nat /\ fr = 2 * hr + 1 /\ fc = 2 * hc + 1
  BY Odd DEF ImageOK, SizesOK
<1> HIDE DEF fr, fc, hr, hc, S, T, f, k, i
<1>2. IsFiniteSet(S) /\ IsFiniteSet(T)
  <2>1. IsFiniteSet(- hr .. hr) /\ IsFiniteSet(- hc .. hc) /\ IsFiniteSet(0 .. fr - 1)
        /\ IsFiniteSet(0 .. fc - 1)
    <3>1. - hr \in Int /\ hr \in Int /\ - hc \in Int /\ hc \in Int /\ fr - 1 \in Int
          /\ fc - 1 \in Int
      BY <1>1
    <3>2. QED
      BY ONLY <3>1, FS_Interval, 0 \in Int
  <2>2. IsFiniteSet((- hr .. hr) \X (- hc .. hc)) /\ IsFiniteSet(T)
    BY <2>1, FS_Product DEF T, Weights, fr, fc
  <2>3. S \in SUBSET ((- hr .. hr) \X (- hc .. hc))
    BY <1>0, <1>1 DEF S, InImage, fr, fc
  <2>4. QED
    BY <2>2, <2>3, FS_Subset
<1>3. ASSUME NEW p \in S
      PROVE  /\ p[1] \in - hr .. hr /\ p[2] \in - hc .. hc /\ p = <<p[1], p[2]>>
             /\ row + p[1] \in 0 .. m.rows - 1 /\ col + p[2] \in 0 .. m.cols - 1
  BY <1>0, <1>1 DEF S, InImage, fr, fc
<1>4. \A q \in T : q[1] \in 0 .. fr - 1 /\ q[2] \in 0 .. fc - 1 /\ q = <<q[1], q[2]>>
  BY DEF T, Weights, fr, fc
<1>5. ASSUME NEW q \in T
      PROVE  /\ i[q] = <<q[1] - hr, q[2] - hc>>
             /\ i[q][1] = q[1] - hr /\ i[q][2] = q[2] - hc
             /\ q[1] - hr \in - hr .. hr /\ q[2] - hc \in - hc .. hc
             /\ (q[1] - hr) + hr = q[1] /\ (q[2] - hc) + hc = q[2]
             /\ q[1] \in Int /\ q[2] \in Int
  <2>1. i[q] = <<q[1] - hr, q[2] - hc>>
    BY DEF i
  <2>2. q[1] \in 0 .. fr - 1 /\ q[2] \in 0 .. fc - 1
    BY <1>4
  <2>3. QED
    BY <1>1, <2>1, <2>2
<1>6. \A q, r \in T : i[q] = i[r] => q = r
  <2> SUFFICES ASSUME NEW q \in T, NEW r \in T, i[q] = i[r] PROVE q = r
    OBVIOUS
  <2>1. q[1] - hr = r[1] - hr /\ q[2] - hc = r[2] - hc
    BY <1>5
  <2>2. q[1] = r[1] /\ q[2] = r[2]
    BY <2>1, <1>5
  <2>3. QED
    BY <2>2, <1>4
<1>7. \A p \in S : \E q \in T : i[q] = p
  <2> SUFFICES ASSUME NEW p \in S PROVE \E q \in T : i[q] = p
    OBVIOUS
  <2> DEFINE q == <<p[1] + hr, p[2] + hc>>
  <2>1. q[1] = p[1] + hr /\ q[2] = p[2] + hc /\ q[1] \in 0 .. fr - 1 /\ q[2] \in 0 .. fc - 1
    <3>1. p[1] \in - hr .. hr /\ p[2] \in - hc .. hc
      BY <1>3
    <3>2. QED
      BY ONLY <3>1, <1>1
  <2>2. q \in T
    BY <2>1 DEF T, Weights, fr, fc
  <2>3. q[1] - hr = p[1] /\ q[2] - hc = p[2]
    <3>1. p[1] \in - hr .. hr /\ p[2] \in - hc .. hc
      BY <1>3
    <3>2. QED
      BY <2>1, <3>1, <1>1
  <2> HIDE DEF q
  <2>4. i[q] = p
    BY <2>2, <2>3, <1>3, <1>5
  <2>5. QED
    BY <2>2, <2>4
<1>8. \A q \in T : m.filter[q[1] * fc + q[2]] \in Int
  <2> SUFFICES ASSUME NEW q \in T PROVE m.filter[q[1] * fc + q[2]] \in Int
    OBVIOUS
  <2>1. q[1] * fc + q[2] \in 0 .. fr * fc - 1
    BY <1>1, <1>4, Place
  <2>2. QED
    BY <2>1 DEF ImageOK, fr, fc
<1>9. \A x \in 0 .. m.rows - 1, y \in 0 .. m.cols - 1 : m.matrix[x * m.cols + y] \in Int
  <2> SUFFICES ASSUME NEW x \in 0 .. m.rows - 1, NEW y \in 0 .. m.cols - 1
               PROVE  m.matrix[x * m.cols + y] \in Int
    OBVIOUS
  <2>1. x * m.cols + y \in Filter!Elements
    BY <1>0, Place DEF Filter!Elements
  <2>2. QED
    BY <2>1 DEF ImageOK
<1>10. \A q \in T : k[q] = IF i[q] \in S THEN f[i[q]] ELSE 0
  <2> SUFFICES ASSUME NEW q \in T PROVE k[q] = IF i[q] \in S THEN f[i[q]] ELSE 0
    OBVIOUS
  <2> DEFINE x == row + q[1] - hr
             y == col + q[2] - hc
             w == m.filter[q[1] * fc + q[2]]
  <2>1. k[q] = w * Filter!Image(x, y) /\ w \in Int
    <3>1. k[q] = Referred(row, col, q)
      BY DEF k
    <3>2. QED
      BY <3>1, <1>8 DEF Referred, fr, fc, hr, hc
  <2>2. x = row + i[q][1] /\ y = col + i[q][2] /\ x \in Int /\ y \in Int
    BY <1>1, <1>5
  <2>3. i[q] \in S <=> x \in 0 .. m.rows - 1 /\ y \in 0 .. m.cols - 1
    <3>1. i[q] = <<q[1] - hr, q[2] - hc>> /\ q[1] - hr \in - hr .. hr /\ q[2] - hc \in - hc .. hc
      BY <1>5
    <3>2. i[q] \in Filter!Around(fr) \X Filter!Around(fc)
      BY <3>1, <1>0
    <3>3. i[q] \in S <=> row + i[q][1] \in 0 .. m.rows - 1 /\ col + i[q][2] \in 0 .. m.cols - 1
      BY <3>2 DEF S, InImage, fr, fc
    <3>4. QED
      BY <3>3, <2>2
  <2> HIDE DEF x, y, w
  <2>4. CASE i[q] \in S
    <3>1. Filter!Image(x, y) = m.matrix[x * m.cols + y]
      BY <2>3, <2>4 DEF Filter!Image
    <3>2. (i[q][1] + hr) * fc + i[q][2] + hc = q[1] * fc + q[2]
      <4>1. i[q][1] + hr = q[1] /\ i[q][2] = q[2] - hc
        BY <1>5
      <4>2. q[1] * fc \in Int /\ q[2] \in Int /\ hc \in Int
        BY <1>1, <1>5
      <4>3. QED
        BY <4>1, <4>2
    <3>3. (row + i[q][1]) * m.cols + col + i[q][2] = x * m.cols + y
      <4>1. x * m.cols \in Int /\ i[q][2] \in Int
        BY <1>0, <1>5, <2>2
      <4>2. QED
        BY <4>1, <2>2
    <3>4. f[i[q]] = w * m.matrix[x * m.cols + y]
      <4>1. f[i[q]] = Weighted(row, col, i[q])
        BY <2>4 DEF f
      <4>2. QED
        BY <4>1, <3>2, <3>3 DEF Weighted, fr, fc, hr, hc, w
    <3>5. QED
      BY <2>1, <2>4, <3>1, <3>4
  <2>5. CASE i[q] \notin S
    <3>1. Filter!Image(x, y) = 0
      BY <2>3, <2>5 DEF Filter!Image
    <3>2. QED
      BY <2>1, <2>5, <3>1
  <2>6. QED
    BY <2>4, <2>5
<1>11. k \in [T -> Int]
  <2> SUFFICES ASSUME NEW q \in T PROVE Referred(row, col, q) \in Int
    BY DEF k
  <2> DEFINE x == row + q[1] - hr
             y == col + q[2] - hc
  <2>1. Filter!Image(x, y) \in Int
    BY <1>9 DEF Filter!Image
  <2>2. Referred(row, col, q) = m.filter[q[1] * fc + q[2]] * Filter!Image(x, y)
    BY DEF Referred, fr, fc, hr, hc
  <2> HIDE DEF x, y
  <2>3. QED
    BY <2>1, <2>2, <1>8
<1>12. f \in [S -> Int]
  <2> SUFFICES ASSUME NEW p \in S PROVE f[p] \in Int
    BY DEF f
  <2>1. PICK q \in T : i[q] = p
    BY <1>7
  <2>2. f[p] = k[q]
    BY <2>1, <1>10
  <2>3. QED
    BY <2>2, <1>11
<1>13. PICK g : SumTable(g, f, S) /\ Filter!ConvolutionOnElement(row, col) = g[S]
  BY <1>2, ElementTable DEF S, f
<1>14. PICK h : SumTable(h, k, T) /\ Filter!Reference(row, col) = h[T]
  BY <1>2, ReferenceTable DEF T, k
<1>15. h[T] = g[S]
  BY <1>2, <1>6, <1>7, <1>10, <1>11, <1>12, <1>13, <1>14, SumTransfer
<1>16. QED
  BY <1>13, <1>14, <1>15
-----------------------------------------------------------------------------
FilterInv == WorkInv /\ ResultInv /\ ImageOK

LEMMA FilterInit == ASSUME Filter!Init PROVE FilterInv
<1>1. PICK file \in Files : m = Filter!readFile(file)
  BY DEF Filter!Init
<1>2. Filter!WellFormed(file)
  BY ProgramsAssumption
<1>3. ImageOK
  <2>1. /\ m.rows \in Nat /\ m.cols \in Nat
        /\ m.filtered_rows \in Nat /\ m.filtered_rows % 2 = 1
        /\ m.filtered_cols \in Nat /\ m.filtered_cols % 2 = 1
        /\ \A e \in DOMAIN m.matrix : m.matrix[e] \in Int
        /\ \A e \in DOMAIN m.filter : m.filter[e] \in Int
    BY <1>1, <1>2 DEF Filter!WellFormed
  <2>2. /\ DOMAIN m.matrix = 0 .. m.rows * m.cols - 1
        /\ DOMAIN m.filter = 0 .. m.filtered_rows * m.filtered_cols - 1
    BY <1>1 DEF Filter!readFile
  <2>3. QED
    BY <2>1, <2>2 DEF ImageOK, SizesOK, Filter!Elements
<1>4. QED
  BY <1>3, WorkInit DEF FilterInv, ImageOK

LEMMA FilterStep == FilterInv /\ [Filter!Next]_(Filter!vars) => FilterInv'
<1> SUFFICES ASSUME FilterInv, [Filter!Next]_(Filter!vars) PROVE FilterInv'
  OBVIOUS
<1>1. m' = m
  BY DEF Filter!Next, Filter!Create, Filter!Compute, Filter!NextCase, Filter!vars
<1>2. ImageOK'
  BY <1>1 DEF FilterInv, ImageOK, SizesOK, Filter!Elements
<1>3. QED
  BY <1>2, WorkStep DEF FilterInv

\* In each of the three cases every element is computed exactly once, whatever
\* the size of the image and the order of the threads.
THEOREM OneThreadEach == Filter!Spec => []Filter!EachElementOnce
<1>1. Filter!Init => FilterInv
  BY FilterInit
<1>2. FilterInv => Filter!EachElementOnce
  BY AllWritten, NotTwice DEF FilterInv, Filter!EachElementOnce
<1>3. QED
  BY <1>1, <1>2, FilterStep, PTL DEF Filter!Spec

\* What main prints in each of the three cases is the image under the filter,
\* whatever the sizes of both (main, ConvolutionOnElement).
THEOREM ImageFiltered == Filter!Spec => []Filter!PrintsFilteredImage
<1>1. Filter!Init => FilterInv
  BY FilterInit
<1>2. FilterInv => Filter!PrintsFilteredImage
  <2> SUFFICES ASSUME FilterInv, Filter!Joined, NEW e \in Filter!Elements
               PROVE  result_matrix[e] = Filter!Reference(Filter!Row(e), Filter!Col(e))
    BY DEF Filter!PrintsFilteredImage
  <2>1. writes[e] = 1
    BY AllWritten DEF FilterInv
  <2>2. result_matrix[e] = Filter!ConvolutionOnElement(Filter!Row(e), Filter!Col(e))
    BY <2>1 DEF FilterInv, ResultInv
  <2>3. m.rows \in Nat /\ m.cols \in Nat /\ e \in Nat /\ m.cols # 0
    <3>1. m.rows \in Nat /\ m.cols \in Nat
      BY DEF FilterInv, ImageOK, SizesOK
    <3>2. m.cols = 0 => m.rows * m.cols = 0
      BY <3>1
    <3>3. e \in Nat /\ e < m.rows * m.cols
      BY <3>1 DEF Filter!Elements
    <3>4. QED
      BY <3>1, <3>2, <3>3
  <2>4. Filter!Row(e) \in Int /\ Filter!Col(e) \in Int
    BY <2>3 DEF Filter!Row, Filter!Col
  <2>5. QED
    BY <2>2, <2>4, Filtered DEF FilterInv
<1>3. QED
  BY <1>1, <1>2, FilterStep, PTL DEF Filter!Spec
-----------------------------------------------------------------------------
(***************************************************************************)
(* The programs beside each other.                                         *)
(***************************************************************************)
\* A step of one program leaves the variables of the others alone.
LEMMA Alone == MCSpec => Spec /\ Poll!Spec /\ Filter!Spec
<1> USE DEF allVars, mergeVars
<1>1. MCInit => Init /\ Poll!Init /\ Filter!Init
  BY DEF MCInit
<1>2. [MCNext]_allVars => [Next]_vars
  BY DEF MCNext
<1>3. [MCNext]_allVars => [Poll!Next]_(Poll!vars)
  BY DEF MCNext, Poll!vars, Poll!timer, pollVars
<1>4. [MCNext]_allVars => [Filter!Next]_(Filter!vars)
  BY DEF MCNext, Filter!vars, filterVars
<1>5. QED
  BY <1>1, <1>2, <1>3, <1>4, PTL DEF MCSpec, Spec, Poll!Spec, Filter!Spec

\* Also beside the other programs the copier of Lab2-Week2.c keeps pace with
\* its readers.
COROLLARY MergeKeepsPace == MCSpec => []Pace
  BY KeepsPace, Alone, PTL

\* And Process2.c reports a press once per period that it lasts.
COROLLARY EveryPressReported == MCSpec => []ReportsPerPress
  BY PressReported, Alone, PTL

\* In each of the three cases of Lab2-Week1.c every element is computed by
\* exactly one thread, whatever the files hold.
COROLLARY ElementsComputedOnce == MCSpec => []EachElementOnce
  BY OneThreadEach, Alone, PTL DEF EachElementOnce

\* What main of Lab2-Week1.c prints after each case is the filtered image,
\* whatever the files hold.
COROLLARY FilteredImagePrinted == MCSpec => []PrintsFilteredImage
  BY ImageFiltered, Alone, PTL DEF PrintsFilteredImage
=============================================================================
