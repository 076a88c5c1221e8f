---------------------------- MODULE MCLab2Programs ----------------------------
(***************************************************************************)
(* The two programs of Lab2, and the button process of Lab4, which takes   *)
(* its timer from them.  A behaviour is one of any one of them.            *)
(***************************************************************************)
EXTENDS LineMerge

CONSTANTS
  PollPeriod,   \* the period of the loop of Process2.c
  Late,         \* see ButtonPoll
  MaxTime,      \* see ButtonPoll
  Files         \* see Convolution

VARIABLES
  program,                                             \* the one that is run
  pollNow, pollNext, pollPc, pollStart, pollRuns,      \* ButtonPoll
  pipe, button, held, reports,
  m, division, created, next, result_matrix, writes    \* Convolution

mergeVars == vars
pollVars == <<pollNow, pollNext, pollPc, pollStart, pollRuns, pipe, button, held, reports>>
filterVars == <<m, division, created, next, result_matrix, writes>>
allVars == <<program, mergeVars, pollVars, filterVars>>

\* An image of 2 rows and 3 columns with one element that is not 0, and a
\* filter without equal elements.
ImageFile(at) == <<2, 3>> \o [e \in 1 .. 6 |-> IF e = at THEN 1 ELSE 0]
FilterFile(size) == size \o [e \in 1 .. size[1] * size[2] |-> e]
Sizes == {<<1, 3>>, <<3, 3>>, <<3, 5>>}
MCFiles == {ImageFile(at) \o FilterFile(size) : at \in 1 .. 6, size \in Sizes}

Poll == INSTANCE ButtonPoll WITH
          Task <- {"poll"}, period_ns <- [t \in {"poll"} |-> PollPeriod],
          now <- pollNow, next_period <- pollNext, pc <- pollPc, start <- pollStart, runs <- pollRuns

Filter == INSTANCE Convolution

\* The filters have a middle: with an even number of rows or columns the loops
\* of Lab2-Week1.c take one more than the filter has.
ASSUME ProgramsAssumption ==
  /\ PollPeriod \in Nat \ {0} /\ Late \in Nat
  /\ \A file \in Files : Filter!WellFormed(file)

\* A program that is not run stays in one of its initial states.
MCInit ==
  /\ program \in {"merge", "poll", "filter"}
  /\ Init /\ Poll!Init /\ Filter!Init
  /\ program # "poll" => ~ button
  /\ program # "filter" => m.filtered_rows = 1 /\ m.matrix[0] = 1

MCNext ==
  /\ UNCHANGED program
  /\ \/ program = "merge" /\ Next /\ UNCHANGED <<pollVars, filterVars>>
     \/ program = "poll" /\ Poll!Next /\ UNCHANGED <<mergeVars, filterVars>>
     \/ program = "filter" /\ Filter!Next /\ UNCHANGED <<mergeVars, pollVars>>

MCSpec == MCInit /\ [][MCNext]_allVars /\ WF_mergeVars(program = "merge" /\ Next)
-----------------------------------------------------------------------------
\* The threads of Lab2-Week2.c end, or one of them has ended the process.
MergeEnds == program = "merge" => EveryThreadEnds

\* Process2.c reports a press once per period that it lasts.
ReportsPerPress == Poll!ReportsPerPress

\* Lab2-Week1.c prints the filtered image three times, and computes every
\* element in each case by exactly one thread.
PrintsFilteredImage == Filter!PrintsFilteredImage
EachElementOnce == Filter!EachElementOnce
=============================================================================
