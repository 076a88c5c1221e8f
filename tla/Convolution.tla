----------------------------- MODULE Convolution -----------------------------
(***************************************************************************)
(* Lab2, week 1: an image is filtered three times, by one thread, by one   *)
(* thread per row and by one thread per element.  The threads share the    *)
(* image, the filter and result_matrix, which is not cleared in between,   *)
(* all stored row by row in arrays that start at 0.                        *)
(***************************************************************************)
EXTENDS Integers, Sequences, FiniteSets, FiniteSetsExt

CONSTANT Files   \* the contents of the input file: a sequence of numbers

VARIABLES
  m,               \* the MatrixConvInfo that readFile has returned
  division,        \* 1, 2 or 3: the case main has come to; 4 when it is done
  created,         \* how many threads of this case main has created
  next,            \* the element each of them computes next
  result_matrix,
  writes           \* history: how often each element was written in this case

vars == <<m, division, created, next, result_matrix, writes>>

\* The numbers of rows and columns of the image, the image, those of the
\* filter, the filter.
readFile(file) ==
  LET size == file[1] * file[2]
  IN  [rows |-> file[1], cols |-> file[2],
       matrix |-> [e \in 0 .. size - 1 |-> file[3 + e]],
       filtered_rows |-> file[size + 3], filtered_cols |-> file[size + 4],
       filter |-> [e \in 0 .. file[size + 3] * file[size + 4] - 1 |-> file[size + 5 + e]]]

\* What the file has to hold: numbers, a filter with a middle, and all that the
\* sizes announce.
WellFormed(file) ==
  LET info == readFile(file)
  IN  /\ info.rows \in Nat /\ info.cols \in Nat
      /\ info.filtered_rows \in Nat /\ info.filtered_rows % 2 = 1
      /\ info.filtered_cols \in Nat /\ info.filtered_cols % 2 = 1
      /\ \A e \in DOMAIN info.matrix : info.matrix[e] \in Int
      /\ \A e \in DOMAIN info.filter : info.filter[e] \in Int

Elements == 0 .. m.rows * m.cols - 1
Row(e) == e \div m.cols
Col(e) == e % m.cols

\* Fault: the loop stops before its last value.
AroundShort(n) == - (n \div 2) .. n \div 2 - 1

\* The loops of ConvolutionOnElement run from - (n / 2) to n / 2.
Around(n) == - (n \div 2) .. n \div 2

ConvolutionOnElement(row, col) ==
  LET Index(p) == (p[1] + m.filtered_rows \div 2) * m.filtered_cols + p[2] + m.filtered_cols \div 2
      Term(p) == m.filter[Index(p)] * m.matrix[(row + p[1]) * m.cols + col + p[2]]
  IN  MapThenSumSet(Term, {p \in Around(m.filtered_rows) \X Around(m.filtered_cols) :
                              row + p[1] \in 0 .. m.rows - 1 /\ col + p[2] \in 0 .. m.cols - 1})

\* Fault: rows and columns are exchanged when the work is divided into rows.
ShareColumns(d) ==
  CASE d = 1 -> [t \in {0} |-> Elements]
    [] d = 2 -> [t \in 0 .. m.cols - 1 |-> {e \in Elements : e \in t * m.rows .. (t + 1) * m.rows}]
    [] d = 3 -> [t \in Elements |-> {t}]

\* The elements of each thread of a case.
Share(d) ==
  CASE d = 1 -> [t \in {0} |-> Elements]
    [] d = 2 -> [t \in 0 .. m.rows - 1 |-> t * m.cols .. (t + 1) * m.cols - 1]
    [] d = 3 -> [t \in Elements |-> {t}]

Threads(d) == DOMAIN Share(d)

Init ==
  /\ \E file \in Files : m = readFile(file)
  /\ division = 1 /\ created = 0 /\ next = [t \in {} |-> 0]
  /\ result_matrix = [e \in Elements |-> "unset"]
  /\ writes = [e \in Elements |-> 0]

\* pthread_create of the next thread of the case.
Create ==
  /\ division \in 1 .. 3
  /\ created < Cardinality(Threads(division))
  /\ created' = created + 1
  /\ next' = [t \in 0 .. created |-> IF t = created THEN Min(Share(division)[t]) ELSE next[t]]
  /\ UNCHANGED <<m, division, result_matrix, writes>>

Running(t) == t \in DOMAIN next /\ next[t] \in Share(division)[t]

\* ConvolutionPerMatrix, ConvolutionPerRow, ConvolutionPerElement: one element.
Compute(t) ==
  /\ Running(t)
  /\ LET e == next[t] IN
       /\ result_matrix' = [result_matrix EXCEPT ![e] = ConvolutionOnElement(Row(e), Col(e))]
       /\ writes' = [writes EXCEPT ![e] = @ + 1]
  /\ next' = [next EXCEPT ![t] = @ + 1]
  /\ UNCHANGED <<m, division, created>>

\* All threads of the case have been created and joined.
Joined ==
  /\ division \in 1 .. 3
  /\ created = Cardinality(Threads(division))
  /\ \A t \in Threads(division) : ~ Running(t)

NextCase ==
  /\ Joined
  /\ division' = division + 1
  /\ created' = 0 /\ next' = [t \in {} |-> 0]
  /\ writes' = [e \in Elements |-> 0]
  /\ UNCHANGED <<m, result_matrix>>

Next == Create \/ (\E t \in DOMAIN next : Compute(t)) \/ NextCase

Spec == Init /\ [][Next]_vars
-----------------------------------------------------------------------------
(***************************************************************************)
(* Properties.                                                             *)
(***************************************************************************)
\* The filter centred on an element, the image continued by zeros.
Image(row, col) ==
  IF row \in 0 .. m.rows - 1 /\ col \in 0 .. m.cols - 1 THEN m.matrix[row * m.cols + col] ELSE 0

Reference(row, col) ==
  LET Term(p) == m.filter[p[1] * m.filtered_cols + p[2]]
                   * Image(row + p[1] - m.filtered_rows \div 2, col + p[2] - m.filtered_cols \div 2)
  IN  MapThenSumSet(Term, (0 .. m.filtered_rows - 1) \X (0 .. m.filtered_cols - 1))

\* What main prints after each case is the filtered image, also with a filter
\* larger than the image (Lab2-Week1.c:34-49).
PrintsFilteredImage ==
  Joined => \A e \in Elements : result_matrix[e] = Reference(Row(e), Col(e))

\* Each division of the work gives every element to exactly one thread: what is
\* printed was computed in this case and not left by the one before, and no two
\* threads write the same element (Lab2-Week1.c:51-87, 206-248).
EachElementOnce ==
  /\ Joined => \A e \in Elements : writes[e] = 1
  /\ \A e \in Elements : writes[e] <= 1
=============================================================================
