-------------------------------- MODULE Lcs ---------------------------------
(***************************************************************************)
(* src/project4/3way-pthread/p4_pth.c: the lines of a file are compared,   *)
(* each with the next, by threads that divide the lines between them.      *)
(* Lines and threads are numbered from 0, as in the code.                  *)
(***************************************************************************)
EXTENDS Integers, Sequences, SequencesExt, FiniteSetsExt

CONSTANTS
  NUM_THREADS,
  NUM_LINES,         \* a multiple of NUM_THREADS, as 10000 is of 16
  LINE_LENGTH,       \* bytes a line is read into, the terminator included
  Files              \* the files considered: sequences of lines with their newlines

VARIABLES
  data,              \* the lines read; the array's other lines are empty
  lcs_data,          \* the results, <<>> before they are written
  worker,            \* for each thread: where it is, its next line and its end
  main,              \* where the main thread is, and the next thread it deals with
  past               \* an access outside data or lcs_data was made

lcsvars == <<data, lcs_data, worker, main, past>>

NUM_LINES_PER_THREAD == NUM_LINES \div NUM_THREADS

Thread == 0 .. NUM_THREADS - 1

actual_num_lines == Len(data)

\* The number of the last line, an unsigned difference: without lines it wraps around to
\* 2^32 - 1, here any number beyond the arrays.
LastLine == IF actual_num_lines = 0 THEN 2 * NUM_LINES ELSE actual_num_lines - 1

Line(i) == IF i < actual_num_lines THEN data[i + 1] ELSE <<>>

\* fgets keeps the newline and reads at most LINE_LENGTH - 1 bytes: what is left of a line
\* is the next one.
RECURSIVE Pieces(_)
Pieces(text) ==
  IF Len(text) < LINE_LENGTH THEN <<text>>
  ELSE <<SubSeq(text, 1, LINE_LENGTH - 1)>>
         \o Pieces(SubSeq(text, LINE_LENGTH, Len(text)))

open_file(file) ==
  LET lines == FoldLeft(LAMBDA ls, text : ls \o Pieces(text), <<>>, file)
  IN  SubSeq(lines, 1, Min({Len(lines), NUM_LINES}))

\* Mutant: equal characters always extend the previous pair's substring by one, whether or
\* not it ended there.
lcs_dynamic_subsequence(a, b) ==
  LET lens[i \in 0 .. Len(a), j \in 0 .. Len(b)] ==
        IF i = 0 \/ j = 0 THEN 0
        ELSE IF a[i] = b[j] THEN lens[i - 1, j - 1] + 1
        ELSE Max({lens[i - 1, j], lens[i, j - 1]})
      max_length == Max({lens[i, j] : i \in 0 .. Len(a), j \in 0 .. Len(b)})
      a_idx_max == Min({i \in 0 .. Len(a) : \E j \in 0 .. Len(b) : lens[i, j] = max_length})
  IN  SubSeq(a, a_idx_max - max_length + 1, a_idx_max)

\* The length of the common substring that ends at each pair of places; the first pair with
\* the greatest length wins.
lcs_dynamic(a, b) ==
  LET lens[i \in 0 .. Len(a), j \in 0 .. Len(b)] ==
        IF i = 0 \/ j = 0 \/ a[i] # b[j] THEN 0 ELSE lens[i - 1, j - 1] + 1
      max_length == Max({lens[i, j] : i \in 0 .. Len(a), j \in 0 .. Len(b)})
      a_idx_max == Min({i \in 0 .. Len(a) : \E j \in 0 .. Len(b) : lens[i, j] = max_length})
  IN  SubSeq(a, a_idx_max - max_length + 1, a_idx_max)

\* What the program writes for a pair without a common substring.
NoCommon == <<"none">>

Result(a, b) == LET ret == lcs_dynamic(a, b) IN IF Len(ret) > 0 THEN ret ELSE NoCommon

\* The program has not started; with off it never does.
LcsInit(off) ==
  /\ data = <<>>
  /\ lcs_data = [i \in 0 .. NUM_LINES - 2 |-> <<>>]
  /\ worker = [t \in Thread |-> [pc |-> "none", line_number |-> 0, end |-> 0]]
  /\ main = [pc |-> IF off THEN "off" ELSE "open", i |-> 0]
  /\ past = FALSE

\* The file is read; a file that cannot be opened leaves no lines.
Open ==
  /\ main.pc = "open"
  /\ \E file \in Files \union {<<>>} : data' = open_file(file)
  /\ main' = [pc |-> "create", i |-> 0]
  /\ UNCHANGED <<lcs_data, worker, past>>

\* A thread is created, or the program ends with an error.
Create ==
  /\ main.pc = "create"
  /\ IF main.i = NUM_THREADS THEN main' = [pc |-> "join", i |-> 0] /\ UNCHANGED worker
     ELSE \/ /\ worker' = [worker EXCEPT ![main.i].pc = "start"]
             /\ main' = [main EXCEPT !.i = @ + 1]
          \/ /\ worker' = [t \in Thread |-> [worker[t] EXCEPT !.pc = "killed"]]
             /\ main' = [main EXCEPT !.pc = "failed"]
  /\ UNCHANGED <<data, lcs_data, past>>

\* A thread works out its lines.
Begin(t) ==
  LET start == t * NUM_LINES_PER_THREAD
      end == start + NUM_LINES_PER_THREAD
  IN  /\ worker[t].pc = "start"
      /\ worker' = [worker EXCEPT ![t] = [pc |-> "loop", line_number |-> start,
                                          end |-> IF end > LastLine THEN LastLine ELSE end]]
      /\ UNCHANGED <<data, lcs_data, main, past>>

\* A thread compares one line with the next, or returns.  What an access outside the arrays
\* does is undefined; the thread is not followed beyond it.
Compare(t) ==
  LET n == worker[t].line_number
      inside == n \in DOMAIN lcs_data /\ n + 1 < NUM_LINES
  IN  /\ worker[t].pc = "loop"
      /\ IF n >= worker[t].end
           THEN worker' = [worker EXCEPT ![t].pc = "done"] /\ UNCHANGED <<lcs_data, past>>
         ELSE IF inside
           THEN /\ lcs_data' = [lcs_data EXCEPT ![n] = Result(Line(n), Line(n + 1))]
                /\ worker' = [worker EXCEPT ![t].line_number = @ + 1]
                /\ UNCHANGED past
         ELSE past' = TRUE /\ worker' = [worker EXCEPT ![t].pc = "done"] /\ UNCHANGED lcs_data
      /\ UNCHANGED <<data, main>>

\* The threads are awaited in order, and the results are printed; or the program ends with
\* an error.
Join ==
  /\ main.pc = "join"
  /\ IF main.i = NUM_THREADS
       THEN /\ main' = [main EXCEPT !.pc = "printed"]
            /\ past' = (past \/ LastLine > NUM_LINES - 1)
            /\ UNCHANGED worker
       ELSE /\ \/ worker[main.i].pc = "done" /\ main' = [main EXCEPT !.i = @ + 1] /\ UNCHANGED worker
               \/ /\ worker' = [t \in Thread |-> [worker[t] EXCEPT !.pc = "killed"]]
                  /\ main' = [main EXCEPT !.pc = "failed"]
            /\ UNCHANGED past
  /\ UNCHANGED <<data, lcs_data>>

LcsNext == Open \/ Create \/ (\E t \in Thread : Begin(t) \/ Compare(t)) \/ Join

LcsSpec == LcsInit(FALSE) /\ [][LcsNext]_lcsvars

----------------------------------------------------------------------------
\* Every line printed is a longest common substring of its pair, whichever way the threads
\* ran: it occurs in both lines, and nothing longer does.  No access goes past the arrays.
\* This is for files with a line at least (see WithinArrays).
LinesCompared ==
  LET Substrings(s) == {SubSeq(s, i, j) : i \in 1 .. Len(s), j \in 1 .. Len(s)} \ {<<>>}
      Common(i) == Substrings(Line(i)) \intersect Substrings(Line(i + 1))
  IN  actual_num_lines > 0 =>
        /\ ~past
        /\ main.pc = "printed" =>
             \A i \in 0 .. actual_num_lines - 2 :
               IF Common(i) = {} THEN lcs_data[i] = NoCommon
               ELSE lcs_data[i] \in Common(i) /\ \A s \in Common(i) : Len(s) <= Len(lcs_data[i])

\* thandle never reads past the end of data, nor main past the end of lcs_data (p4_pth.c:69:
\* "Avoid reading past the end of data").
WithinArrays == ~past
=============================================================================
