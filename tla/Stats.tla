------------------------------- MODULE Stats -------------------------------
(***************************************************************************)
(* The running statistics of one key (src/stats.c, src/stats.h) and their  *)
(* conversion to and from the text that is kept in the database.           *)
(*                                                                         *)
(* A double is an integer here, counted in units of 1/Grid of a hundredth: *)
(* Grid units are 0.01, the last digit "%.2f" prints.  A square is counted *)
(* in squared units.  What + and * of two doubles give is the exact result *)
(* but for an error of one part in Precision (which is 2^53), either way;  *)
(* numbers that are too large for a double are left out.                   *)
(***************************************************************************)
EXTENDS Integers, Sequences, SequencesExt

CONSTANTS
  Grid,      \* units in one hundredth
  Precision, \* + and * are exact to one part in that many
  Garbage    \* values a text without an end mark may be read as

ASSUME GridAssumption == Grid \in Nat \ {0}
ASSUME PrecisionAssumption == Precision \in Nat \ {0}
ASSUME GarbageAssumption == Garbage \subseteq Int

Stats == [sum : Int, sumsq : Nat, n : Nat, min : Int, max : Int]

\* n is what malloc found in the block.
Stats_create_Uninitialised ==                                   \* mutant
  [sum |-> 0, sumsq |-> 0, n |-> -1, min |-> 0, max |-> 0]

Stats_create == [sum |-> 0, sumsq |-> 0, n |-> 0, min |-> 0, max |-> 0]

\* The doubles an operation may give whose exact result is x.
Rounded(x) ==
  LET error == (IF x < 0 THEN -x ELSE x) \div Precision
  IN  x - error .. x + error

\* What adding one of X to one of T may give.
Added(T, X) == UNION {Rounded(t + x) : t \in T, x \in X}

\* min and max start from the zeros of Stats_create.
Stats_sample_NoFirst(st, s) ==                                  \* mutant
  [sum : Added({st.sum}, {s}), sumsq : Added({st.sumsq}, Rounded(s * s)), n : {st.n + 1},
   min : {IF st.min > s THEN s ELSE st.min},
   max : {IF st.max < s THEN s ELSE st.max}]

\* What the sample s may make of st.
Stats_sample(st, s) ==
  [sum   : Added({st.sum}, {s}),
   sumsq : Added({st.sumsq}, Rounded(s * s)),
   n     : {st.n + 1},
   min   : {IF st.n = 0 \/ st.min > s THEN s ELSE st.min},
   max   : {IF st.n = 0 \/ st.max < s THEN s ELSE st.max}]

\* Callers only look at the sign of sum / n.  For n = 0 the quotient is a
\* NaN, which compares as not negative, exactly as sum = 0 does here.
MeanIsNegative(st) == st.sum < 0

----------------------------------------------------------------------------
(* The text "%.2f:%.2f:%ld:%.2f:%.2f" is the record of the five numbers it *)
(* spells.                                                                 *)

\* What "%.2f" may print for x when its last digit weighs g: the nearest
\* multiple of g, either neighbour when x lies half way (few such x are doubles,
\* so which one is printed depends on the error in x).
Nearest(x, g) ==
  LET q == x \div g
      r == x % g
  IN  {y \in {g * q, g * (q + 1)} :
         \/ y = g * q       /\ 2 * r <= g
         \/ y = g * (q + 1) /\ 2 * r >= g}

\* The weight of the last digit of sumsq: 0.01 in squared units.
SquareGrid == 100 * Grid * Grid

Stats_stringify(st) ==
  [sum   : Nearest(st.sum, Grid),
   sumsq : Nearest(st.sumsq, SquareGrid),
   n     : {st.n},
   min   : Nearest(st.min, Grid),
   max   : Nearest(st.max, Grid)]

\* The last two numbers are taken in the wrong order.
Stats_unstringify_Swapped(text, overread) ==                    \* mutant
  IF overread THEN {text} ELSE {[text EXCEPT !.min = text.max, !.max = text.min]}

\* The third number is skipped.
Stats_unstringify_NoCount(text, overread) ==                    \* mutant
  IF overread THEN {text} ELSE {[text EXCEPT !.n = 0]}

\* Reading a text back.  When the text has no end mark (overread) the bytes
\* that follow it run into the last number, max.
Stats_unstringify(text, overread) ==
  {text} \cup (IF overread THEN {[text EXCEPT !.max = m] : m \in Garbage}
                           ELSE {})

----------------------------------------------------------------------------
(* What a record of samples owes its reader.                               *)

\* What adding up one term after the other gives, each from the set in its
\* place of terms, with every addition rounded.
Totals[terms \in Seq(SUBSET Int)] ==
  IF terms = <<>> THEN {0} ELSE Added(Totals[Front(terms)], Last(terms))

\* st are the statistics of the samples q, taken in that order.
StatisticsOf(st, q) ==
  LET samples == {q[i] : i \in DOMAIN q}
  IN  /\ st.n = Len(q)
      /\ st.sum \in Totals[[i \in DOMAIN q |-> {q[i]}]]
      /\ st.sumsq \in Totals[[i \in DOMAIN q |-> Rounded(q[i] * q[i])]]
      /\ IF q = <<>> THEN st.min = 0 /\ st.max = 0
         ELSE /\ {st.min, st.max} \subseteq samples
              /\ \A x \in samples : st.min <= x /\ x <= st.max

\* A text that comes back unchanged when what is read from it is printed.
Stable(text) ==
  \A st \in Stats_unstringify(text, FALSE) : Stats_stringify(st) = {text}
=============================================================================
