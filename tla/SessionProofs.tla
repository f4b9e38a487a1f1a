---------------------------- MODULE SessionProofs ----------------------------
(***************************************************************************)
(* What the sessions of module Session keep true, for any names, blocks,   *)
(* samples and faults.                                                     *)
(***************************************************************************)
EXTENDS Session, Recursion, SequenceTheorems, TLAPS

----------------------------------------------------------------------------
(* Statistics: facts about the operators of module Stats, for every Grid and  *)
(* Precision.                                                              *)

LEMMA CreateType == Stats_create \in Stats
  BY DEF Stats_create, Stats

LEMMA SquareType == ASSUME NEW s \in Int PROVE s * s \in Nat
  BY SMT

LEMMA RoundedType ==
  ASSUME NEW x \in Int
  PROVE  Rounded(x) \subseteq Int /\ (x \in Nat => Rounded(x) \subseteq Nat)
  <1> DEFINE a == IF x < 0 THEN -x ELSE x
             e == a \div Precision
  <1>1. a \in Nat /\ (x \in Nat => a = x)
    OBVIOUS
  <1>2. e \in Nat /\ e <= a
    <2> HIDE DEF a
    <2>1. a \div Precision \in Nat
      BY <1>1, PrecisionAssumption, SMT
    <2>2. a \div Precision <= a
      BY <1>1, PrecisionAssumption, SMT
    <2> QED BY <2>1, <2>2
  <1>3. Rounded(x) = x - e .. x + e
    BY DEF Rounded
  <1> HIDE DEF e, a
  <1> QED BY <1>1, <1>2, <1>3

LEMMA SampleType ==
  ASSUME NEW st \in Stats, NEW s \in Int
  PROVE  Stats_sample(st, s) \subseteq Stats
  <1> DEFINE sums == Added({st.sum}, {s})
             sumsqs == Added({st.sumsq}, Rounded(s * s))
             min == IF st.n = 0 \/ st.min > s THEN s ELSE st.min
             max == IF st.n = 0 \/ st.max < s THEN s ELSE st.max
             n == st.n + 1
  <1>1. /\ st.sum \in Int /\ st.sumsq \in Nat /\ st.n \in Nat
        /\ st.min \in Int /\ st.max \in Int
    BY DEF Stats
  <1>2. sums \subseteq Int
    BY <1>1, RoundedType DEF Added
  <1>3. sumsqs \subseteq Nat
    <2>1. Rounded(s * s) \subseteq Nat
      BY SquareType, RoundedType
    <2>2. \A q \in Nat : st.sumsq + q \in Nat /\ Rounded(st.sumsq + q) \subseteq Nat
      BY <1>1, RoundedType
    <2> QED BY <2>1, <2>2 DEF Added
  <1>4. Stats_sample(st, s) =
          [sum : sums, sumsq : sumsqs, n : {n}, min : {min}, max : {max}]
    BY DEF Stats_sample
  <1>5. n \in Nat /\ min \in Int /\ max \in Int
    BY <1>1
  <1> HIDE DEF sums, sumsqs, n, min, max
  <1> SUFFICES ASSUME NEW u \in Stats_sample(st, s) PROVE u \in Stats
    OBVIOUS
  <1>6. /\ u.sum \in Int /\ u.sumsq \in Nat /\ u.n \in Nat /\ u.min \in Int /\ u.max \in Int
        /\ u = [sum |-> u.sum, sumsq |-> u.sumsq, n |-> u.n, min |-> u.min, max |-> u.max]
    BY <1>2, <1>3, <1>4, <1>5
  <1> QED BY <1>6 DEF Stats

LEMMA AddedType ==
  ASSUME NEW T \in SUBSET Int, NEW X \in SUBSET Int
  PROVE  Added(T, X) \in SUBSET Int
  BY RoundedType DEF Added

LEMMA AddedMember ==
  ASSUME NEW T, NEW X, NEW t \in T, NEW x \in X, NEW y \in Rounded(t + x)
  PROVE  y \in Added(T, X)
  BY DEF Added

(* Multiples of g that surround x. *)
LEMMA DivModFacts ==
  ASSUME NEW x \in Int, NEW g \in Nat \ {0}
  PROVE  /\ x \div g \in Int
         /\ x % g \in 0 .. g - 1
         /\ x = g * (x \div g) + (x % g)
  BY SMT

(* A multiple of g has remainder 0 and is its own quotient. *)
LEMMA MultipleFacts ==
  ASSUME NEW q \in Int, NEW g \in Nat \ {0}
  PROVE  (g * q) \div g = q /\ (g * q) % g = 0
  BY SMT

LEMMA NearestType ==
  ASSUME NEW x \in Int, NEW g \in Nat \ {0}
  PROVE  Nearest(x, g) \subseteq {g * q : q \in Int}
  <1>1. x \div g \in Int /\ (x \div g) + 1 \in Int
    BY DivModFacts
  <1> QED BY <1>1 DEF Nearest

LEMMA NearestNat ==
  ASSUME NEW x \in Nat, NEW g \in Nat \ {0}
  PROVE  Nearest(x, g) \subseteq Nat
  <1> DEFINE q == x \div g
  <1>1. q \in Nat
    BY SMT
  <1>2. g * q \in Nat /\ g * (q + 1) \in Nat
    <2> HIDE DEF q
    <2> QED BY <1>1
  <1> QED BY <1>2 DEF Nearest

(* What is printed is at most half a digit away from the value. *)
LEMMA NearestError ==
  ASSUME NEW x \in Int, NEW g \in Nat \ {0}, NEW y \in Nearest(x, g)
  PROVE  y \in Int /\ 2 * (y - x) <= g /\ 2 * (x - y) <= g
  <1> DEFINE q == x \div g
             r == x % g
  <1>1. q \in Int /\ r \in 0 .. g - 1 /\ x = g * q + r
    BY DivModFacts
  <1>2. \/ y = g * q /\ 2 * r <= g
        \/ y = g * (q + 1) /\ 2 * r >= g
    BY DEF Nearest
  <1> HIDE DEF q, r
  <1>3. g * (q + 1) = g * q + g
    BY <1>1
  <1>4. g * q \in Int
    BY <1>1
  <1> QED BY <1>1, <1>2, <1>3, <1>4

(* A value that was printed once is printed without loss. *)
LEMMA NearestOfMultiple ==
  ASSUME NEW q \in Int, NEW g \in Nat \ {0}
  PROVE  Nearest(g * q, g) = {g * q}
  <1> DEFINE x == g * q
  <1>1. x \div g = q /\ x % g = 0
    BY MultipleFacts
  <1>2. Nearest(x, g) = {y \in {g * q, g * (q + 1)} :
                           \/ y = g * q /\ 2 * 0 <= g
                           \/ y = g * (q + 1) /\ 2 * 0 >= g}
    BY <1>1 DEF Nearest
  <1> HIDE DEF x
  <1>3. ~(2 * 0 >= g) /\ 2 * 0 <= g
    OBVIOUS
  <1> QED BY <1>2, <1>3 DEF x

LEMMA SquareGridType == SquareGrid \in Nat \ {0}
  <1>1. Grid * Grid \in Nat \ {0}
    BY GridAssumption
  <1>2. 100 * (Grid * Grid) \in Nat \ {0}
    BY <1>1
  <1>3. 100 * Grid * Grid = 100 * (Grid * Grid)
    BY GridAssumption
  <1> QED BY <1>2, <1>3 DEF SquareGrid

LEMMA StringifyType ==
  ASSUME NEW st \in Stats
  PROVE  Stats_stringify(st) \subseteq Stats
  <1>1. /\ st.sum \in Int /\ st.sumsq \in Nat /\ st.n \in Nat
        /\ st.min \in Int /\ st.max \in Int
    BY DEF Stats
  <1>2. \A x \in Int : Nearest(x, Grid) \subseteq Int
    BY NearestError, GridAssumption
  <1>3. Nearest(st.sumsq, SquareGrid) \subseteq Nat
    BY <1>1, NearestNat, SquareGridType
  <1> QED BY <1>1, <1>2, <1>3 DEF Stats_stringify, Stats

LEMMA UnstringifyType ==
  ASSUME NEW text \in Stats, NEW overread \in BOOLEAN
  PROVE  Stats_unstringify(text, overread) \subseteq Stats
  BY GarbageAssumption DEF Stats_unstringify, Stats

(* What Stats_stringify prints is stable: see Stable.                      *)
LEMMA StringifyStable ==
  ASSUME NEW st \in Stats, NEW text \in Stats_stringify(st)
  PROVE  Stable(text)
  <1>1. /\ st.sum \in Int /\ st.sumsq \in Nat /\ st.n \in Nat
        /\ st.min \in Int /\ st.max \in Int
    BY DEF Stats
  <1>2. /\ text = [sum |-> text.sum, sumsq |-> text.sumsq, n |-> text.n,
                   min |-> text.min, max |-> text.max]
        /\ text.sum \in Nearest(st.sum, Grid)
        /\ text.sumsq \in Nearest(st.sumsq, SquareGrid)
        /\ text.min \in Nearest(st.min, Grid)
        /\ text.max \in Nearest(st.max, Grid)
    BY DEF Stats_stringify
  <1>3. \A x \in Int : \A y \in Nearest(x, Grid) : Nearest(y, Grid) = {y}
    BY NearestType, NearestOfMultiple, GridAssumption
  <1>4. Nearest(text.sumsq, SquareGrid) = {text.sumsq}
    <2>1. PICK q \in Int : text.sumsq = SquareGrid * q
      BY <1>1, <1>2, NearestType, SquareGridType
    <2> QED BY <2>1, NearestOfMultiple, SquareGridType
  <1>5. Stats_stringify(text) =
          [sum : {text.sum}, sumsq : {text.sumsq}, n : {text.n},
           min : {text.min}, max : {text.max}]
    BY <1>1, <1>2, <1>3, <1>4 DEF Stats_stringify
  <1>6. Stats_stringify(text) = {text}
    <2>1. ASSUME NEW u \in Stats_stringify(text) PROVE u = text
      <3>1. u = [sum |-> u.sum, sumsq |-> u.sumsq, n |-> u.n, min |-> u.min, max |-> u.max]
        BY <1>5
      <3>2. /\ u.sum = text.sum /\ u.sumsq = text.sumsq /\ u.n = text.n
            /\ u.min = text.min /\ u.max = text.max
        BY <1>5
      <3> QED BY <3>1, <3>2, <1>2
    <2>2. text \in Stats_stringify(text)
      <3>1. [sum |-> text.sum, sumsq |-> text.sumsq, n |-> text.n,
             min |-> text.min, max |-> text.max]
              \in [sum : {text.sum}, sumsq : {text.sumsq}, n : {text.n},
                   min : {text.min}, max : {text.max}]
        OBVIOUS
      <3> QED BY <3>1, <1>2, <1>5
    <2> QED BY <2>1, <2>2
  <1> QED BY <1>6 DEF Stable, Stats_unstringify

----------------------------------------------------------------------------
(* The statistics of a run of samples. *)

(* What Totals is, which is there although the definition is recursive. *)
LEMMA TotalsDef ==
  /\ Totals[<<>>] = {0}
  /\ \A terms \in Seq(SUBSET Int), xs \in SUBSET Int :
       Totals[Append(terms, xs)] = Added(Totals[terms], xs)
  <1> DEFINE D == Seq(SUBSET Int)
             V == SUBSET Int
             value(f, ts) == IF ts = <<>> THEN {0}
                             ELSE Added(f[Front(ts)], Last(ts))
             body == [f \in [D -> V] |-> [ts \in D |-> value(f, ts)]]
             measure == [ts \in D |-> Len(ts)]
  <1>1. ASSUME NEW ts \in D, ts # <<>>
        PROVE  Front(ts) \in D /\ Len(Front(ts)) = Len(ts) - 1 /\ Last(ts) \in V
    <2>1. Len(ts) \in Nat \ {0} /\ \A i \in 1 .. Len(ts) : ts[i] \in V
      BY <1>1, EmptySeq, ElementOfSeq, LenProperties
    <2>2. \A i \in 1 .. Len(ts) - 1 : ts[i] \in V
      BY <2>1
    <2> HIDE DEF D, V
    <2>3. Front(ts) \in Seq(V) /\ Len(Front(ts)) = IF 1 <= Len(ts) - 1 THEN (Len(ts) - 1) - 1 + 1 ELSE 0
      BY <2>1, <2>2, SubSeqProperties DEF Front
    <2>4. Last(ts) \in V
      BY <2>1 DEF Last
    <2>5. Len(Front(ts)) = Len(ts) - 1
      <3>1. PICK n \in Nat \ {0} : n = Len(ts)
        BY <2>1
      <3>2. Len(Front(ts)) = IF 1 <= n - 1 THEN (n - 1) - 1 + 1 ELSE 0
        BY <2>3, <3>1
      <3> QED BY <3>1, <3>2
    <2>6. D = Seq(V)
      BY DEF D, V
    <2> QED BY <2>3, <2>4, <2>5, <2>6
  <1>2. ASSUME NEW f \in [D -> V], NEW ts \in D PROVE value(f, ts) \in V
    <2>1. CASE ts = <<>>
      BY <2>1
    <2>2. CASE ts # <<>>
      BY <1>1, <2>2, AddedType
    <2> QED BY <2>1, <2>2
  <1>3. body \in [[D -> V] -> [D -> V]]
    <2> HIDE DEF value, D, V
    <2> QED BY <1>2
  <1>4. measure \in [D -> Nat]
    BY LenProperties
  <1>5. ASSUME NEW f \in [D -> V], NEW g \in [D -> V], NEW ts \in D,
               \A y \in D : measure[y] < measure[ts] => f[y] = g[y]
        PROVE  body[f][ts] = body[g][ts]
    <2>1. ts # <<>> => f[Front(ts)] = g[Front(ts)]
      <3> SUFFICES ASSUME ts # <<>> PROVE f[Front(ts)] = g[Front(ts)]
        OBVIOUS
      <3>1. Front(ts) \in D /\ Len(Front(ts)) = Len(ts) - 1 /\ Len(ts) \in Nat
        BY <1>1, LenProperties
      <3>2. measure[Front(ts)] < measure[ts]
        <4> HIDE DEF D
        <4> QED BY <3>1
      <3> QED BY <1>5, <3>1, <3>2
    <2>2. value(f, ts) = value(g, ts)
      BY <2>1
    <2> HIDE DEF value, D, V
    <2> QED BY <2>2
  <1>6. PICK f : IsFixed(f, D, V, body)
    <2>1. GoesDown(D, V, measure, body)
      <3> HIDE DEF body, D, V, measure
      <3> QED BY <1>5 DEF GoesDown
    <2>2. measure \in Measures(D) /\ body \in Bodies(D, V)
      <3> HIDE DEF body, D, V, measure
      <3> QED BY <1>3, <1>4 DEF Measures, Bodies
    <2>3. PICK z : z = {0}
      OBVIOUS
    <2>4. z \in V
      BY <2>3
    <2> HIDE DEF body, D, V, measure
    <2> QED BY <2>1, <2>2, <2>4, MeasuredRecursion
  <1>7. f = [ts \in D |-> value(f, ts)]
    <2>1. f \in [D -> V] /\ f = body[f]
      BY <1>6 DEF IsFixed
    <2> HIDE DEF value, D, V
    <2> QED BY <2>1
  <1>8. Totals = [ts \in D |-> value(Totals, ts)]
    BY <1>7 DEF Totals
  <1>9. \A ts \in D : Totals[ts] = value(Totals, ts)
    <2> HIDE DEF value, D
    <2> QED BY <1>8
  <1>10. <<>> \in D
    BY EmptySeq
  <1>11. ASSUME NEW ts \in D, NEW xs \in V
         PROVE  /\ Append(ts, xs) \in D /\ Append(ts, xs) # <<>>
                /\ Front(Append(ts, xs)) = ts /\ Last(Append(ts, xs)) = xs
    <2> DEFINE a == Append(ts, xs)
    <2>1. /\ a \in D /\ a # <<>> /\ Len(a) = Len(ts) + 1 /\ Len(ts) \in Nat
          /\ \A i \in 1 .. Len(ts) : a[i] = ts[i]
          /\ a[Len(ts) + 1] = xs
      BY AppendProperties, LenProperties
    <2>2. \A i \in 1 .. Len(ts) : a[i] \in V
      BY <2>1, ElementOfSeq
    <2> HIDE DEF a, D, V
    <2>3. Front(a) = SubSeq(a, 1, Len(ts))
      BY <2>1 DEF Front
    <2>4. /\ Front(a) \in Seq(V)
          /\ Len(Front(a)) = IF 1 <= Len(ts) THEN Len(ts) - 1 + 1 ELSE 0
          /\ \A i \in 1 .. Len(ts) - 1 + 1 : Front(a)[i] = a[1 + i - 1]
      BY <2>1, <2>2, <2>3, SubSeqProperties
    <2>5. Len(Front(a)) = Len(ts) /\ \A i \in 1 .. Len(ts) : Front(a)[i] = ts[i]
      BY <2>1, <2>4
    <2>6. ts \in Seq(V)
      BY DEF D, V
    <2>7. Front(a) = ts
      BY <2>4, <2>5, <2>6, SeqEqual
    <2>8. Last(a) = xs
      BY <2>1 DEF Last
    <2> QED BY <2>1, <2>7, <2>8 DEF a
  <1>12. Totals[<<>>] = {0}
    BY <1>9, <1>10
  <1>13. ASSUME NEW ts \in D, NEW xs \in V
         PROVE  Totals[Append(ts, xs)] = Added(Totals[ts], xs)
    <2> HIDE DEF D, V
    <2>1. Totals[Append(ts, xs)] = value(Totals, Append(ts, xs))
      BY <1>9, <1>11
    <2> QED BY <1>11, <2>1
  <1> QED BY <1>12, <1>13

(* One more sample: its terms come after the others. *)
LEMMA TermsAppend ==
  ASSUME NEW q \in Seq(Int), NEW s \in Int
  PROVE  /\ [i \in DOMAIN q |-> {q[i]}] \in Seq(SUBSET Int)
         /\ [i \in DOMAIN q |-> Rounded(q[i] * q[i])] \in Seq(SUBSET Int)
         /\ [i \in DOMAIN Append(q, s) |-> {Append(q, s)[i]}]
              = Append([i \in DOMAIN q |-> {q[i]}], {s})
         /\ [i \in DOMAIN Append(q, s) |-> Rounded(Append(q, s)[i] * Append(q, s)[i])]
              = Append([i \in DOMAIN q |-> Rounded(q[i] * q[i])], Rounded(s * s))
  <1> DEFINE a == Append(q, s)
             n == Len(q)
  <1>1. /\ n \in Nat /\ DOMAIN q = 1 .. n /\ DOMAIN a = 1 .. n + 1 /\ a \in Seq(Int)
        /\ \A i \in 1 .. n : q[i] \in Int /\ a[i] = q[i]
        /\ a[n + 1] = s
    BY AppendProperties, LenProperties, ElementOfSeq
  <1> HIDE DEF a, n
  <1>2. ASSUME NEW F, NEW G, F \in [1 .. n -> SUBSET Int], G \in [1 .. n + 1 -> SUBSET Int],
               \A i \in 1 .. n : G[i] = F[i]
        PROVE  F \in Seq(SUBSET Int) /\ G = Append(F, G[n + 1])
    <2>1. F \in Seq(SUBSET Int) /\ G \in Seq(SUBSET Int) /\ Len(F) = n /\ Len(G) = n + 1
      <3>1. \A S, m, H : m \in Nat /\ H \in [1 .. m -> S] => H \in Seq(S) /\ Len(H) = m
        OBVIOUS
      <3>2. n \in Nat /\ n + 1 \in Nat
        BY <1>1
      <3> QED BY <1>2, <3>1, <3>2
    <2>2. G[n + 1] \in SUBSET Int
      BY <1>1, <1>2
    <2>3. /\ Append(F, G[n + 1]) \in Seq(SUBSET Int) /\ Len(Append(F, G[n + 1])) = n + 1
          /\ \A i \in 1 .. n : Append(F, G[n + 1])[i] = F[i]
          /\ Append(F, G[n + 1])[n + 1] = G[n + 1]
      BY <2>1, <2>2, AppendProperties
    <2>4. \A i \in 1 .. n + 1 : Append(F, G[n + 1])[i] = G[i]
      BY <1>1, <1>2, <2>3
    <2> QED BY <2>1, <2>3, <2>4, SeqEqual
  <1>3. \A x \in Int : {x} \in SUBSET Int /\ Rounded(x * x) \in SUBSET Int
    BY SquareType, RoundedType
  <1>4. \A i \in 1 .. n + 1 : a[i] \in Int
    BY <1>1
  <1>5. /\ [i \in DOMAIN q |-> {q[i]}] \in Seq(SUBSET Int)
        /\ [i \in DOMAIN a |-> {a[i]}] = Append([i \in DOMAIN q |-> {q[i]}], {s})
    <2> DEFINE F == [i \in 1 .. n |-> {q[i]}]
               G == [i \in 1 .. n + 1 |-> {a[i]}]
    <2>1. /\ F \in [1 .. n -> SUBSET Int] /\ G \in [1 .. n + 1 -> SUBSET Int]
          /\ \A i \in 1 .. n : G[i] = F[i]
          /\ G[n + 1] = {s}
      BY <1>1, <1>3, <1>4
    <2> HIDE DEF F, G
    <2>2. F \in Seq(SUBSET Int) /\ G = Append(F, {s})
      BY <1>2, <2>1
    <2> QED BY <1>1, <2>2 DEF F, G
  <1>6. /\ [i \in DOMAIN q |-> Rounded(q[i] * q[i])] \in Seq(SUBSET Int)
        /\ [i \in DOMAIN a |-> Rounded(a[i] * a[i])]
             = Append([i \in DOMAIN q |-> Rounded(q[i] * q[i])], Rounded(s * s))
    <2> DEFINE F == [i \in 1 .. n |-> Rounded(q[i] * q[i])]
               G == [i \in 1 .. n + 1 |-> Rounded(a[i] * a[i])]
    <2>1. /\ F \in [1 .. n -> SUBSET Int] /\ G \in [1 .. n + 1 -> SUBSET Int]
          /\ \A i \in 1 .. n : G[i] = F[i]
          /\ G[n + 1] = Rounded(s * s)
      BY <1>1, <1>3, <1>4
    <2> HIDE DEF F, G
    <2>2. F \in Seq(SUBSET Int) /\ G = Append(F, Rounded(s * s))
      BY <1>2, <2>1
    <2> QED BY <1>1, <2>2 DEF F, G
  <1> QED BY <1>5, <1>6 DEF a

LEMMA CreateStatistics == StatisticsOf(Stats_create, <<>>)
  <1>1. Len(<<>>) = 0 /\ DOMAIN <<>> = {}
    OBVIOUS
  <1>2. [i \in DOMAIN <<>> |-> {<<>>[i]}] = <<>> /\ [i \in DOMAIN <<>> |-> Rounded(<<>>[i] * <<>>[i])] = <<>>
    OBVIOUS
  <1> QED BY <1>1, <1>2, TotalsDef DEF StatisticsOf, Stats_create

(* Stats_sample makes of the statistics of some samples those of one more. *)
LEMMA SampleStatistics ==
  ASSUME NEW st \in Stats, NEW q \in Seq(Int), StatisticsOf(st, q), NEW s \in Int,
         NEW new \in Stats_sample(st, s)
  PROVE  StatisticsOf(new, Append(q, s))
  <1> DEFINE a == Append(q, s)
             samples == {q[i] : i \in DOMAIN q}
             more == {a[i] : i \in DOMAIN a}
  <1>1. /\ st.sum \in Int /\ st.sumsq \in Nat /\ st.n \in Nat
        /\ st.min \in Int /\ st.max \in Int
    BY DEF Stats
  <1>2. /\ new.n = st.n + 1
        /\ new.sum \in Rounded(st.sum + s)
        /\ \E x \in Rounded(s * s) : new.sumsq \in Rounded(st.sumsq + x)
        /\ new.min = IF st.n = 0 \/ st.min > s THEN s ELSE st.min
        /\ new.max = IF st.n = 0 \/ st.max < s THEN s ELSE st.max
    BY DEF Stats_sample, Added
  <1>3. /\ Len(q) \in Nat /\ DOMAIN q = 1 .. Len(q) /\ DOMAIN a = 1 .. Len(q) + 1
        /\ Len(a) = Len(q) + 1 /\ a # <<>> /\ (q = <<>> <=> Len(q) = 0)
        /\ \A i \in 1 .. Len(q) : q[i] \in Int /\ a[i] = q[i]
        /\ a[Len(q) + 1] = s
    BY AppendProperties, LenProperties, ElementOfSeq, EmptySeq
  <1>4. new.n = Len(a)
    BY <1>2, <1>3 DEF StatisticsOf
  <1>5. new.sum \in Totals[[i \in DOMAIN a |-> {a[i]}]]
    <2>1. st.sum \in Totals[[i \in DOMAIN q |-> {q[i]}]]
      BY DEF StatisticsOf
    <2> DEFINE ts == [i \in DOMAIN q |-> {q[i]}]
    <2>2. ts \in Seq(SUBSET Int) /\ [i \in DOMAIN a |-> {a[i]}] = Append(ts, {s})
      BY TermsAppend
    <2> HIDE DEF ts, a
    <2>3. {s} \in SUBSET Int
      OBVIOUS
    <2>4. Totals[Append(ts, {s})] = Added(Totals[ts], {s})
      BY <2>2, <2>3, TotalsDef
    <2>5. st.sum \in Totals[ts]
      BY <2>1 DEF ts
    <2>6. new.sum \in Added(Totals[ts], {s})
      BY <1>2, <2>5, AddedMember
    <2> QED BY <2>2, <2>4, <2>6
  <1>6. new.sumsq \in Totals[[i \in DOMAIN a |-> Rounded(a[i] * a[i])]]
    <2>1. st.sumsq \in Totals[[i \in DOMAIN q |-> Rounded(q[i] * q[i])]]
      BY DEF StatisticsOf
    <2> DEFINE ts == [i \in DOMAIN q |-> Rounded(q[i] * q[i])]
               xs == Rounded(s * s)
    <2>2. ts \in Seq(SUBSET Int) /\ [i \in DOMAIN a |-> Rounded(a[i] * a[i])] = Append(ts, xs)
      BY TermsAppend
    <2>3. xs \in SUBSET Int
      BY SquareType, RoundedType
    <2>4. PICK x \in xs : new.sumsq \in Rounded(st.sumsq + x)
      BY <1>2
    <2> HIDE DEF ts, a, xs
    <2>5. Totals[Append(ts, xs)] = Added(Totals[ts], xs)
      BY <2>2, <2>3, TotalsDef
    <2>6. st.sumsq \in Totals[ts]
      BY <2>1 DEF ts
    <2>7. new.sumsq \in Added(Totals[ts], xs)
      BY <2>4, <2>6, AddedMember
    <2> QED BY <2>2, <2>5, <2>7
  <1>7. more = samples \cup {s}
    <2> HIDE DEF a
    <2> QED BY <1>3
  <1>8. samples \subseteq Int
    BY <1>3
  <1>9. {new.min, new.max} \subseteq more /\ \A x \in more : new.min <= x /\ x <= new.max
    <2>1. st.n = Len(q)
      BY DEF StatisticsOf
    <2>2. CASE q = <<>>
      <3>1. samples = {} /\ new.min = s /\ new.max = s
        BY <1>2, <1>3, <2>1, <2>2
      <3> HIDE DEF samples, more
      <3> QED BY <1>7, <3>1
    <2>3. CASE q # <<>>
      <3>1. {st.min, st.max} \subseteq samples /\ \A x \in samples : st.min <= x /\ x <= st.max
        BY <2>3 DEF StatisticsOf
      <3>2. /\ new.min = IF st.min > s THEN s ELSE st.min
            /\ new.max = IF st.max < s THEN s ELSE st.max
        BY <1>2, <1>3, <2>1, <2>3
      <3> HIDE DEF samples, more
      <3>3. {new.min, new.max} \subseteq more
        BY <1>7, <3>1, <3>2
      <3>4. ASSUME NEW x \in more PROVE new.min <= x /\ x <= new.max
        <4>1. CASE x = s
          BY <1>1, <3>2, <4>1
        <4>2. CASE x \in samples
          BY <1>1, <1>8, <3>1, <3>2, <4>2
        <4> QED BY <1>7, <4>1, <4>2
      <3> QED BY <3>3, <3>4
    <2> QED BY <2>2, <2>3
  <1> HIDE DEF a
  <1>10. StatisticsOf(new, a)
    BY <1>3, <1>4, <1>5, <1>6, <1>9 DEF StatisticsOf
  <1> QED BY <1>10 DEF a

----------------------------------------------------------------------------
(* Types. *)

LEMMA AllocateType ==
  ASSUME StoreTypeOK, NEW b \in Blocks, NEW st \in Stats, Allocate(b, st)
  PROVE  mem' \in [Blocks -> Stats] /\ free' \in [Blocks -> 0 .. MaxFree]
  BY MaxFreeAssumption DEF StoreTypeOK, Allocate

LEMMA ReleaseType ==
  ASSUME StoreTypeOK, NEW b \in Blocks, free[b] < MaxFree, Release(b)
  PROVE  mem' \in [Blocks -> Stats] /\ free' \in [Blocks -> 0 .. MaxFree]
  BY MaxFreeAssumption, JunkAssumption DEF StoreTypeOK, Release

LEMMA InsertType ==
  ASSUME StoreTypeOK, NEW k \in Keys, NEW st \in Blocks \cup {NULL}, Insert(k, st)
  PROVE  tst' \in [Keys -> Record]
  BY DEF StoreTypeOK, Insert, Record

LEMMA MarkDeletedType ==
  ASSUME StoreTypeOK, NEW k \in Keys, MarkDeleted(k)
  PROVE  tst' \in [Keys -> Record]
  <1>1. tst \in [Keys -> [status : {"absent", "live", "deleted"}, st : Blocks \cup {NULL}]]
    BY DEF StoreTypeOK, Record
  <1>2. [tst[k] EXCEPT !.status = "deleted"] \in Record
    BY <1>1 DEF Record
  <1> QED BY <1>1, <1>2 DEF MarkDeleted, Record

(* A record that is in the tree and has statistics has them in a block. *)
LEMMA RecordBlock ==
  ASSUME StoreTypeOK, NEW k \in Keys
  PROVE  tst[k].st # NULL => tst[k].st \in Blocks
  BY DEF StoreTypeOK, Record

LEMMA CreateTypeOK ==
  ASSUME StoreTypeOK, NEW k \in Keys, NEW rc, sscreate(k, rc)
  PROVE  StoreTypeOK'
  <1>1. UNCHANGED <<db, redeleted>>
    BY DEF sscreate
  <1>2. CASE UNCHANGED <<tst, mem, free, loaded, counted>>
    BY <1>1, <1>2 DEF StoreTypeOK
  <1>3. CASE /\ \E b \in Blocks : Allocate(b, Stats_create) /\ Insert(k, b)
             /\ loaded' = loaded \ {k}
             /\ counted' = [counted EXCEPT ![k] = <<>>]
    <2>1. mem' \in [Blocks -> Stats] /\ free' \in [Blocks -> 0 .. MaxFree]
      BY <1>3, AllocateType, CreateType
    <2>2. tst' \in [Keys -> Record]
      BY <1>3, InsertType
    <2>3. counted' \in [Keys -> Seq(Int)]
      BY <1>3 DEF StoreTypeOK
    <2> QED BY <1>1, <1>3, <2>1, <2>2, <2>3 DEF StoreTypeOK
  <1>4. CASE Insert(k, NULL) /\ loaded' = loaded \ {k} /\ UNCHANGED <<mem, free, counted>>
    BY <1>1, <1>4, InsertType DEF StoreTypeOK
  <1>5. CASE (\E b \in Blocks : Allocate(b, Stats_create)) /\ UNCHANGED <<tst, loaded, counted>>
    BY <1>1, <1>5, AllocateType, CreateType DEF StoreTypeOK
  <1> QED BY <1>2, <1>3, <1>4, <1>5 DEF sscreate

LEMMA DeleteTypeOK ==
  ASSUME StoreTypeOK, NEW k \in Keys, NEW rc, ssdelete(k, rc)
  PROVE  StoreTypeOK'
  <1>1. UNCHANGED <<db, loaded>>
    BY DEF ssdelete
  <1>2. CASE UNCHANGED <<tst, mem, free, counted, redeleted>>
    BY <1>1, <1>2 DEF StoreTypeOK
  <1>3. CASE /\ MarkDeleted(k)
             /\ \/ tst[k].st = NULL /\ UNCHANGED heap
                \/ tst[k].st # NULL /\ free[tst[k].st] < MaxFree /\ Release(tst[k].st)
             /\ counted' = [counted EXCEPT ![k] = <<>>]
             /\ redeleted' = (redeleted \/ (Deleted(k) /\ tst[k].st # NULL))
    <2>1. mem' \in [Blocks -> Stats] /\ free' \in [Blocks -> 0 .. MaxFree]
      BY <1>3, RecordBlock, ReleaseType DEF heap, StoreTypeOK
    <2>2. tst' \in [Keys -> Record]
      BY <1>3, MarkDeletedType
    <2>3. counted' \in [Keys -> Seq(Int)]
      BY <1>3 DEF StoreTypeOK
    <2>4. redeleted' \in BOOLEAN
      BY <1>3 DEF StoreTypeOK, Deleted
    <2> QED BY <1>1, <2>1, <2>2, <2>3, <2>4 DEF StoreTypeOK
  <1> QED BY <1>2, <1>3 DEF ssdelete

LEMMA SampleParentType ==
  ASSUME StoreTypeOK, NEW k \in Keys, NEW s \in Int, NEW m \in [Blocks -> Stats],
         NEW mnext, NEW rc, sssample_parent(k, s, m, mnext, rc)
  PROVE  mnext \in [Blocks -> Stats]
  <1>1. CASE mnext = m
    BY <1>1
  <1>2. ASSUME NEW p \in TSTree_search_prefix(tst, k), tst[p].st # NULL,
               Sampled(tst[p].st, s, m, mnext)
        PROVE  mnext \in [Blocks -> Stats]
    <2>1. p \in Keys
      BY DEF TSTree_search_prefix
    <2>2. tst[p].st \in Blocks
      BY <1>2, <2>1, RecordBlock
    <2>3. Stats_sample(m[tst[p].st], s) \subseteq Stats
      BY <2>2, SampleType
    <2> QED BY <1>2, <2>2, <2>3 DEF Sampled
  <1> QED BY <1>1, <1>2 DEF sssample_parent

LEMMA SampleTypeOK ==
  ASSUME StoreTypeOK, NEW k \in Keys, NEW s \in Int, NEW ok, sssample(k, s, ok)
  PROVE  StoreTypeOK'
  <1>1. UNCHANGED <<tst, free, db, loaded, redeleted>>
    BY DEF sssample
  <1>2. CASE UNCHANGED <<mem, counted>>
    BY <1>1, <1>2 DEF StoreTypeOK
  <1>3. ASSUME HasStats(k), NEW rc \in -1 .. 1, NEW st \in Stats_sample(mem[tst[k].st], s),
               sssample_parent(k, s, [mem EXCEPT ![tst[k].st] = st], mem', rc)
        PROVE  mem' \in [Blocks -> Stats]
    <2>1. tst[k].st \in Blocks
      BY <1>3, RecordBlock DEF HasStats
    <2>2. st \in Stats
      BY <1>3, <2>1, SampleType DEF StoreTypeOK
    <2>3. [mem EXCEPT ![tst[k].st] = st] \in [Blocks -> Stats]
      BY <2>1, <2>2 DEF StoreTypeOK
    <2> QED BY <1>3, <2>3, SampleParentType
  <1>4. CASE ~UNCHANGED <<mem, counted>>
    <2>1. mem' \in [Blocks -> Stats]
      BY <1>3, <1>4 DEF sssample
    <2>2. \A j \in Keys : counted[j] \in Seq(Int) /\ Append(counted[j], s) \in Seq(Int)
      BY AppendProperties DEF StoreTypeOK
    <2>3. counted' = [j \in Keys |-> IF j \in Counting(k) /\ ~redeleted
                                      THEN Append(counted[j], s) ELSE counted[j]]
      BY <1>4 DEF sssample
    <2>4. counted' \in [Keys -> Seq(Int)]
      BY <2>2, <2>3
    <2> QED BY <1>1, <2>1, <2>4 DEF StoreTypeOK
  <1> QED BY <1>2, <1>4

LEMMA StoreActionTypeOK ==
  ASSUME StoreTypeOK, NEW k \in Keys, NEW rc, ssstore(k, rc)
  PROVE  StoreTypeOK'
  <1>1. UNCHANGED <<tst, mem, free, loaded, counted, redeleted>>
    BY DEF ssstore
  <1>2. CASE UNCHANGED db
    BY <1>1, <1>2 DEF StoreTypeOK
  <1>3. ASSUME HasStats(k), NEW text \in Stats_stringify(mem[tst[k].st]),
               db' = [db EXCEPT ![k] = text]
        PROVE  db' \in [Keys -> Stats \cup {NoText}]
    <2>1. mem[tst[k].st] \in Stats
      BY <1>3, RecordBlock DEF HasStats, StoreTypeOK
    <2>2. text \in Stats
      BY <2>1, StringifyType
    <2> QED BY <1>3, <2>2 DEF StoreTypeOK
  <1>4. CASE ~UNCHANGED db
    <2>1. db' \in [Keys -> Stats \cup {NoText}]
      BY <1>3, <1>4 DEF ssstore
    <2> QED BY <1>1, <2>1 DEF StoreTypeOK
  <1> QED BY <1>2, <1>4

LEMMA LoadTypeOK ==
  ASSUME StoreTypeOK, NEW from \in Keys, NEW to \in Keys, NEW rc, ssload(from, to, rc)
  PROVE  StoreTypeOK'
  <1>1. UNCHANGED <<db, redeleted>>
    BY DEF ssload
  <1>2. CanLoad(from, to) => db[from] \in Stats
    BY DEF CanLoad, StoreTypeOK
  <1>3. CASE UNCHANGED <<tst, mem, free, loaded, counted>>
    BY <1>1, <1>3 DEF StoreTypeOK
  <1>4. CASE CanLoad(from, to) /\ (\E b \in Blocks : Allocate(b, db[from]))
             /\ UNCHANGED <<tst, loaded, counted>>
    BY <1>1, <1>2, <1>4, AllocateType DEF StoreTypeOK
  <1>5. CASE /\ CanLoad(from, to)
             /\ \E b \in Blocks, st \in Stats_unstringify(db[from], "overread" \in Faults) :
                  Allocate(b, st) /\ Insert(to, b)
             /\ loaded' = loaded \cup {to}
             /\ counted' = [counted EXCEPT ![to] = <<>>]
    <2>1. PICK b \in Blocks, st \in Stats_unstringify(db[from], "overread" \in Faults) :
            Allocate(b, st) /\ Insert(to, b)
      BY <1>5
    <2>2. st \in Stats
      <3>1. ("overread" \in Faults) \in BOOLEAN
        OBVIOUS
      <3> QED BY <3>1, <1>2, <1>5, <2>1, UnstringifyType
    <2>3. mem' \in [Blocks -> Stats] /\ free' \in [Blocks -> 0 .. MaxFree]
      BY <2>1, <2>2, AllocateType
    <2>4. tst' \in [Keys -> Record]
      BY <2>1, InsertType
    <2>5. counted' \in [Keys -> Seq(Int)]
      BY <1>5 DEF StoreTypeOK
    <2> QED BY <1>1, <1>5, <2>3, <2>4, <2>5 DEF StoreTypeOK
  <1> QED BY <1>3, <1>4, <1>5 DEF ssload

(* The calls that read only, and the steps that end a session. *)
LEMMA UnchangedTypeOK == StoreTypeOK /\ UNCHANGED ssvars => StoreTypeOK'
  BY DEF ssvars, StoreTypeOK

LEMMA EmptyTypeOK ==
  /\ EmptyTree \in [Keys -> Record]
  /\ EmptyMem \in [Blocks -> Stats]
  /\ EmptyFree \in [Blocks -> 0 .. MaxFree]
  /\ NoSamples \in [Keys -> Seq(Int)]
  BY CreateType, MaxFreeAssumption DEF EmptyTree, EmptyMem, EmptyFree, NoSamples, NoRecord, Record

LEMMA ExitTypeOK == StoreTypeOK /\ Exit => StoreTypeOK'
  BY EmptyTypeOK DEF StoreTypeOK, Exit

(* Every step takes the key store through one of its operations. *)
LEMMA StepCases ==
  ASSUME Next
  PROVE  \/ \E k \in Keys, rc \in {-1, 0, 1, 2} : sscreate(k, rc)
         \/ \E k \in Keys, rc \in {-1, 0} : ssdelete(k, rc)
         \/ \E k \in Keys, s \in Samples, ok \in BOOLEAN : sssample(k, s, ok)
         \/ \E k \in Keys, rc \in {-1, 0} : ssstore(k, rc)
         \/ \E from, to \in Keys, rc \in {-2, -1, 0} : ssload(from, to, rc)
         \/ \E k \in Keys : OtherSessionStores(k)
         \/ UNCHANGED ssvars
         \/ Exit
  <1>1. CASE \E k \in Keys : NS_CREATE(k) \/ NS_DELETE(k) \/ NS_MEAN(k) \/ NS_DUMP(k)
                             \/ OtherSessionStores(k)
    BY <1>1 DEF NS_CREATE, NS_DELETE, NS_MEAN, NS_DUMP, ssmean, ssdump
  <1>2. CASE \E k \in Stored : NS_STORE(k)
    BY <1>2, StoredAssumption DEF NS_STORE
  <1>3. CASE \E k \in Keys, s \in Samples : NS_SAMPLE(k, s)
    BY <1>3 DEF NS_SAMPLE
  <1>4. CASE \E from, to \in Keys : NS_LOAD(from, to)
    BY <1>4 DEF NS_LOAD
  <1>5. CASE NS_LIST \/ NS_NOP \/ Respond \/ Connect
    BY <1>5 DEF NS_LIST, NS_NOP, Respond, Connect, sslist
  <1>6. CASE Close \/ Abort
    BY <1>6 DEF Close, Abort
  <1> QED BY <1>1, <1>2, <1>3, <1>4, <1>5, <1>6 DEF Next

LEMMA StoreTypeStep ==
  ASSUME StoreTypeOK, Next
  PROVE  StoreTypeOK'
  <1>1. CASE \E k \in Keys : OtherSessionStores(k)
    <2>1. PICK k \in Keys : OtherSessionStores(k)
      BY <1>1
    <2>2. db' \in [Keys -> Stats \cup {NoText}]
      BY <2>1, OtherStoresAssumption DEF OtherSessionStores, StoreTypeOK
    <2> QED BY <2>1, <2>2 DEF OtherSessionStores, StoreTypeOK
  <1>2. CASE \E k \in Keys, s \in Samples, ok \in BOOLEAN : sssample(k, s, ok)
    BY <1>2, SampleTypeOK, SamplesAssumption
  <1> QED
    BY <1>1, <1>2, StepCases, CreateTypeOK, DeleteTypeOK, StoreActionTypeOK, LoadTypeOK,
       UnchangedTypeOK, ExitTypeOK

LEMMA ControlTypeStep ==
  ASSUME TypeOK, Next
  PROVE  /\ pc' \in {"recv", "respond", "closing", "exited"}
         /\ out' \in Texts
  <1>1. \A ok \in BOOLEAN, text \in Texts : Answer(ok, text) =>
          pc' \in {"recv", "respond", "closing", "exited"} /\ out' \in Texts
    BY DEF Answer, Texts
  <1>2. {"OK", "Mean", "dump", "keys", "EMPTY", ""} \subseteq Texts
    BY DEF Texts
  <1>3. CASE \E k \in Keys : NS_CREATE(k) \/ NS_DELETE(k) \/ NS_MEAN(k) \/ NS_DUMP(k)
    <2>1. PICK k \in Keys : NS_CREATE(k) \/ NS_DELETE(k) \/ NS_MEAN(k) \/ NS_DUMP(k)
      BY <1>3
    <2>2. CASE NS_CREATE(k)
      <3>1. PICK rc \in {-1, 0, 1, 2} : Answer(rc >= 0, "OK")
        BY <2>2 DEF NS_CREATE
      <3>2. (rc >= 0) \in BOOLEAN
        OBVIOUS
      <3> QED BY <3>1, <3>2, <1>1, <1>2
    <2>3. CASE NS_DELETE(k)
      BY <2>3, <1>1, <1>2 DEF NS_DELETE
    <2>4. CASE NS_MEAN(k)
      <3>1. PICK ok \in BOOLEAN : Answer(ok /\ ~MeanIsNegative(mem[tst[k].st]), "Mean")
        BY <2>4 DEF NS_MEAN
      <3> QED BY <3>1, <1>1, <1>2
    <2>5. CASE NS_DUMP(k)
      BY <2>5, <1>1, <1>2 DEF NS_DUMP
    <2> QED BY <2>1, <2>2, <2>3, <2>4, <2>5
  <1>4. CASE \E k \in Keys : OtherSessionStores(k)
    BY <1>4 DEF OtherSessionStores, TypeOK
  <1>5. CASE \E k \in Stored : NS_STORE(k)
    BY <1>5, <1>1, <1>2 DEF NS_STORE
  <1>6. CASE \E k \in Keys, s \in Samples : NS_SAMPLE(k, s)
    <2>1. PICK k \in Keys, s \in Samples, ok \in BOOLEAN :
            Answer(ok /\ ~MeanIsNegative(mem'[tst[k].st]), "Mean")
      BY <1>6 DEF NS_SAMPLE
    <2> QED BY <2>1, <1>1, <1>2
  <1>7. CASE \E from, to \in Keys : NS_LOAD(from, to)
    BY <1>7, <1>1, <1>2 DEF NS_LOAD
  <1>8. CASE NS_LIST
    BY <1>8, <1>1, <1>2 DEF NS_LIST
  <1>9. CASE NS_NOP \/ Respond \/ Connect \/ Close \/ Abort
    BY <1>9 DEF NS_NOP, Respond, Connect, Close, Abort, Exit, TypeOK, Texts
  <1> QED BY <1>3, <1>4, <1>5, <1>6, <1>7, <1>8, <1>9 DEF Next

(* Every variable stays within its type, whatever fails. *)
THEOREM SpecTypeOK == Spec => []TypeOK
  <1>1. Init => TypeOK
    BY EmptyTypeOK DEF Init, TypeOK, StoreTypeOK, Texts
  <1>2. TypeOK /\ [Next]_vars => TypeOK'
    <2>1. CASE Next
      BY <2>1, StoreTypeStep, ControlTypeStep DEF TypeOK
    <2>2. CASE UNCHANGED vars
      BY <2>2 DEF vars, TypeOK, StoreTypeOK
    <2> QED BY <2>1, <2>2
  <1> QED BY <1>1, <1>2, PTL DEF Spec

----------------------------------------------------------------------------
(* Ownership of the heap blocks. *)

LEMMA InsertOwnership ==
  ASSUME StoreTypeOK, Ownership, NEW k \in Keys, NEW b \in Blocks, NEW st,
         Allocate(b, st), Insert(k, b), redeleted' = redeleted
  PROVE  Ownership'
  <1> SUFFICES ASSUME ~redeleted' PROVE /\ \A j \in Keys : HasStats(j)' => free'[tst'[j].st] = 0
                                        /\ \A i, j \in Keys : HasStats(i)' /\ HasStats(j)'
                                             /\ tst'[i].st = tst'[j].st => i = j
                                        /\ \A c \in Blocks : free'[c] <= 1
    BY DEF Ownership, HasStats, Live
  <1>1. /\ \A j \in Keys : HasStats(j) => free[tst[j].st] = 0
        /\ \A i, j \in Keys : HasStats(i) /\ HasStats(j) /\ tst[i].st = tst[j].st => i = j
        /\ \A c \in Blocks : free[c] <= 1
    BY DEF Ownership
  <1>2. /\ free \in [Blocks -> 0 .. MaxFree] /\ free[b] = 1
        /\ free' = [free EXCEPT ![b] = 0]
    <2>1. free[b] = 1
      BY <1>1, MaxFreeAssumption DEF StoreTypeOK, Allocate
    <2>2. free[b] - 1 = 0
      BY <2>1
    <2> QED BY <2>1, <2>2 DEF StoreTypeOK, Allocate
  <1>3. tst'[k].st = b /\ \A j \in Keys \ {k} : tst'[j] = tst[j]
    BY DEF Insert, StoreTypeOK
  <1>4. ASSUME NEW j \in Keys, j # k, HasStats(j)'
        PROVE  HasStats(j) /\ tst'[j].st \in Blocks \ {b}
    BY <1>1, <1>2, <1>3, <1>4, RecordBlock DEF HasStats, Live
  <1>5. \A j \in Keys : HasStats(j)' => free'[tst'[j].st] = 0
    BY <1>1, <1>2, <1>3, <1>4
  <1>6. \A i, j \in Keys : HasStats(i)' /\ HasStats(j)' /\ tst'[i].st = tst'[j].st => i = j
    BY <1>1, <1>3, <1>4
  <1> QED BY <1>1, <1>2, <1>5, <1>6

LEMMA CreateOwnership ==
  ASSUME StoreTypeOK, Ownership, NEW k \in Keys, NEW rc, sscreate(k, rc)
  PROVE  Ownership'
  <1>1. redeleted' = redeleted
    BY DEF sscreate
  <1>2. CASE UNCHANGED <<tst, mem, free, loaded, counted>>
    BY <1>1, <1>2 DEF Ownership, HasStats, Live
  <1>3. CASE \E b \in Blocks : Allocate(b, Stats_create) /\ Insert(k, b)
    BY <1>1, <1>3, InsertOwnership
  <1>4. CASE Insert(k, NULL) /\ UNCHANGED <<mem, free, counted>>
    <2>1. \A j \in Keys : HasStats(j)' => HasStats(j) /\ tst'[j].st = tst[j].st
      BY <1>4 DEF Insert, StoreTypeOK, HasStats, Live
    <2> QED BY <1>1, <1>4, <2>1 DEF Ownership
  <1>5. CASE (\E b \in Blocks : Allocate(b, Stats_create)) /\ UNCHANGED <<tst, loaded, counted>>
    <2>1. \A c \in Blocks : free[c] <= 1 => free'[c] <= 1
      BY <1>5, MaxFreeAssumption DEF Allocate, StoreTypeOK
    <2>2. \A c \in Blocks : free[c] = 0 => free'[c] = 0
      BY <1>5, MaxFreeAssumption DEF Allocate, StoreTypeOK
    <2>3. \A j \in Keys : HasStats(j)' => HasStats(j) /\ tst'[j].st = tst[j].st
      BY <1>5 DEF HasStats, Live
    <2> QED BY <1>1, <2>1, <2>2, <2>3, RecordBlock DEF Ownership, HasStats
  <1> QED BY <1>2, <1>3, <1>4, <1>5 DEF sscreate

LEMMA LoadOwnership ==
  ASSUME StoreTypeOK, Ownership, NEW from \in Keys, NEW to \in Keys, NEW rc,
         ssload(from, to, rc)
  PROVE  Ownership'
  <1>1. redeleted' = redeleted
    BY DEF ssload
  <1>2. CASE UNCHANGED <<tst, mem, free, loaded, counted>>
    BY <1>1, <1>2 DEF Ownership, HasStats, Live
  <1>3. CASE \E b \in Blocks, st \in Stats_unstringify(db[from], "overread" \in Faults) :
               Allocate(b, st) /\ Insert(to, b)
    BY <1>1, <1>3, InsertOwnership
  <1>4. CASE (\E b \in Blocks : Allocate(b, db[from])) /\ UNCHANGED <<tst, loaded, counted>>
    <2>1. \A c \in Blocks : free[c] <= 1 => free'[c] <= 1
      BY <1>4, MaxFreeAssumption DEF Allocate, StoreTypeOK
    <2>2. \A c \in Blocks : free[c] = 0 => free'[c] = 0
      BY <1>4, MaxFreeAssumption DEF Allocate, StoreTypeOK
    <2>3. \A j \in Keys : HasStats(j)' => HasStats(j) /\ tst'[j].st = tst[j].st
      BY <1>4 DEF HasStats, Live
    <2> QED BY <1>1, <2>1, <2>2, <2>3, RecordBlock DEF Ownership, HasStats
  <1> QED BY <1>2, <1>3, <1>4 DEF ssload

LEMMA DeleteOwnership ==
  ASSUME StoreTypeOK, Ownership, NEW k \in Keys, NEW rc, ssdelete(k, rc)
  PROVE  Ownership'
  <1>1. CASE UNCHANGED <<tst, mem, free, counted, redeleted>>
    BY <1>1 DEF Ownership, HasStats, Live
  <1>2. CASE /\ tst[k].status # "absent"
             /\ MarkDeleted(k)
             /\ \/ tst[k].st = NULL /\ UNCHANGED heap
                \/ tst[k].st # NULL /\ free[tst[k].st] < MaxFree /\ Release(tst[k].st)
             /\ redeleted' = (redeleted \/ (Deleted(k) /\ tst[k].st # NULL))
    <2> SUFFICES ASSUME ~redeleted' PROVE Ownership'
      BY DEF Ownership
    <2>1. /\ \A j \in Keys : HasStats(j) => free[tst[j].st] = 0
          /\ \A i, j \in Keys : HasStats(i) /\ HasStats(j) /\ tst[i].st = tst[j].st => i = j
          /\ \A c \in Blocks : free[c] <= 1
      BY <1>2 DEF Ownership
    <2>2. \A j \in Keys : HasStats(j)' => j # k /\ HasStats(j) /\ tst'[j].st = tst[j].st
      <3>1. tst'[k].status = "deleted" /\ \A j \in Keys \ {k} : tst'[j] = tst[j]
        BY <1>2 DEF MarkDeleted, StoreTypeOK, Record
      <3> QED BY <3>1 DEF HasStats, Live
    <2>3. CASE tst[k].st = NULL
      BY <1>2, <2>1, <2>2, <2>3 DEF heap, Ownership
    <2>4. CASE tst[k].st # NULL
      <3>1. HasStats(k)
        <4>1. tst[k].status \in {"absent", "live", "deleted"}
          BY DEF StoreTypeOK, Record
        <4> QED BY <4>1, <1>2, <2>4 DEF HasStats, Live, Deleted
      <3>2. free[tst[k].st] = 0 /\ tst[k].st \in Blocks
        BY <3>1, <2>1, <2>4, RecordBlock
      <3>3. free' = [free EXCEPT ![tst[k].st] = 1]
        BY <1>2, <2>4, <3>2 DEF Release
      <3>4. \A c \in Blocks : free'[c] <= 1
        BY <2>1, <3>3 DEF StoreTypeOK
      <3>5. \A j \in Keys : HasStats(j)' => free'[tst'[j].st] = 0
        BY <2>1, <2>2, <3>1, <3>2, <3>3, RecordBlock DEF StoreTypeOK, HasStats
      <3> QED BY <2>1, <2>2, <3>4, <3>5 DEF Ownership
    <2> QED BY <2>3, <2>4
  <1> QED BY <1>1, <1>2 DEF ssdelete

(* The tree and the free list stay as they are. *)
LEMMA SameOwnership ==
  Ownership /\ UNCHANGED <<tst, free, redeleted>> => Ownership'
  BY DEF Ownership, HasStats, Live

LEMMA EmptyOwnership ==
  ASSUME tst = EmptyTree, free = EmptyFree
  PROVE  Ownership
  BY DEF Ownership, HasStats, Live, EmptyTree, EmptyFree, NoRecord

LEMMA EmptyOwnershipNext ==
  ASSUME tst' = EmptyTree, free' = EmptyFree
  PROVE  Ownership'
  BY DEF Ownership, HasStats, Live, EmptyTree, EmptyFree, NoRecord

LEMMA OwnershipStep ==
  ASSUME TypeOK, Ownership, Next
  PROVE  Ownership'
  <1>1. StoreTypeOK
    BY DEF TypeOK
  <1>2. CASE \E k \in Keys, s \in Samples, ok \in BOOLEAN : sssample(k, s, ok)
    BY <1>2, SameOwnership DEF sssample
  <1>3. CASE \E k \in Keys, rc \in {-1, 0} : ssstore(k, rc)
    BY <1>3, SameOwnership DEF ssstore
  <1>4. CASE (\E k \in Keys : OtherSessionStores(k)) \/ UNCHANGED ssvars
    BY <1>4, SameOwnership DEF OtherSessionStores, ssvars
  <1>5. CASE Exit
    BY <1>5, EmptyOwnershipNext DEF Exit
  <1> QED BY <1>1, <1>2, <1>3, <1>4, <1>5, StepCases, CreateOwnership, DeleteOwnership, LoadOwnership

(* Until a client deletes a name twice, live records own their blocks. *)
THEOREM SpecOwnership == Spec => []Ownership
  <1>1. Init => Ownership
    BY EmptyOwnership DEF Init
  <1>2. TypeOK /\ Ownership /\ [Next]_vars => Ownership'
    BY OwnershipStep, SameOwnership DEF vars
  <1> QED BY <1>1, <1>2, SpecTypeOK, PTL DEF Spec

----------------------------------------------------------------------------
(* What an operation leaves alone. *)

(* A block that is handed out is nobody's. *)
LEMMA AllocateKeeps ==
  ASSUME StoreTypeOK, Ownership, ~redeleted, NEW b \in Blocks, NEW st, Allocate(b, st),
         NEW j \in Keys, HasStats(j)
  PROVE  mem'[tst[j].st] = mem[tst[j].st]
  <1>1. free[tst[j].st] = 0 /\ tst[j].st \in Blocks
    BY RecordBlock DEF Ownership, HasStats
  <1>2. tst[j].st # b
    BY <1>1 DEF Allocate
  <1> QED BY <1>1, <1>2 DEF Allocate, StoreTypeOK

(* A record inserted for a name that was not alive disturbs no other. *)
LEMMA InsertKeeps ==
  ASSUME StoreTypeOK, NEW k \in Keys, ~Live(k), NEW st, Insert(k, st),
         NEW j \in Keys, Live(j)
  PROVE  tst'[j] = tst[j] /\ (HasStats(j)' => HasStats(j))
  BY DEF Insert, StoreTypeOK, HasStats, Live

(* Only the record of the name that is deleted gives up its statistics. *)
LEMMA DeleteKeeps ==
  ASSUME StoreTypeOK, Ownership, NEW k \in Keys, NEW rc, ssdelete(k, rc), ~redeleted',
         NEW j \in Keys, HasStats(j)'
  PROVE  HasStats(j) /\ tst'[j] = tst[j] /\ mem'[tst[j].st] = mem[tst[j].st]
  <1>1. CASE UNCHANGED <<tst, mem, free, counted, redeleted>>
    BY <1>1 DEF HasStats, Live
  <1>2. CASE /\ tst[k].status # "absent"
             /\ MarkDeleted(k)
             /\ \/ tst[k].st = NULL /\ UNCHANGED heap
                \/ tst[k].st # NULL /\ free[tst[k].st] < MaxFree /\ Release(tst[k].st)
             /\ redeleted' = (redeleted \/ (Deleted(k) /\ tst[k].st # NULL))
    <2>1. tst'[k].status = "deleted" /\ \A i \in Keys \ {k} : tst'[i] = tst[i]
      BY <1>2 DEF MarkDeleted, StoreTypeOK, Record
    <2>2. j # k /\ HasStats(j) /\ tst'[j] = tst[j]
      BY <2>1 DEF HasStats, Live
    <2>3. mem'[tst[j].st] = mem[tst[j].st]
      <3>1. CASE tst[k].st = NULL
        BY <1>2, <3>1 DEF heap
      <3>2. CASE tst[k].st # NULL
        <4>1. HasStats(k)
          <5>1. tst[k].status \in {"absent", "live", "deleted"}
            BY DEF StoreTypeOK, Record
          <5> QED BY <5>1, <1>2, <3>2 DEF HasStats, Live, Deleted
        <4>2. tst[k].st # tst[j].st
          BY <1>2, <2>2, <4>1 DEF Ownership
        <4> QED BY <1>2, <3>2, <4>2, <2>2, RecordBlock DEF Release, StoreTypeOK, HasStats
      <3> QED BY <3>1, <3>2
    <2> QED BY <2>2, <2>3
  <1> QED BY <1>1, <1>2 DEF ssdelete

----------------------------------------------------------------------------
(* The database. *)

(* Every text in the database can be loaded and stored without change. *)
THEOREM SpecDbTextsStable == Spec => []DbTextsStable
  <1>1. Init => DbTextsStable
    BY DEF Init, DbTextsStable
  <1>2. TypeOK /\ DbTextsStable /\ [Next]_vars => DbTextsStable'
    <2> SUFFICES ASSUME TypeOK, DbTextsStable, [Next]_vars PROVE DbTextsStable'
      OBVIOUS
    <2>1. StoreTypeOK
      BY DEF TypeOK
    <2>2. CASE UNCHANGED db
      BY <2>2 DEF DbTextsStable
    <2>3. CASE \E k \in Keys, rc \in {-1, 0} : ssstore(k, rc)
      <3>1. PICK k \in Keys, rc \in {-1, 0} : ssstore(k, rc)
        BY <2>3
      <3>2. CASE UNCHANGED db
        BY <3>2 DEF DbTextsStable
      <3>3. CASE HasStats(k) /\ \E text \in Stats_stringify(mem[tst[k].st]) : db' = [db EXCEPT ![k] = text]
        <4>1. mem[tst[k].st] \in Stats
          BY <2>1, <3>3, RecordBlock DEF HasStats, StoreTypeOK
        <4> QED BY <2>1, <3>3, <4>1, StringifyStable DEF DbTextsStable, StoreTypeOK
      <3> QED BY <3>1, <3>2, <3>3 DEF ssstore
    <2>4. CASE \E k \in Keys : OtherSessionStores(k)
      BY <2>1, <2>4, OtherStoresAssumption DEF OtherSessionStores, DbTextsStable, StoreTypeOK
    <2>5. CASE Next
      BY <2>2, <2>3, <2>4, <2>5, StepCases DEF sscreate, ssdelete, sssample, ssload, ssvars, Exit
    <2>6. CASE UNCHANGED vars
      BY <2>2, <2>6 DEF vars
    <2> QED BY <2>5, <2>6
  <1> QED BY <1>1, <1>2, SpecTypeOK, PTL DEF Spec

----------------------------------------------------------------------------
(* What a session that goes on can rely on.  The properties speak of the   *)
(* states "recv" and "respond"; they are inductive when they also hold in  *)
(* "exited", from where the next session starts.                           *)

Going == pc # "closing"

LiveHaveStats == Going => \A k \in Keys : Live(k) => tst[k].st # NULL

UsedBlocksAreOwned ==
  Going /\ ~redeleted =>
    \A b \in Blocks : free[b] = 0 => \E k \in Keys : Live(k) /\ tst[k].st = b

(* A session never goes on after an operation that failed. *)
LEMMA GoingCases ==
  ASSUME Next, Going'
  PROVE  \/ Exit
         \/ /\ Going
            /\ \/ \E k \in Keys, rc \in {0, 1, 2} : sscreate(k, rc)
               \/ \E k \in Keys, rc \in {-1, 0} : ssdelete(k, rc)
               \/ \E from, to \in Keys : ssload(from, to, 0)
               \/ UNCHANGED <<tst, free, redeleted>>
  <1>1. \A ok, text : Answer(ok, text) => Going /\ ok
    BY DEF Answer, Going
  <1>2. CASE \E k \in Keys : NS_CREATE(k)
    <2>1. PICK k \in Keys, rc \in {-1, 0, 1, 2} : sscreate(k, rc) /\ Answer(rc >= 0, "OK")
      BY <1>2 DEF NS_CREATE
    <2>2. Going /\ rc >= 0
      BY <2>1 DEF Answer, Going
    <2> QED BY <2>1, <2>2
  <1>3. CASE \E k \in Keys : NS_DELETE(k)
    BY <1>3 DEF NS_DELETE, Answer, Going
  <1>4. CASE \E from, to \in Keys : NS_LOAD(from, to)
    <2>1. PICK from \in Keys, to \in Keys, rc \in {-2, -1, 0} :
            ssload(from, to, rc) /\ Answer(rc = 0, "OK")
      BY <1>4 DEF NS_LOAD
    <2>2. Going /\ rc = 0
      BY <2>1 DEF Answer, Going
    <2> QED BY <2>1, <2>2
  <1>5. CASE \E k \in Keys : NS_MEAN(k) \/ NS_DUMP(k)
    BY <1>5 DEF NS_MEAN, NS_DUMP, ssmean, ssdump, ssvars, Answer, Going
  <1>6. CASE \E k \in Stored : NS_STORE(k)
    BY <1>6 DEF NS_STORE, ssstore, Answer, Going
  <1>7. CASE \E k \in Keys, s \in Samples : NS_SAMPLE(k, s)
    BY <1>7 DEF NS_SAMPLE, sssample, Answer, Going
  <1>8. CASE NS_LIST
    BY <1>8 DEF NS_LIST, sslist, ssvars, Answer, Going
  <1>9. CASE NS_NOP \/ Respond \/ Connect \/ \E k \in Keys : OtherSessionStores(k)
    BY <1>9 DEF NS_NOP, Respond, Connect, OtherSessionStores, ssvars, Going
  <1>10. CASE Close \/ Abort
    BY <1>10 DEF Close, Abort
  <1> QED BY <1>2, <1>3, <1>4, <1>5, <1>6, <1>7, <1>8, <1>9, <1>10 DEF Next

LEMMA EmptyTreeHasNothing ==
  /\ tst = EmptyTree => \A k \in Keys : ~Live(k)
  /\ tst' = EmptyTree => \A k \in Keys : ~Live(k)'
  BY DEF EmptyTree, NoRecord, Live

LEMMA LiveHaveStatsStep ==
  ASSUME TypeOK, LiveHaveStats, Next
  PROVE  LiveHaveStats'
  <1> SUFFICES ASSUME Going', NEW j \in Keys, Live(j)'
               PROVE  tst'[j].st # NULL
    BY DEF LiveHaveStats, Live
  <1>1. tst \in [Keys -> Record]
    BY DEF TypeOK, StoreTypeOK
  <1>2. CASE Exit
    BY <1>2, EmptyTreeHasNothing DEF Exit
  <1>3. CASE Going /\ UNCHANGED tst
    BY <1>3 DEF LiveHaveStats, Live
  <1>4. ASSUME Going, NEW k \in Keys, NEW b \in Blocks, Insert(k, b)
        PROVE  tst'[j].st # NULL
    BY <1>1, <1>4, NullAssumption DEF Insert, LiveHaveStats, Live
  <1>5. ASSUME Going, NEW k \in Keys, MarkDeleted(k)
        PROVE  tst'[j].st # NULL
    BY <1>1, <1>5 DEF MarkDeleted, LiveHaveStats, Live, Record
  <1>6. CASE Going /\ \E k \in Keys, rc \in {0, 1, 2} : sscreate(k, rc)
    BY <1>3, <1>4, <1>6 DEF sscreate
  <1>7. CASE Going /\ \E k \in Keys, rc \in {-1, 0} : ssdelete(k, rc)
    BY <1>3, <1>5, <1>7 DEF ssdelete
  <1>8. CASE Going /\ \E from, to \in Keys : ssload(from, to, 0)
    BY <1>3, <1>4, <1>8 DEF ssload
  <1> QED BY <1>2, <1>3, <1>6, <1>7, <1>8, GoingCases

(* No command of a session meets a live record without statistics. *)
THEOREM SpecOpenSessionHasStats == Spec => []OpenSessionHasStats
  <1>1. Init => LiveHaveStats
    BY EmptyTreeHasNothing DEF Init, LiveHaveStats
  <1>2. TypeOK /\ LiveHaveStats /\ [Next]_vars => LiveHaveStats'
    <2>1. UNCHANGED vars /\ LiveHaveStats => LiveHaveStats'
      BY DEF vars, LiveHaveStats, Going, Live
    <2> QED BY <2>1, LiveHaveStatsStep
  <1>3. LiveHaveStats => OpenSessionHasStats
    BY DEF LiveHaveStats, OpenSessionHasStats, Going
  <1> QED BY <1>1, <1>2, <1>3, SpecTypeOK, PTL DEF Spec

LEMMA InsertOwned ==
  ASSUME StoreTypeOK, UsedBlocksAreOwned, Going, redeleted' = redeleted,
         NEW k \in Keys, ~Live(k), NEW b \in Blocks, NEW st, Allocate(b, st), Insert(k, b)
  PROVE  UsedBlocksAreOwned'
  <1> SUFFICES ASSUME ~redeleted, NEW c \in Blocks, free'[c] = 0
               PROVE  \E j \in Keys : Live(j)' /\ tst'[j].st = c
    BY DEF UsedBlocksAreOwned, Live
  <1>1. /\ tst'[k].status = "live" /\ tst'[k].st = b
        /\ \A j \in Keys \ {k} : tst'[j] = tst[j]
    BY DEF Insert, StoreTypeOK
  <1>2. CASE c = b
    BY <1>1, <1>2 DEF Live
  <1>3. CASE c # b
    <2>1. free[c] = 0
      BY <1>3 DEF Allocate, StoreTypeOK
    <2>2. PICK j \in Keys : Live(j) /\ tst[j].st = c
      BY <2>1 DEF UsedBlocksAreOwned
    <2> QED BY <1>1, <2>2 DEF Live
  <1> QED BY <1>2, <1>3

LEMMA DeleteOwned ==
  ASSUME StoreTypeOK, Ownership, UsedBlocksAreOwned, Going,
         NEW k \in Keys, NEW rc, ssdelete(k, rc), ~redeleted',
         NEW c \in Blocks, free'[c] = 0
  PROVE  \E j \in Keys : Live(j)' /\ tst'[j].st = c
  <1>1. CASE UNCHANGED <<tst, mem, free, counted, redeleted>>
    BY <1>1 DEF UsedBlocksAreOwned, Live
  <1>2. CASE /\ tst[k].status # "absent"
             /\ MarkDeleted(k)
             /\ \/ tst[k].st = NULL /\ UNCHANGED heap
                \/ tst[k].st # NULL /\ free[tst[k].st] < MaxFree /\ Release(tst[k].st)
             /\ redeleted' = (redeleted \/ (Deleted(k) /\ tst[k].st # NULL))
    <2>1. \A j \in Keys \ {k} : tst'[j] = tst[j]
      BY <1>2 DEF MarkDeleted, StoreTypeOK
    <2>2. free[c] = 0 /\ tst[k].st # c
      <3>1. CASE tst[k].st = NULL
        BY <1>2, <3>1, NullAssumption DEF heap
      <3>2. CASE tst[k].st # NULL
        <4>1. tst[k].st \in Blocks
          BY <3>2, RecordBlock
        <4>2. free'[tst[k].st] > 0
          BY <1>2, <3>2, <4>1 DEF Release, StoreTypeOK
        <4>3. tst[k].st # c
          BY <4>2
        <4> QED BY <1>2, <3>2, <4>3 DEF Release, StoreTypeOK
      <3> QED BY <3>1, <3>2
    <2>3. PICK j \in Keys : Live(j) /\ tst[j].st = c
      BY <1>2, <2>2 DEF UsedBlocksAreOwned
    <2> QED BY <2>1, <2>2, <2>3 DEF Live
  <1> QED BY <1>1, <1>2 DEF ssdelete

LEMMA UsedBlocksStep ==
  ASSUME TypeOK, Ownership, UsedBlocksAreOwned, Next
  PROVE  UsedBlocksAreOwned'
  <1> SUFFICES ASSUME Going' PROVE UsedBlocksAreOwned'
    BY DEF UsedBlocksAreOwned
  <1>1. StoreTypeOK
    BY DEF TypeOK
  <1>2. CASE Exit
    <2>1. \A b \in Blocks : free'[b] = 1
      BY <1>2 DEF Exit, EmptyFree
    <2>2. \A b \in Blocks : free'[b] # 0
      BY <2>1
    <2> QED BY <2>2 DEF UsedBlocksAreOwned
  <1>3. CASE Going /\ UNCHANGED <<tst, free, redeleted>>
    BY <1>3 DEF UsedBlocksAreOwned, Live
  <1>4. CASE Going /\ \E k \in Keys, rc \in {0, 1, 2} : sscreate(k, rc)
    BY <1>1, <1>3, <1>4, InsertOwned DEF sscreate
  <1>5. CASE Going /\ \E k \in Keys, rc \in {-1, 0} : ssdelete(k, rc)
    BY <1>1, <1>5, DeleteOwned DEF UsedBlocksAreOwned, Live
  <1>6. CASE Going /\ \E from, to \in Keys : ssload(from, to, 0)
    BY <1>1, <1>3, <1>6, InsertOwned DEF ssload, CanLoad
  <1> QED BY <1>2, <1>3, <1>4, <1>5, <1>6, GoingCases

(* A session that goes on has lost no Stats. *)
THEOREM SpecNoStatsLeak == Spec => []NoStatsLeak
  <1>1. Init => UsedBlocksAreOwned
    <2> SUFFICES ASSUME Init PROVE UsedBlocksAreOwned
      OBVIOUS
    <2>1. \A b \in Blocks : free[b] = 1
      BY DEF Init, EmptyFree
    <2>2. \A b \in Blocks : free[b] # 0
      BY <2>1
    <2> QED BY <2>2 DEF UsedBlocksAreOwned
  <1>2. TypeOK /\ Ownership /\ UsedBlocksAreOwned /\ [Next]_vars => UsedBlocksAreOwned'
    <2>1. UNCHANGED vars /\ UsedBlocksAreOwned => UsedBlocksAreOwned'
      BY DEF vars, UsedBlocksAreOwned, Going, Live
    <2> QED BY <2>1, UsedBlocksStep
  <1>3. UsedBlocksAreOwned => NoStatsLeak
    BY DEF UsedBlocksAreOwned, NoStatsLeak, Going
  <1> QED BY <1>1, <1>2, <1>3, SpecTypeOK, SpecOwnership, PTL DEF Spec

----------------------------------------------------------------------------
(* Who is touched by a step. *)

(* Apart from samples, no step changes the statistics of a name that stays alive. *)
LEMMA KeepsStats ==
  ASSUME TypeOK, Ownership, Next, ~redeleted', NEW j \in Keys, Live(j), HasStats(j)',
         ~ \E k \in Keys, s \in Samples, ok \in BOOLEAN : sssample(k, s, ok)
  PROVE  HasStats(j) /\ tst'[j] = tst[j] /\ mem'[tst[j].st] = mem[tst[j].st]
  <1>1. StoreTypeOK
    BY DEF TypeOK
  <1>2. CASE UNCHANGED <<tst, mem>>
    BY <1>2 DEF HasStats, Live
  <1>3. CASE \E k \in Keys, rc \in {-1, 0, 1, 2} : sscreate(k, rc)
    <2>1. PICK k \in Keys, rc \in {-1, 0, 1, 2} : sscreate(k, rc)
      BY <1>3
    <2>2. ~redeleted
      BY <2>1 DEF sscreate
    <2>3. CASE Insert(k, NULL) /\ Deleted(k) /\ UNCHANGED mem
      BY <1>1, <2>3, InsertKeeps DEF Live, Deleted
    <2>4. CASE ~Live(k) /\ \E b \in Blocks : Allocate(b, Stats_create) /\ Insert(k, b)
      BY <1>1, <2>2, <2>4, InsertKeeps, AllocateKeeps
    <2>5. CASE UNCHANGED tst /\ \E b \in Blocks : Allocate(b, Stats_create)
      BY <1>1, <2>2, <2>5, AllocateKeeps DEF HasStats, Live
    <2> QED BY <1>2, <2>1, <2>3, <2>4, <2>5 DEF sscreate
  <1>4. CASE \E k \in Keys, rc \in {-1, 0} : ssdelete(k, rc)
    BY <1>1, <1>4, DeleteKeeps
  <1>5. CASE \E from, to \in Keys, rc \in {-2, -1, 0} : ssload(from, to, rc)
    <2>1. PICK from \in Keys, to \in Keys, rc \in {-2, -1, 0} : ssload(from, to, rc)
      BY <1>5
    <2>2. ~redeleted
      BY <2>1 DEF ssload
    <2>3. CASE UNCHANGED tst /\ \E b \in Blocks : Allocate(b, db[from])
      BY <1>1, <2>2, <2>3, AllocateKeeps DEF HasStats, Live
    <2>4. CASE CanLoad(from, to) /\ \E b \in Blocks, st \in Stats_unstringify(db[from], "overread" \in Faults) :
                 Allocate(b, st) /\ Insert(to, b)
      BY <1>1, <2>2, <2>4, InsertKeeps, AllocateKeeps DEF CanLoad
    <2> QED BY <1>2, <2>1, <2>3, <2>4 DEF ssload
  <1>6. CASE Exit
    BY <1>6, EmptyTreeHasNothing DEF Exit, HasStats
  <1> QED BY <1>2, <1>3, <1>4, <1>5, <1>6, StepCases
          DEF ssstore, OtherSessionStores, ssvars

(* A name has at most one nearest ancestor, and is not its own. *)
LEMMA NearestAncestor ==
  ASSUME NEW k \in Keys, NEW p \in TSTree_search_prefix(tst, k)
  PROVE  /\ p \in Keys /\ p # k /\ IsStrictPrefix(p, k)
         /\ \A q \in TSTree_search_prefix(tst, k) : q = p
  <1>1. p \in Keys /\ IsStrictPrefix(p, k)
    BY DEF TSTree_search_prefix
  <1>2. p # k
    BY <1>1 DEF IsStrictPrefix
  <1>3. ASSUME NEW q \in TSTree_search_prefix(tst, k)
        PROVE  q = p
    <2>1. q \in Keys /\ IsStrictPrefix(q, k)
      BY DEF TSTree_search_prefix
    <2>2. p \in Seq(Int) /\ q \in Seq(Int) /\ k \in Seq(Int)
      BY <1>1, <2>1, KeysAssumption
    <2>3. Len(p) = Len(q)
      <3>1. Len(p) <= Len(q) /\ Len(q) <= Len(p)
        BY DEF TSTree_search_prefix
      <3> QED BY <3>1, <2>2
    <2>4. \A i \in 1 .. Len(p) : p[i] = k[i] /\ q[i] = k[i]
      BY <1>1, <2>1, <2>2, <2>3 DEF IsStrictPrefix, IsPrefix
    <2> QED BY <2>2, <2>3, <2>4
  <1> QED BY <1>1, <1>2, <1>3

(* A sample counts for the name it is for and for its nearest ancestor, once *)
(* each, and for nobody else.                                                *)
LEMMA SampleCounts ==
  ASSUME StoreTypeOK, Ownership, ~redeleted, NEW k \in Keys, NEW s \in Int, NEW ok,
         sssample(k, s, ok), HasStats(k), NEW j \in Keys, HasStats(j)
  PROVE  IF j \in Counting(k) THEN mem'[tst[j].st] \in Stats_sample(mem[tst[j].st], s)
                              ELSE mem'[tst[j].st] = mem[tst[j].st]
  <1>1. tst[j].st \in Blocks /\ tst[k].st \in Blocks
    BY RecordBlock DEF HasStats
  <1>2. PICK rc \in -1 .. 1, st \in Stats_sample(mem[tst[k].st], s) :
          sssample_parent(k, s, [mem EXCEPT ![tst[k].st] = st], mem', rc)
    BY DEF sssample
  <1> DEFINE m == [mem EXCEPT ![tst[k].st] = st]
  <1>3. DOMAIN m = Blocks
    BY DEF StoreTypeOK
  <1>4. /\ j = k => m[tst[j].st] \in Stats_sample(mem[tst[j].st], s)
        /\ j # k => m[tst[j].st] = mem[tst[j].st]
    BY <1>1 DEF StoreTypeOK, Ownership
  <1>5. sssample_parent(k, s, m, mem', rc)
    BY <1>2
  <1> HIDE DEF m
  <1>6. j \in Counting(k) <=> j = k \/ j \in TSTree_search_prefix(tst, k)
    BY DEF Counting
  <1>7. CASE TSTree_search_prefix(tst, k) = {} /\ mem' = m
    BY <1>4, <1>6, <1>7
  <1>8. ASSUME NEW p \in TSTree_search_prefix(tst, k),
               \/ tst[p].st = NULL /\ mem' = m
               \/ Deleted(p) /\ mem' = m
        PROVE  IF j \in Counting(k) THEN mem'[tst[j].st] \in Stats_sample(mem[tst[j].st], s)
                                    ELSE mem'[tst[j].st] = mem[tst[j].st]
    <2>1. j # p
      BY <1>8 DEF HasStats, Live, Deleted
    <2>2. j \notin TSTree_search_prefix(tst, k)
      BY <2>1, NearestAncestor
    <2> QED BY <1>4, <1>6, <1>8, <2>2
  <1>9. ASSUME NEW p \in TSTree_search_prefix(tst, k), tst[p].st # NULL, Live(p),
               Sampled(tst[p].st, s, m, mem')
        PROVE  IF j \in Counting(k) THEN mem'[tst[j].st] \in Stats_sample(mem[tst[j].st], s)
                                    ELSE mem'[tst[j].st] = mem[tst[j].st]
    <2>1. p \in Keys /\ p # k /\ (j \in TSTree_search_prefix(tst, k) <=> j = p)
      BY NearestAncestor
    <2>2. tst[j].st = tst[p].st <=> j = p
      BY <1>9, <2>1 DEF Ownership, HasStats
    <2>3. PICK u \in Stats_sample(m[tst[p].st], s) : mem' = [m EXCEPT ![tst[p].st] = u]
      BY <1>9 DEF Sampled
    <2>4. mem'[tst[j].st] = IF tst[j].st = tst[p].st THEN u ELSE m[tst[j].st]
      BY <1>1, <1>3, <2>3
    <2>5. CASE j = p
      BY <1>4, <1>6, <2>1, <2>3, <2>4, <2>5
    <2>6. CASE j # p
      BY <1>4, <1>6, <2>1, <2>2, <2>4, <2>6
    <2> QED BY <2>5, <2>6
  <1> QED BY <1>5, <1>7, <1>8, <1>9 DEF sssample_parent

LEMMA NoCrossTalkStep ==
  ASSUME TypeOK, Ownership, Next, ~redeleted', NEW i \in Touched
  PROVE  \E s \in Samples, d \in Keys :
           \A k \in Touched :
             /\ mem'[tst'[k].st] \in Stats_sample(mem[tst[k].st], s)
             /\ k = d \/ k \in TSTree_search_prefix(tst, d)
  <1>1. PICK d \in Keys, s \in Samples, ok \in BOOLEAN : sssample(d, s, ok)
    BY KeepsStats DEF Touched, HasStats
  <1>2. StoreTypeOK /\ ~redeleted /\ s \in Int /\ UNCHANGED tst
    BY <1>1, SamplesAssumption DEF TypeOK, sssample
  <1>3. HasStats(d)
    BY <1>1, <1>2 DEF Touched, sssample
  <1>4. ASSUME NEW k \in Touched
        PROVE  /\ mem'[tst'[k].st] \in Stats_sample(mem[tst[k].st], s)
               /\ k = d \/ k \in TSTree_search_prefix(tst, d)
    <2>1. k \in Keys /\ HasStats(k) /\ mem'[tst[k].st] # mem[tst[k].st]
      BY <1>2 DEF Touched
    <2>2. k \in Counting(d) /\ mem'[tst[k].st] \in Stats_sample(mem[tst[k].st], s)
      BY <1>1, <1>2, <1>3, <2>1, SampleCounts
    <2> QED BY <1>2, <2>2 DEF Counting
  <1> QED BY <1>4

(* No command disturbs the statistics of another name. *)
THEOREM SpecNoCrossTalk == Spec => NoCrossTalk
  <1> DEFINE A == ~redeleted' /\ Touched # {} =>
                    \E s \in Samples, d \in Keys :
                      \A k \in Touched :
                        /\ mem'[tst'[k].st] \in Stats_sample(mem[tst[k].st], s)
                        /\ k = d \/ k \in TSTree_search_prefix(tst, d)
  <1>1. TypeOK /\ Ownership /\ [Next]_vars => [A]_vars
    BY NoCrossTalkStep
  <1>2. NoCrossTalk <=> [][A]_vars
    BY DEF NoCrossTalk
  <1> QED BY <1>1, <1>2, SpecTypeOK, SpecOwnership, PTL DEF Spec

----------------------------------------------------------------------------
(* Statistics are those of the samples that count. *)

(* What was deleted twice stays so until the session ends. *)
LEMMA Redeleted ==
  ASSUME TypeOK, Next, ~redeleted', ~Exit
  PROVE  ~redeleted
  <1>1. \A k \in Keys, rc \in {-1, 0} : ssdelete(k, rc) => ~redeleted
    BY Zenon DEF ssdelete
  <1> QED BY <1>1, StepCases
          DEF sscreate, sssample, ssstore, ssload, OtherSessionStores, ssvars

(* A record that becomes alive has an empty Stats and no samples, or comes  *)
(* from the database.                                                       *)
LEMMA NewRecord ==
  ASSUME TypeOK, Next, NEW j \in Keys, ~Live(j), HasStats(j)', j \notin loaded'
  PROVE  mem'[tst'[j].st] = Stats_create /\ counted'[j] = <<>>
  <1>1. StoreTypeOK
    BY DEF TypeOK
  <1>2. ~UNCHANGED tst
    BY DEF HasStats, Live
  <1>3. CASE \E k \in Keys, rc \in {-1, 0, 1, 2} : sscreate(k, rc)
    <2>1. PICK k \in Keys, rc \in {-1, 0, 1, 2} : sscreate(k, rc)
      BY <1>3
    <2>2. ~Insert(k, NULL)
      <3> SUFFICES ASSUME Insert(k, NULL) PROVE FALSE
        OBVIOUS
      <3>1. tst'[k].st = NULL /\ \A i \in Keys \ {k} : tst'[i] = tst[i]
        BY <1>1 DEF Insert, StoreTypeOK
      <3> QED BY <3>1 DEF HasStats, Live
    <2>3. PICK b \in Blocks : Allocate(b, Stats_create) /\ Insert(k, b)
      BY <1>2, <2>1, <2>2 DEF sscreate
    <2>4. counted' = [counted EXCEPT ![k] = <<>>]
      BY <1>2, <2>1, <2>2 DEF sscreate
    <2>5. j = k
      BY <1>1, <2>3 DEF Insert, StoreTypeOK, HasStats, Live
    <2> QED BY <1>1, <2>3, <2>4, <2>5 DEF Allocate, Insert, StoreTypeOK
  <1>4. ~ \E k \in Keys, rc \in {-1, 0} : ssdelete(k, rc)
    <2> SUFFICES ASSUME NEW k \in Keys, NEW rc \in {-1, 0}, ssdelete(k, rc) PROVE FALSE
      OBVIOUS
    <2>1. MarkDeleted(k)
      BY <1>2 DEF ssdelete
    <2> QED BY <1>1, <2>1 DEF MarkDeleted, StoreTypeOK, Record, HasStats, Live
  <1>5. ~ \E from, to \in Keys, rc \in {-2, -1, 0} : ssload(from, to, rc)
    <2> SUFFICES ASSUME NEW from \in Keys, NEW to \in Keys, NEW rc \in {-2, -1, 0},
                        ssload(from, to, rc)
                 PROVE  FALSE
      OBVIOUS
    <2>1. loaded' = loaded \cup {to} /\ \E b \in Blocks : Insert(to, b)
      BY <1>2 DEF ssload
    <2>2. j # to
      BY <2>1
    <2> QED BY <1>1, <2>1, <2>2 DEF Insert, StoreTypeOK, HasStats, Live
  <1>6. ~Exit
    BY EmptyTreeHasNothing DEF Exit, HasStats
  <1> QED BY <1>2, <1>3, <1>4, <1>5, <1>6, StepCases
          DEF sssample, ssstore, OtherSessionStores, ssvars

(* Apart from samples, no step changes what counts for a name that stays alive. *)
LEMMA KeepsCounted ==
  ASSUME TypeOK, Next, NEW j \in Keys, HasStats(j), HasStats(j)', j \notin loaded',
         ~ \E k \in Keys, s \in Samples, ok \in BOOLEAN : sssample(k, s, ok)
  PROVE  counted'[j] = counted[j] /\ j \notin loaded
  <1>1. StoreTypeOK
    BY DEF TypeOK
  <1>2. CASE \E k \in Keys, rc \in {-1, 0, 1, 2} : sscreate(k, rc)
    <2>1. PICK k \in Keys, rc \in {-1, 0, 1, 2} : sscreate(k, rc)
      BY <1>2
    <2>2. CASE UNCHANGED <<counted, loaded>>
      BY <2>2
    <2>3. CASE ~Live(k) /\ loaded' = loaded \ {k}
               /\ (UNCHANGED counted \/ counted' = [counted EXCEPT ![k] = <<>>])
      <3>1. j # k
        BY <2>3 DEF HasStats
      <3> QED BY <1>1, <2>3, <3>1 DEF StoreTypeOK
    <2> QED BY <2>1, <2>2, <2>3 DEF sscreate, Live, Deleted
  <1>3. CASE \E k \in Keys, rc \in {-1, 0} : ssdelete(k, rc)
    <2>1. PICK k \in Keys, rc \in {-1, 0} : ssdelete(k, rc)
      BY <1>3
    <2>2. CASE UNCHANGED counted
      BY <2>1, <2>2 DEF ssdelete
    <2>3. CASE MarkDeleted(k) /\ counted' = [counted EXCEPT ![k] = <<>>]
      <3>1. j # k
        BY <1>1, <2>3 DEF MarkDeleted, StoreTypeOK, Record, HasStats, Live
      <3> QED BY <1>1, <2>1, <2>3, <3>1 DEF ssdelete, StoreTypeOK
    <2> QED BY <2>1, <2>2, <2>3 DEF ssdelete
  <1>4. CASE \E from, to \in Keys, rc \in {-2, -1, 0} : ssload(from, to, rc)
    <2>1. PICK from \in Keys, to \in Keys, rc \in {-2, -1, 0} : ssload(from, to, rc)
      BY <1>4
    <2>2. CASE UNCHANGED <<counted, loaded>>
      BY <2>2
    <2>3. CASE loaded' = loaded \cup {to} /\ counted' = [counted EXCEPT ![to] = <<>>]
      <3>1. j # to /\ j \notin loaded
        BY <2>3
      <3> QED BY <1>1, <2>3, <3>1 DEF StoreTypeOK
    <2> QED BY <2>1, <2>2, <2>3 DEF ssload
  <1>5. ~Exit
    BY EmptyTreeHasNothing DEF Exit, HasStats
  <1> QED BY <1>2, <1>3, <1>4, <1>5, StepCases DEF ssstore, OtherSessionStores, ssvars

LEMMA StatsOfSamplesStep ==
  ASSUME TypeOK, Ownership, StatsOfSamples, Next
  PROVE  StatsOfSamples'
  <1> SUFFICES ASSUME ~redeleted', NEW j \in Keys \ loaded', HasStats(j)'
               PROVE  StatisticsOf(mem'[tst'[j].st], counted'[j])
    BY DEF StatsOfSamples, HasStats, Live
  <1>1. StoreTypeOK
    BY DEF TypeOK
  <1>2. CASE ~Live(j)
    BY <1>2, NewRecord, CreateStatistics
  <1>3. ASSUME NEW k \in Keys, NEW s \in Samples, NEW ok \in BOOLEAN, sssample(k, s, ok)
        PROVE  StatisticsOf(mem'[tst'[j].st], counted'[j])
    <2>1. UNCHANGED <<tst, loaded, redeleted>> /\ s \in Int
      BY <1>3, SamplesAssumption DEF sssample
    <2>2. HasStats(j) /\ StatisticsOf(mem[tst[j].st], counted[j])
      BY <2>1 DEF StatsOfSamples, HasStats, Live
    <2>3. CASE UNCHANGED <<mem, counted>>
      BY <2>1, <2>2, <2>3
    <2>4. CASE ~UNCHANGED <<mem, counted>>
      <3>1. /\ HasStats(k)
            /\ counted' = [i \in Keys |-> IF i \in Counting(k) /\ ~redeleted
                                          THEN Append(counted[i], s) ELSE counted[i]]
        BY <1>3, <2>4 DEF sssample
      <3>2. IF j \in Counting(k) THEN mem'[tst[j].st] \in Stats_sample(mem[tst[j].st], s)
                                 ELSE mem'[tst[j].st] = mem[tst[j].st]
        BY <1>1, <1>3, <2>1, <2>2, <3>1, SampleCounts
      <3>3. CASE j \in Counting(k)
        <4>1. mem'[tst[j].st] \in Stats_sample(mem[tst[j].st], s) /\ counted'[j] = Append(counted[j], s)
          BY <2>1, <3>1, <3>2, <3>3
        <4>2. mem[tst[j].st] \in Stats /\ counted[j] \in Seq(Int)
          BY <1>1, <2>2, RecordBlock DEF StoreTypeOK, HasStats
        <4>3. StatisticsOf(mem'[tst[j].st], Append(counted[j], s))
          BY <2>1, <2>2, <4>1, <4>2, SampleStatistics
        <4> QED BY <2>1, <4>1, <4>3
      <3>4. CASE j \notin Counting(k)
        <4>1. mem'[tst[j].st] = mem[tst[j].st] /\ counted'[j] = counted[j]
          BY <3>1, <3>2, <3>4
        <4> QED BY <2>1, <2>2, <4>1
      <3> QED BY <3>3, <3>4
    <2> QED BY <2>3, <2>4
  <1>4. CASE Live(j) /\ ~ \E k \in Keys, s \in Samples, ok \in BOOLEAN : sssample(k, s, ok)
    <2>1. HasStats(j) /\ tst'[j] = tst[j] /\ mem'[tst[j].st] = mem[tst[j].st]
      BY <1>4, KeepsStats
    <2>2. counted'[j] = counted[j] /\ j \notin loaded
      BY <1>4, <2>1, KeepsCounted
    <2>3. ~redeleted
      <3>1. ~Exit
        BY EmptyTreeHasNothing DEF Exit, HasStats
      <3> QED BY <3>1, Redeleted
    <2> QED BY <2>1, <2>2, <2>3 DEF StatsOfSamples
  <1> QED BY <1>2, <1>3, <1>4

(* Statistics that never came from the database are those of the samples that *)
(* count for their name since it was created: its own, and those of the names *)
(* whose nearest ancestor it is; rounding included.                           *)
THEOREM SpecStatsOfSamples == Spec => []StatsOfSamples
  <1>1. Init => StatsOfSamples
    <2>1. Init => \A k \in Keys : ~HasStats(k)
      BY EmptyTreeHasNothing DEF Init, HasStats
    <2> QED BY <2>1 DEF StatsOfSamples
  <1>2. TypeOK /\ Ownership /\ StatsOfSamples /\ [Next]_vars => StatsOfSamples'
    <2>1. UNCHANGED vars /\ StatsOfSamples => StatsOfSamples'
      BY DEF vars, StatsOfSamples, HasStats, Live
    <2> QED BY <2>1, StatsOfSamplesStep
  <1> QED BY <1>1, <1>2, SpecTypeOK, SpecOwnership, PTL DEF Spec
=============================================================================
