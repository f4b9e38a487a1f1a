----------------------------- MODULE BstrProofs -----------------------------
(***************************************************************************)
(* What the operators of module Bstr give, for any sequences of            *)
(* characters: the proofs about modules Command, Stream and Listing rest   *)
(* on these facts.                                                         *)
(***************************************************************************)
EXTENDS Bstr, Recursion, FiniteSetTheorems

----------------------------------------------------------------------------
(* Sizes. *)

(* There is room for n in what snapUpSize gives, which is an int if n is. *)
LEMMA SnapFacts ==
  ASSUME NEW n \in Nat, n <= IntMax
  PROVE  /\ snapUpSize(n) \in Nat /\ snapUpSize(n) <= IntMax
         /\ snapUpSize(n) >= n /\ snapUpSize(n) >= 8
  <1>1. IntMax \in Nat /\ IntMax > 8
    BY IntMaxAssumption
  <1>2. \A p \in NextPower(n) : p \in Nat /\ n < p /\ p <= IntMax
    BY DEF NextPower, PowersOfTwo
  <1>3. CASE n < 8
    BY <1>1, <1>3 DEF snapUpSize
  <1>4. CASE n >= 8 /\ NextPower(n) = {}
    BY <1>1, <1>4 DEF snapUpSize
  <1>5. CASE n >= 8 /\ NextPower(n) # {}
    <2>1. snapUpSize(n) \in NextPower(n)
      BY <1>5 DEF snapUpSize
    <2> QED BY <1>1, <1>2, <1>5, <2>1
  <1> QED BY <1>3, <1>4, <1>5

(* It is so even if it is more than an int. *)
LEMMA SnapIsEnough ==
  ASSUME NEW n \in Nat
  PROVE  snapUpSize(n) \in Nat /\ snapUpSize(n) >= n
  <1>1. CASE n < 8
    BY <1>1 DEF snapUpSize
  <1>2. CASE n >= 8 /\ NextPower(n) = {}
    BY <1>2 DEF snapUpSize
  <1>3. CASE n >= 8 /\ NextPower(n) # {}
    <2>1. snapUpSize(n) \in NextPower(n)
      BY <1>3 DEF snapUpSize
    <2> QED BY <2>1 DEF NextPower, PowersOfTwo
  <1> QED BY <1>1, <1>2, <1>3

(* A size balloc gives is a failure or room enough. *)
LEMMA BallocFacts ==
  ASSUME NEW b \in Bstring, b.mlen <= IntMax, NEW n \in Nat, NEW oom,
         NEW m \in balloc(b, n, oom), m # 0
  PROVE  m \in Nat /\ m <= IntMax /\ m >= n
  <1>1. IntMax \in Nat /\ b.mlen \in Nat
    BY IntMaxAssumption DEF Bstring
  <1>2. b.mlen # 0 /\ n > 0 /\ n <= IntMax
    BY <1>1 DEF balloc
  <1>3. snapUpSize(n) \in Nat /\ snapUpSize(n) <= IntMax /\ snapUpSize(n) >= n
    BY <1>2, SnapFacts
  <1>4. CASE n < b.mlen \/ snapUpSize(n) <= b.mlen
    <2>1. m = b.mlen
      BY <1>1, <1>2, <1>4 DEF balloc
    <2> QED BY <1>1, <1>3, <1>4, <2>1
  <1>5. CASE ~(n < b.mlen \/ snapUpSize(n) <= b.mlen)
    <2>1. m \in {snapUpSize(n), n}
      BY <1>1, <1>2, <1>5 DEF balloc, Sizes
    <2> QED BY <1>2, <1>3, <2>1
  <1> QED BY <1>4, <1>5

----------------------------------------------------------------------------
(* Sequences. *)

(* What holds for the empty sequence, and for a longer one if it does for the *)
(* one before, holds for all.                                                 *)
LEMMA SequenceInduction ==
  ASSUME NEW V, NEW T, <<>> \in T, \A s \in Seq(V) : \A x \in V : s \in T => Append(s, x) \in T
  PROVE  Seq(V) \subseteq T
  <1> DEFINE S == {n \in Nat : \A s \in Seq(V) : Len(s) = n => s \in T}
  <1>1. 0 \in S
    OBVIOUS
  <1>2. ASSUME NEW n \in Nat, n \in S PROVE n + 1 \in S
    <2> SUFFICES ASSUME NEW s \in Seq(V), Len(s) = n + 1 PROVE s \in T
      OBVIOUS
    <2> DEFINE r == [j \in 1 .. n |-> s[j]]
    <2>1. r \in Seq(V) /\ Len(r) = n /\ s[n + 1] \in V
      OBVIOUS
    <2>2. s = Append(r, s[n + 1])
      OBVIOUS
    <2> HIDE DEF r
    <2> QED BY <1>2, <2>1, <2>2
  <1>3. Nat \subseteq S
    <2> HIDE DEF S
    <2> QED BY <1>1, <1>2, Induction
  <1> QED BY <1>3

(* Sequences in parts. *)
LEMMA TwoPieces ==
  ASSUME NEW V, NEW s \in Seq(V), NEW t \in Seq(V)
  PROVE  /\ s \o t \in Seq(V) /\ Len(s \o t) = Len(s) + Len(t)
         /\ \A j \in 1 .. Len(s) : (s \o t)[j] = s[j]
         /\ \A j \in 1 .. Len(t) : (s \o t)[Len(s) + j] = t[j]
  OBVIOUS

\* A third part behind two.
Third(a, b, c) == (a \o b) \o c = a \o (b \o c)

LEMMA ThreeParts ==
  ASSUME NEW V, NEW a \in Seq(V), NEW b \in Seq(V), NEW c \in Seq(V)
  PROVE  Third(a, b, c)
  <1>1. PICK p, q, r, s : p = a \o b /\ q = b \o c /\ r = p \o c /\ s = a \o q
    OBVIOUS
  <1>2. /\ p \in Seq(V) /\ Len(p) = Len(a) + Len(b)
        /\ q \in Seq(V) /\ Len(q) = Len(b) + Len(c)
    BY <1>1, TwoPieces
  <1>3. /\ r \in Seq(V) /\ Len(r) = Len(p) + Len(c)
        /\ s \in Seq(V) /\ Len(s) = Len(a) + Len(q)
    BY <1>1, <1>2, TwoPieces
  <1>4. Len(a) \in Nat /\ Len(b) \in Nat /\ Len(c) \in Nat
    OBVIOUS
  <1>5. ASSUME NEW j \in 1 .. Len(r) PROVE r[j] = s[j]
    <2>0. j \in Int /\ 1 <= j /\ j <= Len(a) + Len(b) + Len(c)
      <3>1. Len(r) = Len(a) + Len(b) + Len(c)
        BY ONLY <1>2, <1>3, <1>4
      <3> QED BY ONLY <1>4, <3>1, <1>5
    <2>1. CASE j <= Len(a)
      <3>1. j \in 1 .. Len(a) /\ j \in 1 .. Len(p)
        BY <1>2, <1>4, <2>0, <2>1
      <3>2. r[j] = p[j] /\ p[j] = a[j]
        BY <1>1, <1>2, <3>1, TwoPieces
      <3>3. s[j] = a[j]
        BY <1>1, <1>2, <3>1, TwoPieces
      <3> QED BY <3>2, <3>3
    <2>2. CASE j > Len(a) /\ j <= Len(a) + Len(b)
      <3>1. PICK k : k = j - Len(a)
        OBVIOUS
      <3>2. k \in 1 .. Len(b) /\ j = Len(a) + k /\ j \in 1 .. Len(p) /\ k \in 1 .. Len(q)
        BY ONLY <1>2, <1>4, <2>0, <2>2, <3>1
      <3>3. r[j] = p[j]
        BY <1>1, <1>2, <3>2, TwoPieces
      <3>4. p[Len(a) + k] = b[k]
        BY <1>1, <3>2, TwoPieces
      <3>5. s[Len(a) + k] = q[k]
        BY <1>1, <1>2, <3>2, TwoPieces
      <3>6. q[k] = b[k]
        BY <1>1, <3>2, TwoPieces
      <3> QED BY <3>2, <3>3, <3>4, <3>5, <3>6
    <2>3. CASE j > Len(a) + Len(b)
      <3>1. PICK k : k = j - Len(a) - Len(b)
        OBVIOUS
      <3>2. k \in 1 .. Len(c) /\ j = Len(p) + k /\ Len(b) + k \in 1 .. Len(q) /\ j = Len(a) + (Len(b) + k)
        BY ONLY <1>2, <1>4, <2>0, <2>3, <3>1
      <3>3. r[Len(p) + k] = c[k]
        BY <1>1, <1>2, <3>2, TwoPieces
      <3>4. s[Len(a) + (Len(b) + k)] = q[Len(b) + k]
        BY <1>1, <1>2, <3>2, TwoPieces
      <3>5. q[Len(b) + k] = c[k]
        BY <1>1, <3>2, TwoPieces
      <3> QED BY <3>2, <3>3, <3>4, <3>5
    <2> QED BY <1>4, <2>0, <2>1, <2>2, <2>3
  <1>6. Len(r) = Len(s)
    BY ONLY <1>2, <1>3, <1>4
  <1>7. r = s
    BY <1>3, <1>5, <1>6
  <1> QED BY <1>1, <1>7 DEF Third

\* A character behind the last of three parts.
Behind(r, b, u, x) == Append(r \o (b \o u), x) = r \o (b \o Append(u, x))

LEMMA AppendBehind ==
  ASSUME NEW V, NEW r \in Seq(V), NEW b \in Seq(V), NEW u \in Seq(V), NEW x \in V
  PROVE  Behind(r, b, u, x)
  <1>1. PICK y, z : y = b \o u /\ z = b \o Append(u, x)
    OBVIOUS
  <1>2. y \in Seq(V) /\ z = Append(y, x)
    BY <1>1
  <1>3. Append(r \o y, x) = r \o z
    <2> DEFINE e == Append(r \o y, x)
               f == r \o z
    <2>1. /\ z \in Seq(V) /\ Len(z) = Len(y) + 1 /\ z[Len(y) + 1] = x
          /\ \A m \in 1 .. Len(y) : z[m] = y[m]
      BY <1>2
    <2>2. r \o y \in Seq(V) /\ Len(r \o y) = Len(r) + Len(y) /\ Len(r) \in Nat /\ Len(y) \in Nat
      BY <1>2
    <2>3. /\ e \in Seq(V) /\ Len(e) = Len(r) + Len(y) + 1
          /\ f \in Seq(V) /\ Len(f) = Len(r) + Len(y) + 1
      <3>1. PICK p : p = r \o y
        OBVIOUS
      <3>2. p \in Seq(V) /\ Len(p) = Len(r) + Len(y)
        BY <2>2, <3>1
      <3>a. Append(p, x) \in Seq(V) /\ Len(Append(p, x)) = Len(p) + 1
        BY <3>2
      <3>3. Append(p, x) \in Seq(V) /\ Len(Append(p, x)) = Len(r) + Len(y) + 1
        BY <3>a, <3>2
      <3>4. f \in Seq(V) /\ Len(f) = Len(r) + Len(z)
        <4>1. z \in Seq(V)
          BY <2>1
        <4> HIDE DEF e
        <4> QED BY <4>1
      <3>5. Len(r) + Len(z) = Len(r) + Len(y) + 1
        BY <2>1, <2>2
      <3> QED BY <3>1, <3>3, <3>4, <3>5
    <2>4. ASSUME NEW m \in 1 .. Len(e) PROVE e[m] = f[m]
      <3>1. CASE m \in 1 .. Len(r)
        BY <1>2, <2>1, <2>2, <3>1
      <3>2. CASE m > Len(r) /\ m < Len(e)
        <4>1. m - Len(r) \in 1 .. Len(y)
          BY <2>2, <2>3, <3>2
        <4>2. e[m] = y[m - Len(r)]
          BY <1>2, <2>2, <2>3, <3>2
        <4>3. f[m] = z[m - Len(r)]
          BY <2>1, <2>2, <2>3, <3>2
        <4> QED BY <2>1, <4>1, <4>2, <4>3
      <3>3. CASE m = Len(e)
        <4>1. e[m] = x
          BY <2>2, <2>3, <3>3
        <4>2. f[m] = z[Len(y) + 1]
          BY <2>1, <2>2, <2>3, <3>3
        <4> QED BY <2>1, <4>1, <4>2
      <3> HIDE DEF e, f
      <3>4. Len(e) \in Nat /\ m \in Nat /\ Len(r) \in Nat
        BY <2>2, <2>3
      <3>5. m \in 1 .. Len(r) \/ (m > Len(r) /\ m < Len(e)) \/ m = Len(e)
        BY <3>4
      <3> QED BY <3>1, <3>2, <3>3, <3>5
    <2> HIDE DEF e, f
    <2>5. e = f
      BY <2>3, <2>4
    <2> QED BY <2>5 DEF e, f
  <1> QED BY <1>1, <1>2, <1>3 DEF Behind

(* A sequence determines its last entry and what is before it. *)
LEMMA LastAndRest ==
  ASSUME NEW S, NEW v \in Seq(S), NEW w \in Seq(S), NEW x \in S, NEW y \in S,
         Append(v, x) = Append(w, y)
  PROVE  v = w /\ x = y
  <1>1. /\ Len(v) \in Nat /\ Len(w) \in Nat
        /\ Len(Append(v, x)) = Len(v) + 1 /\ Len(Append(w, y)) = Len(w) + 1
        /\ Append(v, x)[Len(v) + 1] = x /\ Append(w, y)[Len(w) + 1] = y
        /\ \A j \in 1 .. Len(v) : Append(v, x)[j] = v[j]
        /\ \A j \in 1 .. Len(w) : Append(w, y)[j] = w[j]
    OBVIOUS
  <1>2. Len(v) = Len(w)
    BY <1>1
  <1>3. x = y /\ \A j \in 1 .. Len(v) : v[j] = w[j]
    BY <1>1, <1>2
  <1> QED BY <1>2, <1>3

LEMMA LastLine ==
  ASSUME NEW V, NEW v \in Seq(Seq(V)), NEW w \in Seq(Seq(V)), NEW x \in Seq(V), NEW y \in Seq(V),
         Append(v, x) = Append(w, y)
  PROVE  v = w /\ x = y
  <1> DEFINE S == Seq(V)
  <1>1. v \in Seq(S) /\ w \in Seq(S) /\ x \in S /\ y \in S
    OBVIOUS
  <1> HIDE DEF S
  <1> QED BY <1>1, LastAndRest

\* e gives the places of s with entries in S, in their order.
Places(e, s, S) ==
  /\ e \in Seq(1 .. Len(s))
  /\ \A m, n \in 1 .. Len(e) : m < n => e[m] < e[n]
  /\ {e[m] : m \in 1 .. Len(e)} = {j \in 1 .. Len(s) : s[j] \in S}

(* The recursion of Select, after each entry of s. *)
Selects(R, s, S) ==
  /\ R \in [0 .. Len(s) -> Seq({s[j] : j \in 1 .. Len(s)})]
  /\ R[0] = <<>>
  /\ \A n \in 1 .. Len(s) : R[n] = IF s[n] \in S THEN Append(R[n - 1], s[n]) ELSE R[n - 1]

LEMMA SelectScan ==
  ASSUME NEW V, NEW s \in Seq(V), NEW S
  PROVE  \E R : Selects(R, s, S) /\ Select(s, S) = R[Len(s)]
  <1> DEFINE U == Seq({s[n] : n \in Nat})
             E == {s[j] : j \in 1 .. Len(s)}
             Nx(n, r) == IF s[n] \in S THEN Append(r, s[n]) ELSE r
             step == [n \in Nat |-> [r \in U |-> Nx(n, r)]]
             IsR(R) == R = [n \in Nat |-> IF n = 0 THEN <<>> ELSE Nx(n, R[n - 1])]
             R == CHOOSE f : IsR(f)
  <1>1. <<>> \in U /\ step \in [Nat -> [U -> U]]
    <2>1. ASSUME NEW n \in Nat, NEW r \in U PROVE Nx(n, r) \in U
      <3>1. s[n] \in {s[m] : m \in Nat}
        OBVIOUS
      <3>2. Append(r, s[n]) \in U
        BY <3>1
      <3> HIDE DEF U
      <3> QED BY <3>2
    <2>2. <<>> \in U
      OBVIOUS
    <2> HIDE DEF Nx, U
    <2> QED BY <2>1, <2>2
  <1>2. PICK f \in [Nat -> U] : Iterates(f, <<>>, step)
    <2> HIDE DEF U, step
    <2> QED BY <1>1, RecursionExists
  <1>3. IsR(f)
    <2>1. \A n \in Nat : n # 0 => step[n][f[n - 1]] = Nx(n, f[n - 1])
      <3> HIDE DEF U, Nx
      <3> QED OBVIOUS
    <2>2. f = [n \in Nat |-> IF n = 0 THEN <<>> ELSE step[n][f[n - 1]]]
      <3> HIDE DEF U, step
      <3> QED BY <1>2 DEF Iterates
    <2> HIDE DEF step, Nx
    <2> QED BY <2>1, <2>2
  <1>4. IsR(R)
    <2> HIDE DEF IsR
    <2> QED BY <1>3 DEF R
  <1>5. Select(s, S) = R[Len(s)]
    BY DEF Select
  <1> HIDE DEF R
  <1>6. R[0] = <<>> /\ \A n \in Nat : n # 0 => R[n] = Nx(n, R[n - 1])
    <2> HIDE DEF Nx
    <2> QED BY <1>4
  <1> HIDE DEF IsR
  <1> DEFINE T == {n \in Nat : n <= Len(s) => R[n] \in Seq(E)}
  <1>7. 0 \in T
    <2>1. R[0] \in Seq(E)
      BY <1>6
    <2> QED BY <2>1
  <1>8. ASSUME NEW n \in Nat, n \in T PROVE n + 1 \in T
    <2> SUFFICES ASSUME n + 1 <= Len(s) PROVE R[n + 1] \in Seq(E)
      OBVIOUS
    <2>1. R[n] \in Seq(E) /\ s[n + 1] \in E /\ (n + 1) - 1 = n /\ n + 1 \in Nat /\ n + 1 # 0
      BY <1>8
    <2>2. R[n + 1] = Nx(n + 1, R[n])
      <3> HIDE DEF Nx
      <3> QED BY <1>6, <2>1
    <2> HIDE DEF E
    <2> QED BY <2>1, <2>2
  <1>9. Nat \subseteq T
    <2> HIDE DEF T
    <2> QED BY <1>7, <1>8, Induction
  <1> DEFINE X == [n \in 0 .. Len(s) |-> R[n]]
  <1>10. X \in [0 .. Len(s) -> Seq(E)] /\ X[0] = <<>> /\ Select(s, S) = X[Len(s)]
    <2> HIDE DEF E
    <2> QED BY <1>5, <1>6, <1>9
  <1>11. ASSUME NEW n \in 1 .. Len(s)
         PROVE  X[n] = IF s[n] \in S THEN Append(X[n - 1], s[n]) ELSE X[n - 1]
    <2>1. n \in Nat /\ n # 0 /\ X[n - 1] = R[n - 1] /\ X[n] = R[n]
      OBVIOUS
    <2> HIDE DEF X
    <2> QED BY <1>6, <2>1
  <1>12. Selects(X, s, S)
    <2> HIDE DEF X
    <2> QED BY <1>10, <1>11 DEF Selects
  <1> HIDE DEF X
  <1> QED BY <1>10, <1>12

\* r has the entries of s at the places e.
Takes(r, s, e) == r = [m \in 1 .. Len(e) |-> s[e[m]]]

(* What is selected is at the places of s with entries in S, in their order; *)
(* and so it is of a t with entries in T at the same places.                 *)
LEMMA SelectBoth ==
  ASSUME NEW V, NEW s \in Seq(V), NEW W, NEW t \in Seq(W), NEW S, NEW T, Len(t) = Len(s),
         \A j \in 1 .. Len(s) : s[j] \in S <=> t[j] \in T
  PROVE  \E e : Places(e, s, S) /\ Takes(Select(s, S), s, e) /\ Takes(Select(t, T), t, e)
  <1>1. PICK P : Selects(P, s, S) /\ Select(s, S) = P[Len(s)]
    BY SelectScan
  <1>2. PICK Q : Selects(Q, t, T) /\ Select(t, T) = Q[Len(t)]
    BY SelectScan
  <1> DEFINE Good(n, e) ==
               /\ e \in Seq(1 .. n)
               /\ \A k, m \in 1 .. Len(e) : k < m => e[k] < e[m]
               /\ {e[m] : m \in 1 .. Len(e)} = {j \in 1 .. n : s[j] \in S}
               /\ P[n] = [m \in 1 .. Len(e) |-> s[e[m]]]
               /\ Q[n] = [m \in 1 .. Len(e) |-> t[e[m]]]
             X == {n \in Nat : n <= Len(s) => \E e : Good(n, e)}
  <1>3. 0 \in X
    <2>1. <<>> \in Seq(1 .. 0) /\ Len(<<>>) = 0
      OBVIOUS
    <2>2. P[0] = <<>> /\ Q[0] = <<>>
      BY <1>1, <1>2 DEF Selects
    <2>3. Good(0, <<>>)
      BY <2>1, <2>2
    <2> HIDE DEF Good
    <2> QED BY <2>3
  <1>4. ASSUME NEW n \in Nat, n \in X PROVE n + 1 \in X
    <2> SUFFICES ASSUME n + 1 <= Len(s) PROVE \E e : Good(n + 1, e)
      <3> HIDE DEF Good
      <3> QED OBVIOUS
    <2>1. n <= Len(s) /\ n + 1 \in 1 .. Len(s) /\ (n + 1) - 1 = n
      OBVIOUS
    <2>2. PICK e : Good(n, e)
      <3> HIDE DEF Good
      <3> QED BY <1>4, <2>1
    <2>3. /\ P[n + 1] = IF s[n + 1] \in S THEN Append(P[n], s[n + 1]) ELSE P[n]
          /\ Q[n + 1] = IF t[n + 1] \in T THEN Append(Q[n], t[n + 1]) ELSE Q[n]
          /\ s[n + 1] \in S <=> t[n + 1] \in T
      BY <1>1, <1>2, <2>1 DEF Selects
    <2>4. /\ e \in Seq(1 .. n) /\ Len(e) \in Nat /\ \A m \in 1 .. Len(e) : e[m] \in 1 .. n
          /\ \A k, m \in 1 .. Len(e) : k < m => e[k] < e[m]
          /\ {e[m] : m \in 1 .. Len(e)} = {j \in 1 .. n : s[j] \in S}
          /\ P[n] = [m \in 1 .. Len(e) |-> s[e[m]]]
          /\ Q[n] = [m \in 1 .. Len(e) |-> t[e[m]]]
      BY <2>2
    <2>5. CASE s[n + 1] \notin S
      <3>1. {j \in 1 .. n + 1 : s[j] \in S} = {j \in 1 .. n : s[j] \in S}
        BY <2>5
      <3>2. e \in Seq(1 .. n + 1)
        BY <2>4
      <3>3. Good(n + 1, e)
        BY <2>3, <2>4, <2>5, <3>1, <3>2
      <3> HIDE DEF Good
      <3> QED BY <3>3
    <2>6. CASE s[n + 1] \in S
      <3> DEFINE d == Append(e, n + 1)
      <3>1. /\ d \in Seq(1 .. n + 1) /\ Len(d) = Len(e) + 1
            /\ d[Len(e) + 1] = n + 1 /\ \A m \in 1 .. Len(e) : d[m] = e[m]
        <4>1. e \in Seq(1 .. n + 1) /\ n + 1 \in 1 .. n + 1
          BY <2>4
        <4> QED BY <4>1
      <3> HIDE DEF d
      <3>2. \A k, m \in 1 .. Len(d) : k < m => d[k] < d[m]
        <4> SUFFICES ASSUME NEW k \in 1 .. Len(d), NEW m \in 1 .. Len(d), k < m PROVE d[k] < d[m]
          OBVIOUS
        <4>1. k \in 1 .. Len(e) /\ d[k] = e[k] /\ e[k] \in 1 .. n
          BY <2>4, <3>1
        <4>2. CASE m = Len(e) + 1
          BY <3>1, <4>1, <4>2
        <4>3. CASE m # Len(e) + 1
          <5>3. m \in 1 .. Len(e)
            <6>1. Len(e) \in Nat /\ Len(d) = Len(e) + 1
              BY <2>4, <3>1
            <6> QED BY <4>3, <6>1
          <5>1. m \in 1 .. Len(e) /\ d[m] = e[m]
            BY <3>1, <5>3
          <5>2. k \in 1 .. Len(e) /\ e[k] < e[m]
            BY <2>4, <4>1, <5>1
          <5> QED BY <4>1, <5>1, <5>2
        <4> QED BY <4>2, <4>3
      <3>3. {d[m] : m \in 1 .. Len(d)} = {j \in 1 .. n + 1 : s[j] \in S}
        <4>1. {d[m] : m \in 1 .. Len(d)} = {e[m] : m \in 1 .. Len(e)} \cup {n + 1}
          <5>1. 1 .. Len(d) = (1 .. Len(e)) \cup {Len(e) + 1}
            BY <2>4, <3>1
          <5> QED BY <3>1, <5>1
        <4>2. {j \in 1 .. n + 1 : s[j] \in S} = {j \in 1 .. n : s[j] \in S} \cup {n + 1}
          BY <2>6
        <4> QED BY <2>4, <4>1, <4>2
      <3>4. ASSUME NEW Y, NEW y \in Seq(Y), NEW p, Len(y) = Len(s), Takes(p, y, e)
            PROVE  Takes(Append(p, y[n + 1]), y, d)
        <4>0. p = [m \in 1 .. Len(e) |-> y[e[m]]]
          BY <3>4 DEF Takes
        <4>1. p \in Seq(Y) /\ Len(p) = Len(e) /\ y[n + 1] \in Y
          BY <2>1, <2>4, <3>4, <4>0
        <4>2. \A m \in 1 .. Len(d) : Append(p, y[n + 1])[m] = y[d[m]]
          <5> SUFFICES ASSUME NEW m \in 1 .. Len(d) PROVE Append(p, y[n + 1])[m] = y[d[m]]
            OBVIOUS
          <5>1. Len(e) \in Nat /\ Len(d) = Len(e) + 1
            BY <2>4, <3>1
          <5>2. CASE m = Len(e) + 1
            BY <3>1, <4>1, <5>2
          <5>3. CASE m # Len(e) + 1
            <6>1. m \in 1 .. Len(e)
              BY ONLY <5>1, <5>3, m \in 1 .. Len(d)
            <6>2. d[m] = e[m] /\ p[m] = y[e[m]]
              BY <3>1, <4>0, <6>1
            <6>3. Append(p, y[n + 1])[m] = p[m]
              BY <4>1, <6>1
            <6> QED BY <6>2, <6>3
          <5> QED BY <5>2, <5>3
        <4>3. Append(p, y[n + 1]) \in Seq(Y) /\ Len(Append(p, y[n + 1])) = Len(d)
          BY <3>1, <4>1
        <4> QED BY <4>2, <4>3 DEF Takes
      <3>5. P[n + 1] = [m \in 1 .. Len(d) |-> s[d[m]]] /\ Q[n + 1] = [m \in 1 .. Len(d) |-> t[d[m]]]
        <4>1. P[n + 1] = Append(P[n], s[n + 1]) /\ Q[n + 1] = Append(Q[n], t[n + 1])
          BY <2>3, <2>6
        <4>2. Takes(P[n], s, e) /\ Takes(Q[n], t, e)
          BY <2>4 DEF Takes
        <4>3. Takes(Append(P[n], s[n + 1]), s, d)
          BY <3>4, <4>2
        <4>4. Takes(Append(Q[n], t[n + 1]), t, d)
          BY <3>4, <4>2
        <4> QED BY <4>1, <4>3, <4>4 DEF Takes
      <3>6. Good(n + 1, d)
        BY <3>1, <3>2, <3>3, <3>5
      <3> HIDE DEF Good
      <3> QED BY <3>6
    <2> QED BY <2>5, <2>6
  <1>5. Nat \subseteq X
    <2> HIDE DEF X
    <2> QED BY <1>3, <1>4, Induction
  <1>6. PICK e : Good(Len(s), e)
    <2> DEFINE N == Len(s)
    <2>1. N \in Nat /\ N <= N
      OBVIOUS
    <2>2. \A n \in Nat : n <= N => \E e : Good(n, e)
      <3> HIDE DEF Good
      <3> QED BY <1>5
    <2>3. \E e : Good(N, e)
      <3> HIDE DEF Good, N, X
      <3> QED BY <2>1, <2>2
    <2> QED BY <2>3
  <1>7. Places(e, s, S)
    BY <1>6 DEF Places
  <1>8. Takes(Select(s, S), s, e)
    BY <1>1, <1>6 DEF Takes
  <1>9. Takes(Select(t, T), t, e)
    <2>1. Select(t, T) = Q[Len(s)]
      BY <1>2
    <2> QED BY <2>1, <1>6 DEF Takes
  <1> QED BY <1>7, <1>8, <1>9

LEMMA SelectPlaces ==
  ASSUME NEW V, NEW s \in Seq(V), NEW S
  PROVE  \E e : Places(e, s, S) /\ Select(s, S) = [m \in 1 .. Len(e) |-> s[e[m]]]
  <1>1. \E e : Places(e, s, S) /\ Takes(Select(s, S), s, e) /\ Takes(Select(s, S), s, e)
    BY SelectBoth
  <1> QED BY <1>1 DEF Takes

(* There are no more of them than entries. *)
LEMMA SelectFacts ==
  ASSUME NEW V, NEW s \in Seq(V), NEW S
  PROVE  Select(s, S) \in Seq(V) /\ Len(Select(s, S)) <= Len(s)
  <1>1. PICK R : Selects(R, s, S) /\ Select(s, S) = R[Len(s)]
    BY SelectScan
  <1> DEFINE T == {n \in Nat : n <= Len(s) => R[n] \in Seq(V) /\ Len(R[n]) <= n}
  <1>2. 0 \in T
    <2>1. R[0] = <<>>
      BY <1>1 DEF Selects
    <2>2. R[0] \in Seq(V) /\ Len(R[0]) <= 0
      BY <2>1
    <2> QED BY <2>2
  <1>3. ASSUME NEW n \in Nat, n \in T PROVE n + 1 \in T
    <2> SUFFICES ASSUME n + 1 <= Len(s) PROVE R[n + 1] \in Seq(V) /\ Len(R[n + 1]) <= n + 1
      OBVIOUS
    <2>1. Len(R[n]) <= n /\ R[n] \in Seq(V) /\ s[n + 1] \in V
      BY <1>3
    <2>2. n + 1 \in 1 .. Len(s) /\ (n + 1) - 1 = n
      OBVIOUS
    <2>3. R[n + 1] = Append(R[n], s[n + 1]) \/ R[n + 1] = R[n]
      BY <1>1, <2>2 DEF Selects
    <2>4. CASE R[n + 1] = R[n]
      BY <2>1, <2>4
    <2>5. CASE R[n + 1] = Append(R[n], s[n + 1])
      <3> DEFINE r == R[n]
                 x == s[n + 1]
      <3>1. r \in Seq(V) /\ x \in V /\ Len(r) <= n
        BY <2>1
      <3> HIDE DEF r, x
      <3>2. Append(r, x) \in Seq(V) /\ Len(Append(r, x)) <= n + 1
        BY <3>1
      <3> QED BY <2>5, <3>2 DEF r, x
    <2> QED BY <2>3, <2>4, <2>5
  <1>4. Nat \subseteq T
    <2> HIDE DEF T
    <2> QED BY <1>2, <1>3, Induction
  <1> QED BY <1>1, <1>4

(* One more entry of a sequence may be one more that is selected. *)
LEMMA SelectAppend ==
  ASSUME NEW V, NEW s \in Seq(V), NEW x \in V, NEW S
  PROVE  Select(Append(s, x), S) = IF x \in S THEN Append(Select(s, S), x) ELSE Select(s, S)
  <1> DEFINE t == Append(s, x)
             m == Len(s)
  <1>1. t \in Seq(V) /\ m \in Nat /\ Len(t) = m + 1 /\ t[m + 1] = x /\ \A n \in 1 .. m : t[n] = s[n]
    OBVIOUS
  <1> HIDE DEF t
  <1>2. PICK P : Selects(P, t, S) /\ Select(t, S) = P[Len(t)]
    BY <1>1, SelectScan
  <1>3. PICK Q : Selects(Q, s, S) /\ Select(s, S) = Q[Len(s)]
    BY SelectScan
  <1> DEFINE T == {n \in Nat : n <= m => P[n] = Q[n]}
  <1>4. 0 \in T
    BY <1>2, <1>3 DEF Selects
  <1>5. ASSUME NEW n \in Nat, n \in T PROVE n + 1 \in T
    <2> SUFFICES ASSUME n + 1 <= m PROVE P[n + 1] = Q[n + 1]
      OBVIOUS
    <2>1. /\ n + 1 \in 1 .. m /\ n + 1 \in 1 .. Len(t) /\ (n + 1) - 1 = n
          /\ P[n] = Q[n] /\ t[n + 1] = s[n + 1]
      BY <1>1, <1>5
    <2>2. /\ P[n + 1] = IF t[n + 1] \in S THEN Append(P[n], t[n + 1]) ELSE P[n]
          /\ Q[n + 1] = IF s[n + 1] \in S THEN Append(Q[n], s[n + 1]) ELSE Q[n]
      BY <1>2, <1>3, <2>1 DEF Selects
    <2> QED BY <2>1, <2>2
  <1>6. Nat \subseteq T
    <2> HIDE DEF T
    <2> QED BY <1>4, <1>5, Induction
  <1>7. P[m] = Q[m]
    BY <1>1, <1>6
  <1>8. P[m + 1] = IF t[m + 1] \in S THEN Append(P[m], t[m + 1]) ELSE P[m]
    <2>1. m + 1 \in 1 .. Len(t) /\ (m + 1) - 1 = m
      BY <1>1
    <2> QED BY <1>2, <2>1 DEF Selects
  <1> QED BY <1>1, <1>2, <1>3, <1>7, <1>8 DEF t

LEMMA SelectNone == ASSUME NEW S PROVE Select(<<>>, S) = <<>>
  <1>1. <<>> \in Seq({}) /\ Len(<<>>) = 0
    OBVIOUS
  <1> DEFINE s == <<>>
  <1>2. s \in Seq({}) /\ Len(s) = 0
    BY <1>1
  <1> HIDE DEF s
  <1>3. PICK P : Selects(P, s, S) /\ Select(s, S) = P[Len(s)]
    BY <1>2, SelectScan
  <1>4. Select(s, S) = <<>>
    BY <1>2, <1>3 DEF Selects
  <1> QED BY <1>4 DEF s

----------------------------------------------------------------------------
(* OneOfEach: a sequence has an element of each set, in their order. *)
LEMMA OneOfEachFacts ==
  ASSUME NEW V, NEW S \in Seq(SUBSET V)
  PROVE  OneOfEach(S) = {c \in Seq(V) : Len(c) = Len(S) /\ \A j \in 1 .. Len(S) : c[j] \in S[j]}
  <1> DEFINE U == UNION {S[n] : n \in Nat}
             D == SUBSET Seq(U)
             Put(c, x) == Append(c, x)
             Longer(n, C) == {Put(c, x) : c \in C, x \in S[n]}
             step == [n \in Nat |-> [C \in D |-> Longer(n, C)]]
             IsC(C) == C = [n \in Nat |-> IF n = 0 THEN {<<>>} ELSE Longer(n, C[n - 1])]
             C == CHOOSE f : IsC(f)
  <1>1. {<<>>} \in D /\ step \in [Nat -> [D -> D]]
    <2>1. ASSUME NEW n \in Nat, NEW T \in D PROVE Longer(n, T) \in D
      <3>1. ASSUME NEW c \in T, NEW x \in S[n] PROVE Append(c, x) \in Seq(U)
        <4>1. c \in Seq(U) /\ x \in U
          OBVIOUS
        <4> HIDE DEF U
        <4> QED BY <4>1
      <3>2. \A c \in T, x \in S[n] : Put(c, x) \in Seq(U)
        BY <3>1
      <3> HIDE DEF U, Put
      <3> QED BY <3>2
    <2> HIDE DEF Longer
    <2> QED BY <2>1
  <1>2. PICK f \in [Nat -> D] : Iterates(f, {<<>>}, step)
    <2> HIDE DEF D, step
    <2> QED BY <1>1, RecursionExists
  <1>3. IsC(f)
    <2>1. \A n \in Nat : n # 0 => step[n][f[n - 1]] = Longer(n, f[n - 1])
      <3> HIDE DEF D, Longer
      <3> QED OBVIOUS
    <2>2. f = [n \in Nat |-> IF n = 0 THEN {<<>>} ELSE step[n][f[n - 1]]]
      <3> HIDE DEF D, step
      <3> QED BY <1>2 DEF Iterates
    <2> HIDE DEF step, Longer
    <2> QED BY <2>1, <2>2
  <1>4. IsC(C)
    <2> HIDE DEF IsC
    <2> QED BY <1>3 DEF C
  <1>5. OneOfEach(S) = C[Len(S)]
    BY DEF OneOfEach
  <1> HIDE DEF C
  <1>6. C[0] = {<<>>} /\ \A n \in Nat : C[n + 1] = Longer(n + 1, C[n])
    <2>1. \A n \in Nat : n + 1 \in Nat /\ n + 1 # 0 /\ (n + 1) - 1 = n
      OBVIOUS
    <2> HIDE DEF Longer
    <2> QED BY <1>4, <2>1
  <1> HIDE DEF IsC
  <1> DEFINE First(n) == {c \in Seq(V) : Len(c) = n /\ \A j \in 1 .. n : c[j] \in S[j]}
             T == {n \in Nat : n <= Len(S) => C[n] = First(n)}
  <1>7. 0 \in T
    <2>1. First(0) = {<<>>}
      OBVIOUS
    <2> HIDE DEF First
    <2> QED BY <1>6, <2>1
  <1>8. ASSUME NEW n \in Nat, n \in T PROVE n + 1 \in T
    <2> SUFFICES ASSUME n + 1 <= Len(S) PROVE C[n + 1] = First(n + 1)
      <3> HIDE DEF First
      <3> QED OBVIOUS
    <2>1. C[n + 1] = Longer(n + 1, First(n))
      <3>1. n <= Len(S)
        OBVIOUS
      <3>2. C[n] = First(n)
        <4> HIDE DEF First
        <4> QED BY <1>8, <3>1
      <3> HIDE DEF First, Longer
      <3> QED BY <1>6, <3>2
    <2>2. n + 1 \in 1 .. Len(S) /\ S[n + 1] \subseteq V
      OBVIOUS
    <2>3. ASSUME NEW c \in First(n), NEW x \in S[n + 1] PROVE Put(c, x) \in First(n + 1)
      <3>1. c \in Seq(V) /\ Len(c) = n /\ (\A j \in 1 .. n : c[j] \in S[j]) /\ x \in V
        BY <2>2
      <3> DEFINE d == Append(c, x)
      <3>2. d \in Seq(V) /\ Len(d) = n + 1 /\ d[n + 1] = x /\ \A j \in 1 .. n : d[j] = c[j]
        BY <3>1
      <3>3. \A j \in 1 .. n + 1 : d[j] \in S[j]
        <4> HIDE DEF d
        <4> QED BY <3>1, <3>2
      <3> HIDE DEF d
      <3> QED BY <3>2, <3>3 DEF d
    <2>4. ASSUME NEW c \in First(n + 1)
          PROVE  \E d \in First(n) : \E x \in S[n + 1] : c = Put(d, x)
      <3> DEFINE d == [j \in 1 .. n |-> c[j]]
      <3>1. c \in Seq(V) /\ Len(c) = n + 1 /\ \A j \in 1 .. n + 1 : c[j] \in S[j]
        OBVIOUS
      <3>2. d \in Seq(V) /\ Len(d) = n /\ \A j \in 1 .. n : d[j] = c[j] /\ d[j] \in S[j]
        BY <3>1
      <3>3. d \in First(n)
        BY <3>2
      <3>4. c[n + 1] \in V /\ c[n + 1] \in S[n + 1]
        BY <3>1
      <3>5. c = Put(d, c[n + 1])
        <4> HIDE DEF d
        <4> QED BY <3>1, <3>2, <3>4
      <3> HIDE DEF d, First, Put
      <3> QED BY <3>3, <3>4, <3>5
    <2>5. Longer(n + 1, First(n)) = First(n + 1)
      <3> HIDE DEF First, Put
      <3> QED BY <2>3, <2>4
    <2> HIDE DEF First, Longer
    <2> QED BY <2>1, <2>5
  <1>9. Nat \subseteq T
    <2> HIDE DEF T
    <2> QED BY <1>7, <1>8, Induction
  <1> QED BY <1>5, <1>9

----------------------------------------------------------------------------
(* Pieces: what the scan of s has come to after each character. *)

Scan(V) == [done : Seq(Seq(V)), open : Seq(V)]

\* The scan goes from p to q with the character x.
Scanned(p, q, x, c) ==
  IF x = c THEN q = [done |-> Append(p.done, p.open), open |-> <<>>]
           ELSE q = [done |-> p.done, open |-> Append(p.open, x)]

Scans(P, s, c, V) ==
  /\ P \in [0 .. Len(s) -> Scan(V)]
  /\ P[0] = [done |-> <<>>, open |-> <<>>]
  /\ \A n \in 1 .. Len(s) : Scanned(P[n - 1], P[n], s[n], c)

LEMMA PiecesScan ==
  ASSUME NEW V, NEW s \in Seq(V), NEW c
  PROVE  \E P : Scans(P, s, c, V) /\ Pieces(s, c) = Append(P[Len(s)].done, P[Len(s)].open)
  <1> DEFINE U == {s[n] : n \in Nat}
             W == Scan(U)
             start == [done |-> <<>>, open |-> <<>>]
             Nx(n, p) == IF s[n] = c THEN [done |-> Append(p.done, p.open), open |-> <<>>]
                         ELSE [done |-> p.done, open |-> Append(p.open, s[n])]
             step == [n \in Nat |-> [p \in W |-> Nx(n, p)]]
             IsP(P) == P = [n \in Nat |-> IF n = 0 THEN start ELSE Nx(n, P[n - 1])]
             P == CHOOSE f : IsP(f)
  <1>1. start \in W /\ step \in [Nat -> [W -> W]]
    <2>1. ASSUME NEW n \in Nat, NEW p \in W PROVE Nx(n, p) \in W
      <3>1. s[n] \in U /\ p.done \in Seq(Seq(U)) /\ p.open \in Seq(U)
        BY DEF Scan
      <3> HIDE DEF U
      <3>2. Append(p.done, p.open) \in Seq(Seq(U)) /\ Append(p.open, s[n]) \in Seq(U)
        BY <3>1
      <3> QED BY <3>1, <3>2 DEF Scan
    <2>2. start \in W
      BY DEF Scan
    <2> HIDE DEF Nx, W
    <2> QED BY <2>1, <2>2
  <1>2. PICK f \in [Nat -> W] : Iterates(f, start, step)
    <2> HIDE DEF W, step, start
    <2> QED BY <1>1, RecursionExists
  <1>3. IsP(f)
    <2>1. \A n \in Nat : n # 0 => step[n][f[n - 1]] = Nx(n, f[n - 1])
      <3> HIDE DEF W, Nx
      <3> QED OBVIOUS
    <2>2. f = [n \in Nat |-> IF n = 0 THEN start ELSE step[n][f[n - 1]]]
      <3> HIDE DEF W, step, start
      <3> QED BY <1>2 DEF Iterates
    <2> HIDE DEF step, Nx, start
    <2> QED BY <2>1, <2>2
  <1>4. IsP(P)
    <2> HIDE DEF IsP
    <2> QED BY <1>3 DEF P
  <1>5. Pieces(s, c) = Append(P[Len(s)].done, P[Len(s)].open)
    BY DEF Pieces
  <1> HIDE DEF P
  <1>6. P[0] = start /\ \A n \in Nat : P[n + 1] = Nx(n + 1, P[n])
    <2>1. \A n \in Nat : n + 1 \in Nat /\ n + 1 # 0 /\ (n + 1) - 1 = n
      OBVIOUS
    <2> HIDE DEF Nx, start
    <2> QED BY <1>4, <2>1
  <1> HIDE DEF IsP
  <1> DEFINE T == {n \in Nat : n <= Len(s) => P[n] \in Scan(V)}
  <1>7. 0 \in T
    <2>1. start \in Scan(V)
      <3>1. <<>> \in Seq(Seq(V)) /\ <<>> \in Seq(V)
        OBVIOUS
      <3> QED BY <3>1 DEF Scan
    <2> HIDE DEF start
    <2> QED BY <1>6, <2>1
  <1>8. ASSUME NEW n \in Nat, n \in T PROVE n + 1 \in T
    <2> SUFFICES ASSUME n + 1 <= Len(s) PROVE P[n + 1] \in Scan(V)
      OBVIOUS
    <2>1. P[n] \in Scan(V) /\ s[n + 1] \in V
      BY <1>8
    <2>2. P[n].done \in Seq(Seq(V)) /\ P[n].open \in Seq(V)
      BY <2>1 DEF Scan
    <2>3. Append(P[n].done, P[n].open) \in Seq(Seq(V)) /\ Append(P[n].open, s[n + 1]) \in Seq(V)
      BY <2>1, <2>2
    <2>4. P[n + 1] = Nx(n + 1, P[n])
      BY <1>6
    <2> QED BY <2>2, <2>3, <2>4 DEF Scan
  <1>9. Nat \subseteq T
    <2> HIDE DEF T
    <2> QED BY <1>7, <1>8, Induction
  <1> DEFINE Q == [n \in 0 .. Len(s) |-> P[n]]
  <1>10. Q \in [0 .. Len(s) -> Scan(V)] /\ Q[0] = start
    <2> HIDE DEF start
    <2> QED BY <1>6, <1>9
  <1>11. ASSUME NEW n \in 1 .. Len(s) PROVE Scanned(Q[n - 1], Q[n], s[n], c)
    <2>1. n - 1 \in Nat /\ (n - 1) + 1 = n /\ Q[n - 1] = P[n - 1] /\ Q[n] = P[n]
      OBVIOUS
    <2>2. P[n] = Nx(n, P[n - 1])
      <3> HIDE DEF Nx
      <3> QED BY <1>6, <2>1
    <2> HIDE DEF Q
    <2> QED BY <2>1, <2>2 DEF Scanned
  <1>12. Scans(Q, s, c, V)
    <2> HIDE DEF Q
    <2> QED BY <1>10, <1>11 DEF Scans
  <1>13. Pieces(s, c) = Append(Q[Len(s)].done, Q[Len(s)].open)
    BY <1>5
  <1> HIDE DEF Q
  <1> QED BY <1>12, <1>13

LEMMA ScanIsUnique ==
  ASSUME NEW V, NEW s \in Seq(V), NEW c, NEW P, NEW Q, Scans(P, s, c, V), Scans(Q, s, c, V)
  PROVE  P = Q
  <1> DEFINE T == {n \in Nat : n <= Len(s) => P[n] = Q[n]}
  <1>1. 0 \in T
    BY DEF Scans
  <1>2. ASSUME NEW n \in Nat, n \in T PROVE n + 1 \in T
    <2> SUFFICES ASSUME n + 1 <= Len(s) PROVE P[n + 1] = Q[n + 1]
      OBVIOUS
    <2>1. n + 1 \in 1 .. Len(s) /\ (n + 1) - 1 = n /\ P[n] = Q[n]
      BY <1>2
    <2>2. Scanned(P[n], P[n + 1], s[n + 1], c) /\ Scanned(Q[n], Q[n + 1], s[n + 1], c)
      BY <2>1 DEF Scans
    <2> QED BY <2>1, <2>2 DEF Scanned
  <1>3. Nat \subseteq T
    <2> HIDE DEF T
    <2> QED BY <1>1, <1>2, Induction
  <1> QED BY <1>3 DEF Scans

(* Whatever scan there is, it ends with the pieces. *)
LEMMA PiecesOfScan ==
  ASSUME NEW V, NEW s \in Seq(V), NEW c, NEW P, Scans(P, s, c, V)
  PROVE  /\ Pieces(s, c) = Append(P[Len(s)].done, P[Len(s)].open)
         /\ P[Len(s)] \in Scan(V)
  <1>1. Len(s) \in 0 .. Len(s)
    OBVIOUS
  <1>2. PICK Q : Scans(Q, s, c, V) /\ Pieces(s, c) = Append(Q[Len(s)].done, Q[Len(s)].open)
    BY PiecesScan
  <1>3. P = Q
    BY <1>2, ScanIsUnique
  <1>4. P[Len(s)] \in Scan(V)
    BY <1>1 DEF Scans
  <1> QED BY <1>2, <1>3, <1>4

(* There is always a piece. *)
LEMMA PiecesType ==
  ASSUME NEW V, NEW s \in Seq(V), NEW c
  PROVE  Pieces(s, c) \in Seq(Seq(V)) /\ Len(Pieces(s, c)) > 0
  <1>1. PICK P : Scans(P, s, c, V) /\ Pieces(s, c) = Append(P[Len(s)].done, P[Len(s)].open)
    BY PiecesScan
  <1>2. P[Len(s)] \in Scan(V)
    BY <1>1, PiecesOfScan
  <1>3. PICK w, u : w = P[Len(s)].done /\ u = P[Len(s)].open
    OBVIOUS
  <1>4. w \in Seq(Seq(V)) /\ u \in Seq(V)
    BY <1>2, <1>3 DEF Scan
  <1> QED BY <1>1, <1>3, <1>4

(* The pieces of a longer sequence are those of the one before, with the     *)
(* character behind the last of them or with an empty one.                   *)
Cut(p, w, u, x, c) == p = IF x = c THEN Append(Append(w, u), <<>>) ELSE Append(w, Append(u, x))

LEMMA PiecesOfNone ==
  ASSUME NEW c
  PROVE  Pieces(<<>>, c) = << <<>> >>
  <1> DEFINE P == [n \in 0 .. 0 |-> [done |-> <<>>, open |-> <<>>]]
  <1>1. Scans(P, <<>>, c, {}) /\ P[0].done = <<>> /\ P[0].open = <<>>
    <2>1. [done |-> <<>>, open |-> <<>>] \in Scan({})
      <3>1. <<>> \in Seq(Seq({})) /\ <<>> \in Seq({})
        OBVIOUS
      <3> QED BY <3>1 DEF Scan
    <2>2. Len(<<>>) = 0 /\ 1 .. 0 = {}
      OBVIOUS
    <2>3. P \in [0 .. 0 -> Scan({})]
      BY <2>1
    <2> QED BY <2>2, <2>3 DEF Scans
  <1> HIDE DEF P
  <1>2. <<>> \in Seq({}) /\ Len(<<>>) = 0
    OBVIOUS
  <1> DEFINE s == <<>>
             V == {}
  <1>3. s \in Seq(V) /\ Len(s) = 0 /\ Scans(P, s, c, V)
    BY <1>1, <1>2
  <1>4. Pieces(s, c) = Append(P[0].done, P[0].open)
    <2> HIDE DEF s, V
    <2> QED BY <1>3, PiecesOfScan
  <1> QED BY <1>1, <1>4

LEMMA PiecesOfAppend ==
  ASSUME NEW V, NEW s \in Seq(V), NEW x \in V, NEW c
  PROVE  \E w \in Seq(Seq(V)) : \E u \in Seq(V) :
           Pieces(s, c) = Append(w, u) /\ Cut(Pieces(Append(s, x), c), w, u, x, c)
  <1> DEFINE t == Append(s, x)
             m == Len(s)
  <1>1. t \in Seq(V) /\ m \in Nat /\ Len(t) = m + 1 /\ t[m + 1] = x /\ \A n \in 1 .. m : t[n] = s[n]
    OBVIOUS
  <1> HIDE DEF t
  <1>2. PICK P : Scans(P, t, c, V) /\ Pieces(t, c) = Append(P[Len(t)].done, P[Len(t)].open)
    BY <1>1, PiecesScan
  <1> DEFINE Q == [n \in 0 .. m |-> P[n]]
  <1>3. Scans(Q, s, c, V)
    <2>1. Q \in [0 .. m -> Scan(V)] /\ Q[0] = [done |-> <<>>, open |-> <<>>]
      BY <1>1, <1>2 DEF Scans
    <2>2. ASSUME NEW n \in 1 .. m PROVE Scanned(Q[n - 1], Q[n], s[n], c)
      <3>1. n \in 1 .. m + 1 /\ Q[n - 1] = P[n - 1] /\ Q[n] = P[n] /\ t[n] = s[n]
        BY <1>1
      <3> HIDE DEF Q
      <3> QED BY <1>1, <1>2, <3>1 DEF Scans
    <2> HIDE DEF Q
    <2> QED BY <2>1, <2>2 DEF Scans
  <1>4. Pieces(s, c) = Append(P[m].done, P[m].open) /\ P[m] \in Scan(V)
    <2>1. Q[m] = P[m]
      BY <1>1
    <2> HIDE DEF Q
    <2> QED BY <1>3, <2>1, PiecesOfScan
  <1>5. Scanned(P[m], P[m + 1], x, c)
    <2>1. m + 1 \in 1 .. Len(t) /\ (m + 1) - 1 = m
      BY <1>1
    <2> QED BY <1>1, <1>2, <2>1 DEF Scans
  <1>6. P[m].done \in Seq(Seq(V)) /\ P[m].open \in Seq(V)
    BY <1>4 DEF Scan
  <1>7. Cut(Pieces(t, c), P[m].done, P[m].open, x, c)
    <2>1. Pieces(t, c) = Append(P[m + 1].done, P[m + 1].open)
      BY <1>1, <1>2
    <2>2. CASE x = c
      <3>1. P[m + 1].done = Append(P[m].done, P[m].open) /\ P[m + 1].open = <<>>
        BY <1>5, <2>2 DEF Scanned
      <3> QED BY <2>1, <2>2, <3>1 DEF Cut
    <2>3. CASE x # c
      <3>1. P[m + 1].done = P[m].done /\ P[m + 1].open = Append(P[m].open, x)
        BY <1>5, <2>3 DEF Scanned
      <3> QED BY <2>1, <2>3, <3>1 DEF Cut
    <2> QED BY <2>2, <2>3
  <1> HIDE DEF m
  <1> QED BY <1>4, <1>6, <1>7 DEF t
=============================================================================
