------------------------------ MODULE Recursion ------------------------------
(***************************************************************************)
(* Induction over the natural numbers and recursive functions on them, for *)
(* the proofs about what the recursive functions of the model compute.     *)
(* What an induction is about is given as a set, and a step of a recursion *)
(* as a function, so that the provers can use these facts.                 *)
(***************************************************************************)
EXTENDS Integers, WellFoundedInduction, TLAPS

(* What holds for 0, and for n + 1 if it does for n, holds for all numbers. *)
LEMMA Induction ==
  ASSUME NEW S, 0 \in S, \A n \in Nat : n \in S => n + 1 \in S
  PROVE  Nat \subseteq S
  <1> DEFINE T == {n \in Nat : n \notin S}
  <1> SUFFICES ASSUME T # {} PROVE FALSE
    OBVIOUS
  <1>1. PICK m \in T : \A n \in T : <<n, m>> \notin OpToRel(<, Nat)
    <2>1. T \subseteq Nat
      OBVIOUS
    <2> HIDE DEF T
    <2> QED BY <2>1, WFMin, NatLessThanWellFounded
  <1>2. \A n \in T : ~(n < m)
    BY <1>1 DEF OpToRel
  <1>3. m # 0
    OBVIOUS
  <1>4. m - 1 \in Nat /\ m - 1 < m /\ (m - 1) + 1 = m
    BY <1>3
  <1>5. m - 1 \in S
    BY <1>2, <1>4
  <1> QED BY <1>4, <1>5

(* A set of numbers that is not empty has a least one. *)
LEMMA Least ==
  ASSUME NEW S \in SUBSET Nat, S # {}
  PROVE  \E m \in S : \A n \in S : m <= n
  <1>1. PICK m \in S : \A n \in S : <<n, m>> \notin OpToRel(<, Nat)
    BY WFMin, NatLessThanWellFounded
  <1>2. \A n \in S : ~(n < m)
    BY <1>1 DEF OpToRel
  <1> QED BY <1>2

(* The values of a function given by its value at 0 and by step. *)
Iterates(f, start, step) ==
  f = [n \in Nat |-> IF n = 0 THEN start ELSE step[n][f[n - 1]]]

(* There is a function that meets its recursive definition, ... *)
LEMMA RecursionExists ==
  ASSUME NEW V, NEW start \in V, NEW step \in [Nat -> [V -> V]]
  PROVE  \E f \in [Nat -> V] : Iterates(f, start, step)
  <1> DEFINE
        Upto(n, g) == /\ g \in [0 .. n -> V]
                      /\ g[0] = start
                      /\ \A j \in 1 .. n : g[j] = step[j][g[j - 1]]
        S == {n \in Nat : \E g : Upto(n, g)}
  <1>1. 0 \in S
    <2>1. Upto(0, [j \in 0 .. 0 |-> start])
      OBVIOUS
    <2> QED BY <2>1
  <1>2. ASSUME NEW n \in Nat, n \in S
        PROVE  n + 1 \in S
    <2>1. PICK g : Upto(n, g)
      BY <1>2
    <2> DEFINE h == [j \in 0 .. n + 1 |-> IF j = n + 1 THEN step[n + 1][g[n]] ELSE g[j]]
    <2>2. g[n] \in V /\ step[n + 1][g[n]] \in V
      BY <2>1
    <2>3. h \in [0 .. n + 1 -> V] /\ h[0] = start
      BY <2>1, <2>2
    <2>4. \A j \in 1 .. n + 1 : h[j] = step[j][h[j - 1]]
      BY <2>1
    <2>5. Upto(n + 1, h)
      BY <2>3, <2>4
    <2> HIDE DEF Upto, h
    <2> QED BY <2>5
  <1>3. \A n \in Nat : \E g : Upto(n, g)
    <2> HIDE DEF Upto
    <2>1. Nat \subseteq S
      <3> HIDE DEF S
      <3> QED BY <1>1, <1>2, Induction
    <2> QED BY <2>1
  <1> DEFINE G == [n \in Nat |-> CHOOSE g : Upto(n, g)]
             f == [n \in Nat |-> G[n][n]]
  <1>4. \A n \in Nat : Upto(n, G[n])
    <2> HIDE DEF Upto
    <2> QED BY <1>3
  <1>5. ASSUME NEW n \in Nat
        PROVE  \A j \in 0 .. n : G[n + 1][j] = G[n][j]
    <2> DEFINE P == {j \in Nat : j <= n => G[n + 1][j] = G[n][j]}
    <2>1. 0 \in P
      <3>1. G[n + 1][0] = start /\ G[n][0] = start
        <4> HIDE DEF G
        <4> QED BY <1>4
      <3> HIDE DEF G
      <3> QED BY <3>1
    <2>2. ASSUME NEW j \in Nat, j \in P PROVE j + 1 \in P
      <3> SUFFICES ASSUME j + 1 <= n PROVE G[n + 1][j + 1] = G[n][j + 1]
        OBVIOUS
      <3>1. G[n + 1][j + 1] = step[j + 1][G[n + 1][j]]
        <4>1. j + 1 \in 1 .. n + 1 /\ (j + 1) - 1 = j
          OBVIOUS
        <4> HIDE DEF G
        <4> QED BY <4>1, <1>4
      <3>2. G[n][j + 1] = step[j + 1][G[n][j]]
        <4>1. j + 1 \in 1 .. n /\ (j + 1) - 1 = j
          OBVIOUS
        <4> HIDE DEF G
        <4> QED BY <4>1, <1>4
      <3>3. G[n + 1][j] = G[n][j]
        BY <2>2
      <3> QED BY <3>1, <3>2, <3>3
    <2>3. Nat \subseteq P
      <3> HIDE DEF P
      <3> QED BY <2>1, <2>2, Induction
    <2> HIDE DEF G
    <2> QED BY <2>3
  <1> HIDE DEF G
  <1>6. f \in [Nat -> V]
    <2>1. ASSUME NEW n \in Nat PROVE G[n][n] \in V
      BY <1>4
    <2> QED BY <2>1
  <1>7. ASSUME NEW n \in Nat \ {0} PROVE f[n] = step[n][f[n - 1]]
    <2>1. n - 1 \in Nat /\ n \in 1 .. n /\ (n - 1) + 1 = n
      OBVIOUS
    <2>2. G[n][n] = step[n][G[n][n - 1]]
      BY <1>4, <2>1
    <2>3. G[n][n - 1] = G[n - 1][n - 1]
      BY <1>5, <2>1
    <2> QED BY <2>1, <2>2, <2>3
  <1>8. f[0] = start
    BY <1>4
  <1>9. Iterates(f, start, step)
    <2>1. \A n \in Nat : f[n] = IF n = 0 THEN start ELSE step[n][f[n - 1]]
      BY <1>7, <1>8
    <2>2. DOMAIN f = Nat /\ f = [n \in Nat |-> f[n]]
      OBVIOUS
    <2> HIDE DEF f
    <2> QED BY <2>1, <2>2 DEF Iterates
  <1> QED BY <1>6, <1>9

(* ... and whatever meets it has its values in V. *)
LEMMA RecursionType ==
  ASSUME NEW V, NEW start \in V, NEW step \in [Nat -> [V -> V]],
         NEW f, Iterates(f, start, step)
  PROVE  f \in [Nat -> V]
  <1> DEFINE S == {n \in Nat : f[n] \in V}
  <1>1. \A n \in Nat : f[n] = IF n = 0 THEN start ELSE step[n][f[n - 1]]
    BY DEF Iterates
  <1>2. 0 \in S
    BY <1>1
  <1>3. ASSUME NEW n \in Nat, n \in S PROVE n + 1 \in S
    <2>1. n + 1 \in Nat /\ n + 1 # 0 /\ (n + 1) - 1 = n
      OBVIOUS
    <2>2. f[n + 1] = step[n + 1][f[n]]
      BY <1>1, <2>1
    <2> QED BY <1>3, <2>1, <2>2
  <1>4. Nat \subseteq S
    <2> HIDE DEF S
    <2> QED BY <1>2, <1>3, Induction
  <1>5. f = [n \in Nat |-> f[n]]
    BY DEF Iterates
  <1> QED BY <1>4, <1>5

(* A recursion whose value for an argument is given by body from the values *)
(* for arguments where measure is less, and a function that meets it.       *)
Bodies(D, V) == [[D -> V] -> [D -> V]]
Measures(D) == [D -> Nat]

GoesDown(D, V, measure, body) ==
  \A f, g \in [D -> V] : \A x \in D :
    (\A y \in D : measure[y] < measure[x] => f[y] = g[y]) => body[f][x] = body[g][x]

IsFixed(f, D, V, body) == f \in [D -> V] /\ f = body[f]

(* There is one, be the arguments what they may. *)
LEMMA MeasuredRecursion ==
  ASSUME NEW D, NEW V, NEW default \in V, NEW measure \in Measures(D),
         NEW body \in Bodies(D, V), GoesDown(D, V, measure, body)
  PROVE  \E f : IsFixed(f, D, V, body)
  <1> USE DEF Bodies, Measures
  <1> DEFINE start == [x \in D |-> default]
             step == [n \in Nat |-> body]
  <1>1. start \in [D -> V] /\ step \in [Nat -> [[D -> V] -> [D -> V]]]
    OBVIOUS
  <1>2. PICK g \in [Nat -> [D -> V]] : Iterates(g, start, step)
    <2> HIDE DEF start, step
    <2> QED BY <1>1, RecursionExists
  <1>3. ASSUME NEW n \in Nat PROVE g[n] \in [D -> V] /\ g[n + 1] = body[g[n]]
    <2>1. n + 1 \in Nat /\ n + 1 # 0 /\ (n + 1) - 1 = n
      OBVIOUS
    <2>2. g[n + 1] = step[n + 1][g[(n + 1) - 1]]
      <3> HIDE DEF start, step
      <3> QED BY <1>2, <2>1 DEF Iterates
    <2> QED BY <1>2, <2>1, <2>2
  <1> HIDE DEF start, step
  (* From the step after its measure on a value does not change any more. *)
  <1>4. \A n \in Nat : \A x \in D : measure[x] < n => g[n + 1][x] = g[n][x]
    <2> DEFINE S == {n \in Nat : \A x \in D : measure[x] < n => g[n + 1][x] = g[n][x]}
    <2>1. 0 \in S
      OBVIOUS
    <2>2. ASSUME NEW n \in Nat, n \in S PROVE n + 1 \in S
      <3> SUFFICES ASSUME NEW x \in D, measure[x] < n + 1
                   PROVE  g[(n + 1) + 1][x] = g[n + 1][x]
        OBVIOUS
      <3>1. g[n] \in [D -> V] /\ g[n + 1] \in [D -> V]
        BY <1>3
      <3>2. g[(n + 1) + 1] = body[g[n + 1]] /\ g[n + 1] = body[g[n]]
        BY <1>3
      <3>3. \A y \in D : measure[y] < measure[x] => g[n + 1][y] = g[n][y]
        BY <2>2
      <3> QED BY <3>1, <3>2, <3>3 DEF GoesDown
    <2>3. Nat \subseteq S
      <3> HIDE DEF S
      <3> QED BY <2>1, <2>2, Induction
    <2> QED BY <2>3
  <1>5. ASSUME NEW x \in D
        PROVE  \A n \in Nat : measure[x] < n => g[n][x] = g[measure[x] + 1][x]
    <2> DEFINE S == {n \in Nat : measure[x] < n => g[n][x] = g[measure[x] + 1][x]}
    <2>1. 0 \in S
      OBVIOUS
    <2>2. ASSUME NEW n \in Nat, n \in S PROVE n + 1 \in S
      <3>1. CASE measure[x] < n
        BY <1>4, <2>2, <3>1
      <3>2. CASE ~(measure[x] < n)
        <4>1. measure[x] \in Nat
          OBVIOUS
        <4>2. measure[x] < n + 1 => n + 1 = measure[x] + 1
          BY <3>2, <4>1
        <4> QED BY <4>2
      <3> HIDE DEF S
      <3> QED BY <3>1, <3>2
    <2>3. Nat \subseteq S
      <3> HIDE DEF S
      <3> QED BY <2>1, <2>2, Induction
    <2> QED BY <2>3
  <1> DEFINE f == [x \in D |-> g[measure[x] + 1][x]]
  <1>6. f \in [D -> V]
    <2>1. \A x \in D : g[measure[x] + 1] \in [D -> V]
      BY <1>3
    <2> QED BY <2>1
  <1>7. ASSUME NEW x \in D PROVE f[x] = body[f][x]
    <2>1. measure[x] \in Nat /\ g[measure[x]] \in [D -> V] /\ g[measure[x] + 1] = body[g[measure[x]]]
      BY <1>3
    <2>2. \A y \in D : measure[y] < measure[x] => g[measure[x]][y] = f[y]
      BY <1>5, <2>1
    <2>3. body[g[measure[x]]][x] = body[f][x]
      <3> HIDE DEF f
      <3> QED BY <1>6, <2>1, <2>2 DEF GoesDown
    <2> QED BY <2>1, <2>3
  <1>8. f = body[f]
    <2>1. body[f] \in [D -> V]
      <3> HIDE DEF f
      <3> QED BY <1>6
    <2> HIDE DEF f
    <2> QED BY <1>6, <1>7, <2>1
  <1> HIDE DEF f
  <1> QED BY <1>6, <1>8 DEF IsFixed

(* Two functions that are as one recursion says, which goes down, are the same. *)
LEMMA OneRecursion ==
  ASSUME NEW D, NEW measure \in [D -> Nat], NEW f, NEW g,
         \A n \in D : (\A y \in D : measure[y] < measure[n] => f[y] = g[y]) => f[n] = g[n]
  PROVE  \A n \in D : f[n] = g[n]
  <1> DEFINE S == {measure[n] : n \in {m \in D : f[m] # g[m]}}
  <1> SUFFICES ASSUME S # {} PROVE FALSE
    OBVIOUS
  <1>1. S \in SUBSET Nat
    OBVIOUS
  <1>2. PICK d \in S : \A e \in S : d <= e
    <2> HIDE DEF S
    <2> QED BY <1>1, Least
  <1>3. PICK n \in D : f[n] # g[n] /\ d = measure[n]
    BY <1>2
  <1>4. PICK y \in D : measure[y] < measure[n] /\ f[y] # g[y]
    BY <1>3
  <1>5. measure[y] \in S /\ measure[y] \in Nat /\ measure[n] \in Nat
    BY <1>4
  <1> HIDE DEF S
  <1> QED BY <1>2, <1>3, <1>4, <1>5

(* A loop from low to high: what it has after each step is given by that step *)
(* from what it had before, and is in T if step keeps it there.               *)
Loops(f, low, high, start, step) ==
  f = [j \in low .. high |-> IF j = low THEN start ELSE step[j][f[j - 1]]]

LEMMA LoopExists ==
  ASSUME NEW low \in Int, NEW high \in Int, NEW V, NEW start, NEW step, NEW T,
         start \in T[low], \A j \in low .. high : T[j] \subseteq V,
         low <= high,
         \A j \in low + 1 .. high : \A x \in T[j - 1] : step[j][x] \in T[j]
  PROVE  \E f : Loops(f, low, high, start, step) /\ \A j \in low .. high : f[j] \in T[j]
  <1> DEFINE next == [n \in Nat |-> [x \in V |->
                        IF step[low + n][x] \in V THEN step[low + n][x] ELSE start]]
  <1>1. start \in V /\ next \in [Nat -> [V -> V]]
    <2>1. start \in V
      OBVIOUS
    <2> QED BY <2>1
  <1>2. PICK g \in [Nat -> V] : Iterates(g, start, next)
    <2> HIDE DEF next
    <2> QED BY <1>1, RecursionExists
  <1>3. \A n \in Nat : g[n] = IF n = 0 THEN start ELSE next[n][g[n - 1]]
    <2> HIDE DEF next
    <2> QED BY <1>2 DEF Iterates
  <1> DEFINE S == {n \in Nat : low + n <= high => g[n] \in T[low + n]}
  <1>4. 0 \in S
    <2> HIDE DEF next
    <2>1. 0 \in Nat
      OBVIOUS
    <2>2. g[0] = start
      BY <1>3, <2>1
    <2>3. low + 0 = low
      OBVIOUS
    <2> QED BY <2>2, <2>3
  <1>5. ASSUME NEW n \in Nat, low + n <= high, g[n] \in T[low + n], low + (n + 1) <= high
        PROVE  g[n + 1] = step[low + (n + 1)][g[n]] /\ g[n + 1] \in T[low + (n + 1)]
    <2> DEFINE j == low + (n + 1)
    <2>1. /\ j \in low + 1 .. high /\ j \in low .. high /\ j - 1 = low + n
          /\ n + 1 \in Nat /\ n + 1 # 0 /\ (n + 1) - 1 = n
      BY ONLY n \in Nat, low \in Int, high \in Int, <1>5
    <2>2. step[j][g[n]] \in T[j] /\ step[j][g[n]] \in V
      <3> HIDE DEF j
      <3> QED BY <1>5, <2>1
    <2>3. g[n] \in V
      BY <1>2
    <2>4. next[n + 1][g[n]] = step[j][g[n]]
      BY <2>1, <2>2, <2>3
    <2>5. g[n + 1] = next[n + 1][g[n]]
      <3> HIDE DEF next
      <3> QED BY <1>3, <2>1
    <2> QED BY <2>2, <2>4, <2>5
  <1>6. ASSUME NEW n \in Nat, n \in S PROVE n + 1 \in S
    <2> HIDE DEF next
    <2>1. low + (n + 1) <= high => low + n <= high
      OBVIOUS
    <2> QED BY <1>5, <1>6, <2>1
  <1>7. Nat \subseteq S
    <2> HIDE DEF S
    <2> QED BY <1>4, <1>6, Induction
  <1> DEFINE f == [j \in low .. high |-> g[j - low]]
  <1>8. ASSUME NEW j \in low .. high PROVE f[j] = IF j = low THEN start ELSE step[j][f[j - 1]]
    <2>1. CASE j = low
      <3>1. j - low = 0 /\ 0 \in Nat
        BY <2>1
      <3>2. g[0] = start
        BY <1>3
      <3> HIDE DEF next
      <3> QED BY <2>1, <3>1, <3>2
    <2>2. CASE j # low
      <3> DEFINE n == j - low - 1
      <3>1. n \in Nat /\ low + n <= high /\ low + (n + 1) <= high /\ low + (n + 1) = j /\ j - low = n + 1
            /\ j - 1 \in low .. high /\ (j - 1) - low = n
        BY <2>2
      <3> HIDE DEF n
      <3>2. g[n] \in T[low + n]
        BY <1>7, <3>1
      <3>3. g[n + 1] = step[j][g[n]]
        <4> HIDE DEF next
        <4> QED BY <1>5, <3>1, <3>2
      <3>4. f[j] = g[n + 1] /\ f[j - 1] = g[n]
        <4> HIDE DEF next
        <4> QED BY <3>1
      <3> HIDE DEF next, f
      <3> QED BY <2>2, <3>3, <3>4
    <2> QED BY <2>1, <2>2
  <1>9. f = [j \in low .. high |-> f[j]]
    OBVIOUS
  <1>11. ASSUME NEW j \in low .. high PROVE f[j] \in T[j]
    <2>1. j - low \in Nat /\ low + (j - low) = j /\ f[j] = g[j - low]
      OBVIOUS
    <2> HIDE DEF f, next
    <2> QED BY <1>7, <2>1
  <1> HIDE DEF f
  <1>10. Loops(f, low, high, start, step)
    BY <1>8, <1>9 DEF Loops
  <1> QED BY <1>10, <1>11

(* What holds at low, and at each step if before it, holds from low to high. *)
LEMMA LoopKeeps ==
  ASSUME NEW low \in Int, NEW high \in Int, NEW f, NEW T, f[low] \in T[low],
         \A j \in low + 1 .. high : f[j - 1] \in T[j - 1] => f[j] \in T[j]
  PROVE  \A j \in low .. high : f[j] \in T[j]
  <1> DEFINE S == {n \in Nat : low + n <= high => f[low + n] \in T[low + n]}
  <1>2. 0 \in S
    <2>1. low + 0 = low
      OBVIOUS
    <2> QED BY <2>1
  <1>3. ASSUME NEW n \in Nat, n \in S PROVE n + 1 \in S
    <2> SUFFICES ASSUME low + (n + 1) <= high PROVE f[low + (n + 1)] \in T[low + (n + 1)]
      OBVIOUS
    <2> DEFINE j == low + (n + 1)
    <2>1. j \in low + 1 .. high /\ j - 1 = low + n /\ low + n <= high
      OBVIOUS
    <2>2. f[j - 1] \in T[j - 1]
      BY <1>3, <2>1
    <2> HIDE DEF j
    <2>4. f[j] \in T[j]
      BY <2>1, <2>2
    <2> QED BY <2>4 DEF j
  <1>4. Nat \subseteq S
    <2> HIDE DEF S
    <2> QED BY <1>2, <1>3, Induction
  <1> SUFFICES ASSUME NEW j \in low .. high PROVE f[j] \in T[j]
    OBVIOUS
  <1>5. j - low \in Nat /\ low + (j - low) = j
    OBVIOUS
  <1> QED BY <1>4, <1>5
=============================================================================
