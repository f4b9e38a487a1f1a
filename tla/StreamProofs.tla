---------------------------- MODULE StreamProofs ----------------------------
(***************************************************************************)
(* What module Stream promises of the calls a session makes of the bytes   *)
(* it receives: that the memory for the parts of a command is enough, that *)
(* no function is called without its arguments, whatever the client sends, *)
(* however recv cuts it, and wherever memory is missing, and that the      *)
(* lines of a client that waits for its answers are each run once, as they *)
(* were sent.                                                              *)
(***************************************************************************)
EXTENDS Stream, BstrProofs

(* Strings and lists of them. *)

LEMMA LeastOf ==
  ASSUME NEW S \in SUBSET Nat, S # {}
  PROVE  Min(S) \in S /\ \A n \in S : Min(S) <= n
  <1>1. \E m \in S : \A n \in S : m <= n
    BY Least
  <1> QED BY <1>1 DEF Min

LEMMA UpToType ==
  ASSUME NEW s \in Seq(Int), NEW C
  PROVE  UpTo(s, C) \in Seq(Int) /\ Len(UpTo(s, C)) <= Len(s)
  <1> DEFINE at == {j \in DOMAIN s : s[j] \in C}
  <1>1. CASE at = {}
    BY <1>1 DEF UpTo
  <1>2. CASE at # {}
    <2>1. at \subseteq 1 .. Len(s) /\ at \subseteq Nat
      OBVIOUS
    <2>2. Min(at) \in 1 .. Len(s)
      <3> HIDE DEF at
      <3> QED BY <1>2, <2>1, LeastOf
    <2>3. UpTo(s, C) = SubSeq(s, 1, Min(at) - 1)
      BY <1>2 DEF UpTo
    <2> HIDE DEF at
    <2>4. Min(at) - 1 \in 0 .. Len(s)
      BY <2>2
    <2> QED BY <2>3, <2>4
  <1> HIDE DEF at
  <1> QED BY <1>1, <1>2

(* A set of the first numbers has a greatest. *)
LEMMA GreatestOf ==
  ASSUME NEW n \in Nat, NEW S \in SUBSET (1 .. n), S # {}
  PROVE  Max(S) \in S
  <1> DEFINE D == {n - x : x \in S}
  <1>1. D \in SUBSET Nat /\ D # {}
    <2>1. \A x \in S : n - x \in Nat
      OBVIOUS
    <2> QED BY <2>1
  <1>2. PICK d \in D : \A e \in D : d <= e
    <2> HIDE DEF D
    <2> QED BY <1>1, Least
  <1>3. PICK x \in S : d = n - x
    BY <1>2
  <1>4. \A y \in S : x >= y
    <2> SUFFICES ASSUME NEW y \in S PROVE x >= y
      OBVIOUS
    <2>1. n - y \in D
      OBVIOUS
    <2>2. n - x <= n - y
      <3> HIDE DEF D
      <3> QED BY <1>2, <1>3, <2>1
    <2>3. x \in Nat /\ y \in Nat
      OBVIOUS
    <2> QED BY ONLY <2>2, <2>3, n \in Nat
  <1> QED BY <1>4 DEF Max

(* A number of a set that is least is the one Min gives. *)
LEMMA MinIs ==
  ASSUME NEW S \in SUBSET Nat, NEW m \in S, \A n \in S : m <= n
  PROVE  Min(S) = m
  <1>1. PICK k : k = Min(S)
    OBVIOUS
  <1>2. k \in S /\ k <= m
    BY <1>1, LeastOf
  <1>3. m <= k /\ m \in Nat /\ k \in Nat
    BY <1>2
  <1> QED BY ONLY <1>1, <1>2, <1>3

(* Trimmed, a string is no longer. *)
LEMMA TrimFacts ==
  ASSUME NEW s \in Seq(Int)
  PROVE  btrimws(s) \in Seq(Int) /\ Len(btrimws(s)) <= Len(s)
  <1> DEFINE black == {j \in DOMAIN s : ~wspace(s[j])}
  <1>1. CASE black = {}
    BY <1>1 DEF btrimws
  <1>2. CASE black # {}
    <2>1. black \in SUBSET (1 .. Len(s)) /\ black \in SUBSET Nat /\ Len(s) \in Nat
      OBVIOUS
    <2>2. PICK m, n : m = Min(black) /\ n = Max(black)
      OBVIOUS
    <2>3. m \in 1 .. Len(s) /\ n \in 1 .. Len(s)
      <3>1. Min(black) \in black /\ Max(black) \in black
        <4> HIDE DEF black
        <4> QED BY <1>2, <2>1, LeastOf, GreatestOf
      <3> HIDE DEF black
      <3> QED BY <2>1, <2>2, <3>1
    <2>4. btrimws(s) = SubSeq(s, m, n)
      BY <1>2, <2>2 DEF btrimws
    <2> HIDE DEF black
    <2>5. Len(SubSeq(s, m, n)) <= Len(s)
      <3>1. Len(SubSeq(s, m, n)) = IF m <= n THEN n - m + 1 ELSE 0
        BY <2>1, <2>3
      <3> QED BY ONLY <2>1, <2>3, <3>1
    <2>6. SubSeq(s, m, n) \in Seq(Int)
      BY <2>1, <2>3
    <2> QED BY <2>4, <2>5, <2>6
  <1> QED BY <1>1, <1>2

(* There is no list, or an entry made of each piece. *)
LEMMA bsplitCases ==
  ASSUME NEW s, NEW c, NEW oom, NEW l \in bsplit(s, c, oom)
  PROVE  \/ oom /\ l = NullList
         \/ l.entry \in OneOfEach([j \in DOMAIN Pieces(s, c) |-> bmidstr(Pieces(s, c)[j], oom)])
  BY DEF bsplit

(* bsplit gives the null list or an entry for each piece. *)
LEMMA bsplitFacts ==
  ASSUME NEW s \in Seq(Int), NEW c, NEW oom, NEW l \in bsplit(s, c, oom)
  PROVE  \E V : l.entry \in Seq(V)
  <1> DEFINE pieces == Pieces(s, c)
             S == [j \in DOMAIN pieces |-> bmidstr(pieces[j], oom)]
             V == UNION {S[j] : j \in DOMAIN pieces}
  <1>1. pieces \in Seq(Seq(Int))
    BY PiecesType
  <1>5. l = NullList \/ l.entry \in OneOfEach(S)
    BY bsplitCases
  <1> HIDE DEF pieces
  <1>2. S \in Seq(SUBSET V)
    <2>1. \A j \in DOMAIN pieces : S[j] \in SUBSET V
      OBVIOUS
    <2>2. DOMAIN pieces = 1 .. Len(pieces) /\ Len(pieces) \in Nat
      BY <1>1
    <2>3. S = [j \in 1 .. Len(pieces) |-> S[j]]
      BY <2>2
    <2> HIDE DEF S, V
    <2> QED BY <2>1, <2>2, <2>3
  <1>3. CASE l = NullList
    BY <1>3 DEF NullList
  <1>4. CASE l.entry \in OneOfEach(S)
    <2> HIDE DEF S, V
    <2> QED BY <1>2, <1>4, OneOfEachFacts
  <1> HIDE DEF S
  <1> QED BY <1>3, <1>4, <1>5

Whole(l) == Select(l.entry, {b \in Range(l.entry) : blength(b) > 0})

(* The copies of a list's entries: one of each that has a length. *)
LEMMA CopiesFacts ==
  ASSUME NEW V, NEW l, l.entry \in Seq(V), NEW oom, NEW c \in Copies(l, oom)
  PROVE  /\ \E U : c \in Seq(U)
         /\ Len(c) = Len(Whole(l)) /\ Len(c) <= Len(l.entry)
         /\ \A j \in 1 .. Len(c) : c[j] \in bstrcpy(Whole(l)[j], oom)
  <1> DEFINE whole == Whole(l)
             S == [j \in DOMAIN whole |-> bstrcpy(whole[j], oom)]
             U == UNION {S[j] : j \in DOMAIN whole}
  <1>1. whole \in Seq(V) /\ Len(whole) <= Len(l.entry)
    BY SelectFacts DEF Whole
  <1>2. c \in OneOfEach(S)
    BY DEF Copies, Whole
  <1> HIDE DEF whole
  <1>3. S \in Seq(SUBSET U) /\ Len(S) = Len(whole)
    <2>1. \A j \in DOMAIN whole : S[j] \in SUBSET U
      OBVIOUS
    <2>2. DOMAIN whole = 1 .. Len(whole) /\ Len(whole) \in Nat
      BY <1>1
    <2>3. S = [j \in 1 .. Len(whole) |-> S[j]]
      BY <2>2
    <2> HIDE DEF S, U
    <2> QED BY <2>1, <2>2, <2>3
  <1>4. \A j \in 1 .. Len(whole) : S[j] = bstrcpy(whole[j], oom)
    BY <1>1
  <1> HIDE DEF S, U
  <1>5. c \in Seq(U) /\ Len(c) = Len(whole) /\ \A j \in 1 .. Len(whole) : c[j] \in S[j]
    BY <1>2, <1>3, OneOfEachFacts
  <1> QED BY <1>1, <1>4, <1>5 DEF whole

(* What bstrListAlloc gives is the null list or has room for n entries. *)
LEMMA AllocFacts ==
  ASSUME NEW n \in Nat, NEW oom, NEW r \in bstrListAlloc(bstrListCreate, n, oom), r # NullList
  PROVE  r.entry = <<>> /\ r.mlen \in Nat /\ n <= r.mlen /\ r = [entry |-> <<>>, mlen |-> r.mlen]
  <1>1. CASE n <= 0
    BY <1>1 DEF bstrListAlloc
  <1>2. CASE n = 1
    BY <1>2 DEF bstrListAlloc, bstrListCreate
  <1>3. CASE n > 1
    <2>1. snapUpSize(n) \in Nat /\ snapUpSize(n) >= n
      BY SnapIsEnough
    <2>2. PICK m \in Sizes(snapUpSize(n), n, oom) :
            r = IF m = 0 THEN NullList ELSE [bstrListCreate EXCEPT !.mlen = m]
      BY <1>3 DEF bstrListAlloc, bstrListCreate
    <2>3. m # 0 /\ r = [entry |-> <<>>, mlen |-> m]
      BY <2>2 DEF bstrListCreate
    <2>4. m \in Nat /\ n <= m
      BY <2>1, <2>3 DEF Sizes
    <2> QED BY <2>3, <2>4
  <1> QED BY <1>1, <1>2, <1>3

(* Where a list of cmd_parts comes from. *)
LEMMA PartsCases ==
  ASSUME NEW line, NEW oom, NEW list \in cmd_parts(line, oom)
  PROVE  \/ oom /\ list = NullList
         \/ \E b \in bfromcstr(line, oom) :
              \E l \in IF b = NullBstr THEN {NullList} ELSE bsplit(b.data, Blank, oom) :
                \E r \in bstrListAlloc(bstrListCreate, Len(l.entry), oom) :
                  \E c \in Copies(l, oom) :
                    list = IF r = NullList THEN r ELSE [r EXCEPT !.entry = c]
  <1> DEFINE Made(b) == IF b = NullBstr THEN {NullList} ELSE bsplit(b.data, Blank, oom)
             room(l) == bstrListAlloc(bstrListCreate, Len(l.entry), oom)
             Filled(r, c) == IF r = NullList THEN r ELSE [r EXCEPT !.entry = c]
             All(l) == {Filled(r, c) : r \in room(l), c \in Copies(l, oom)}
             splits == UNION {Made(b) : b \in bfromcstr(line, oom)}
  <1>1. cmd_parts(line, oom) = (UNION {All(l) : l \in splits}) \cup (IF oom THEN {NullList} ELSE {})
    BY DEF cmd_parts
  <1>2. (oom /\ list = NullList) \/ \E l \in splits : list \in All(l)
    <2> HIDE DEF splits, All
    <2> QED BY <1>1
  <1>3. ASSUME NEW l \in splits, list \in All(l)
        PROVE  \E b \in bfromcstr(line, oom) : \E k \in Made(b) :
                 \E r \in room(k) : \E c \in Copies(k, oom) : list = Filled(r, c)
    <2>1. PICK b \in bfromcstr(line, oom) : l \in Made(b)
      <3> HIDE DEF Made
      <3> QED OBVIOUS
    <2>2. \E r \in room(l) : \E c \in Copies(l, oom) : list = Filled(r, c)
      <3> HIDE DEF splits, room, Filled
      <3> QED BY <1>3
    <2> HIDE DEF Made, room, Filled
    <2> QED BY <2>1, <2>2
  <1>4. \/ oom /\ list = NullList
        \/ \E b \in bfromcstr(line, oom) : \E l \in Made(b) :
             \E r \in room(l) : \E c \in Copies(l, oom) : list = Filled(r, c)
    <2> HIDE DEF splits, All, Made, room, Filled
    <2> QED BY <1>2, <1>3
  <1> QED BY <1>4

(* What the lists cmd_parts may give are. *)
LEMMA PartsFacts ==
  ASSUME NEW line \in Seq(Int), NEW oom, NEW list \in cmd_parts(line, oom)
  PROVE  ListFits(list) /\ \E U : list.entry \in Seq(U)
  <1>1. CASE list = NullList
    <2>1. list.entry = <<>> /\ list.mlen = 0 /\ <<>> \in Seq(Int)
      BY <1>1 DEF NullList
    <2> QED BY <2>1 DEF ListFits
  <1>2. ASSUME NEW b \in bfromcstr(line, oom),
               NEW l \in IF b = NullBstr THEN {NullList} ELSE bsplit(b.data, Blank, oom),
               NEW r \in bstrListAlloc(bstrListCreate, Len(l.entry), oom),
               NEW c \in Copies(l, oom),
               r # NullList, list = [r EXCEPT !.entry = c]
        PROVE  ListFits(list) /\ \E U : list.entry \in Seq(U)
    <2>1. PICK V : l.entry \in Seq(V)
      <3>1. CASE b = NullBstr
        <4>1. l.entry = <<>> /\ <<>> \in Seq(Int)
          BY <3>1 DEF NullList
        <4> QED BY <4>1
      <3>2. CASE b # NullBstr
        <4>1. b.data = line
          BY <3>2 DEF bfromcstr
        <4> QED BY <3>2, <4>1, bsplitFacts
      <3> QED BY <3>1, <3>2
    <2>2. Len(l.entry) \in Nat
      BY <2>1
    <2>3. r.mlen \in Nat /\ Len(l.entry) <= r.mlen /\ r = [entry |-> <<>>, mlen |-> r.mlen]
      BY <1>2, <2>2, AllocFacts
    <2>4. list.entry = c /\ list.mlen = r.mlen
      BY <1>2, <2>3
    <2>5. (\E U : c \in Seq(U)) /\ Len(c) <= Len(l.entry)
      BY <2>1, CopiesFacts
    <2>6. Len(c) \in Nat
      BY <2>5
    <2> QED BY <2>2, <2>3, <2>4, <2>5, <2>6 DEF ListFits
  <1> QED BY <1>1, <1>2, PartsCases

LEMMA FunctionFacts ==
  /\ DOMAIN functions = 1 .. 8 /\ NS_NOP \notin DOMAIN functions
  /\ \A f \in DOMAIN functions : functions[f].argc \in Nat /\ functions[f].argc > 0
  BY DEF functions, NS_NOP

----------------------------------------------------------------------------
(* The words of a line: it spells them, whatever blanks there are between   *)
(* them, and they are its pieces that are not empty.                         *)

\* What follows q, what is left of the characters before, when the character n
\* of s is come to.
SqueezedOn(q, s, n) ==
  IF s[n] = Blank THEN q
  ELSE IF q # <<>> /\ s[n - 1] = Blank THEN q \o <<Blank, s[n]>>
  ELSE Append(q, s[n])

Squeezes(Q, s) ==
  /\ Q[0] = <<>>
  /\ \A n \in 1 .. Len(s) : Q[n] = SqueezedOn(Q[n - 1], s, n)

(* The recursion of Squeezed, after each character of s. *)
LEMMA SqueezedScan ==
  ASSUME NEW s \in Seq(Int)
  PROVE  \E Q : Squeezes(Q, s) /\ Squeezed(s) = Q[Len(s)]
  <1> DEFINE U == Seq({s[n] : n \in Nat} \cup {Blank})
             Nx(n, q) == SqueezedOn(q, s, n)
             step == [n \in Nat |-> [q \in U |-> Nx(n, q)]]
             IsQ(Q) == Q = [n \in Nat |-> IF n = 0 THEN <<>> ELSE Nx(n, Q[n - 1])]
             Q == CHOOSE f : IsQ(f)
  <1>1. <<>> \in U /\ step \in [Nat -> [U -> U]]
    <2>1. ASSUME NEW n \in Nat, NEW q \in U PROVE Nx(n, q) \in U
      <3>1. s[n] \in {s[m] : m \in Nat} \cup {Blank}
        OBVIOUS
      <3> DEFINE E == {s[m] : m \in Nat} \cup {Blank}
      <3>2. s[n] \in E /\ Blank \in E
        BY <3>1
      <3> HIDE DEF E
      <3>3. <<Blank, s[n]>> \in Seq(E)
        BY <3>2
      <3>4. Append(q, s[n]) \in U /\ q \o <<Blank, s[n]>> \in U
        BY <3>2, <3>3 DEF E
      <3> HIDE DEF U
      <3> QED BY <3>4 DEF SqueezedOn
    <2>2. <<>> \in U
      OBVIOUS
    <2> HIDE DEF Nx, U
    <2> QED BY <2>1, <2>2
  <1>2. PICK f \in [Nat -> U] : Iterates(f, <<>>, step)
    <2> HIDE DEF U, step
    <2> QED BY <1>1, RecursionExists
  <1>3. IsQ(f)
    <2>1. \A n \in Nat : n # 0 => step[n][f[n - 1]] = Nx(n, f[n - 1])
      <3> HIDE DEF U, Nx
      <3> QED OBVIOUS
    <2>2. f = [n \in Nat |-> IF n = 0 THEN <<>> ELSE step[n][f[n - 1]]]
      <3> HIDE DEF U, step
      <3> QED BY <1>2 DEF Iterates
    <2> HIDE DEF step, Nx
    <2> QED BY <2>1, <2>2
  <1>4. IsQ(Q)
    <2> HIDE DEF IsQ
    <2> QED BY <1>3 DEF Q
  <1>5. Squeezed(s) = Q[Len(s)]
    BY DEF Squeezed, SqueezedOn
  <1> HIDE DEF Q
  <1>6. Q[0] = <<>> /\ \A n \in Nat : n # 0 => Q[n] = Nx(n, Q[n - 1])
    <2> HIDE DEF Nx
    <2> QED BY <1>4
  <1> HIDE DEF IsQ
  <1>7. \A n \in 1 .. Len(s) : n \in Nat /\ n # 0
    OBVIOUS
  <1>8. Squeezes(Q, s)
    BY <1>6, <1>7 DEF Squeezes
  <1> QED BY <1>5, <1>8

LEMMA SqueezedNone == Squeezed(<<>>) = <<>>
  <1> DEFINE s == <<>>
  <1>1. s \in Seq(Int) /\ Len(s) = 0
    OBVIOUS
  <1> HIDE DEF s
  <1>2. PICK Q : Squeezes(Q, s) /\ Squeezed(s) = Q[Len(s)]
    BY <1>1, SqueezedScan
  <1>3. Squeezed(s) = <<>>
    BY <1>1, <1>2 DEF Squeezes
  <1> QED BY <1>3 DEF s

(* One more character of a line is left out or comes behind. *)
LEMMA SqueezedAppend ==
  ASSUME NEW s \in Seq(Int), NEW x \in Int
  PROVE  Squeezed(Append(s, x)) =
           IF x = Blank THEN Squeezed(s)
           ELSE IF Squeezed(s) # <<>> /\ s[Len(s)] = Blank THEN Squeezed(s) \o <<Blank, x>>
           ELSE Append(Squeezed(s), x)
  <1> DEFINE t == Append(s, x)
             m == Len(s)
  <1>1. t \in Seq(Int) /\ m \in Nat /\ Len(t) = m + 1 /\ t[m + 1] = x /\ \A n \in 1 .. m : t[n] = s[n]
    OBVIOUS
  <1> HIDE DEF t
  <1>2. PICK P : Squeezes(P, t) /\ Squeezed(t) = P[Len(t)]
    BY <1>1, SqueezedScan
  <1>3. PICK Q : Squeezes(Q, s) /\ Squeezed(s) = Q[Len(s)]
    BY SqueezedScan
  <1> DEFINE T == {n \in Nat : n <= m => P[n] = Q[n]}
  <1>4. 0 \in T
    BY <1>2, <1>3 DEF Squeezes
  <1>5. ASSUME NEW n \in Nat, n \in T PROVE n + 1 \in T
    <2> SUFFICES ASSUME n + 1 <= m PROVE P[n + 1] = Q[n + 1]
      OBVIOUS
    <2>1. /\ n + 1 \in 1 .. m /\ n + 1 \in 1 .. Len(t) /\ (n + 1) - 1 = n
          /\ P[n] = Q[n] /\ t[n + 1] = s[n + 1]
      BY <1>1, <1>5
    <2>2. P[n + 1] = SqueezedOn(P[n], t, n + 1) /\ Q[n + 1] = SqueezedOn(Q[n], s, n + 1)
      BY <1>2, <1>3, <2>1 DEF Squeezes
    <2>3. CASE n = 0
      <3>1. P[n] = <<>> /\ Q[n] = <<>>
        BY <1>2, <1>3, <2>3 DEF Squeezes
      <3> QED BY <2>1, <2>2, <3>1 DEF SqueezedOn
    <2>4. CASE n # 0
      <3>1. t[(n + 1) - 1] = s[(n + 1) - 1]
        BY <1>1, <2>1, <2>4
      <3> QED BY <2>1, <2>2, <3>1 DEF SqueezedOn
    <2> QED BY <2>3, <2>4
  <1>6. Nat \subseteq T
    <2> HIDE DEF T
    <2> QED BY <1>4, <1>5, Induction
  <1>7. P[m] = Q[m]
    BY <1>1, <1>6
  <1>8. P[m + 1] = SqueezedOn(P[m], t, m + 1) /\ (m + 1) - 1 = m
    <2>1. m + 1 \in 1 .. Len(t) /\ (m + 1) - 1 = m
      BY <1>1
    <2> QED BY <1>2, <2>1 DEF Squeezes
  <1>9. P[m] # <<>> => t[m] = s[m]
    <2>1. CASE m = 0
      BY <1>2, <2>1 DEF Squeezes
    <2>2. CASE m # 0
      BY <1>1, <2>2
    <2> QED BY <2>1, <2>2
  <1>10. Squeezed(t) = SqueezedOn(Squeezed(s), t, m + 1) /\ (Squeezed(s) # <<>> => t[(m + 1) - 1] = s[m])
    BY <1>1, <1>2, <1>3, <1>7, <1>8, <1>9
  <1> HIDE DEF m
  <1>11. Squeezed(t) = IF x = Blank THEN Squeezed(s)
           ELSE IF Squeezed(s) # <<>> /\ s[m] = Blank THEN Squeezed(s) \o <<Blank, x>>
           ELSE Append(Squeezed(s), x)
    BY <1>1, <1>10 DEF SqueezedOn
  <1> QED BY <1>11 DEF t, m

\* A word is characters that are no blanks.
Words == Seq(Int \ {Blank})

(* q has the words of W with a blank between them.                          *)
Joins(J, W) ==
  /\ J[0] = <<>>
  /\ \A j \in 1 .. Len(W) : J[j] = IF j = 1 THEN W[1] ELSE J[j - 1] \o (<<Blank>> \o W[j])

IsJoin(q, W) == \E J : Joins(J, W) /\ q = J[Len(W)]

(* One more word comes behind with a blank before it, ... *)
LEMMA JoinMore ==
  ASSUME NEW V, NEW W \in Seq(V), NEW u \in V, NEW q, IsJoin(q, W)
  PROVE  IsJoin(IF W = <<>> THEN u ELSE q \o (<<Blank>> \o u), Append(W, u))
  <1> DEFINE X == Append(W, u)
             m == Len(W)
             p == IF W = <<>> THEN u ELSE q \o (<<Blank>> \o u)
  <1>1. X \in Seq(V) /\ m \in Nat /\ Len(X) = m + 1 /\ X[m + 1] = u /\ \A n \in 1 .. m : X[n] = W[n]
    OBVIOUS
  <1>2. PICK J : Joins(J, W) /\ q = J[Len(W)]
    BY DEF IsJoin
  <1>a. m = 0 <=> W = <<>>
    OBVIOUS
  <1> HIDE DEF X, p
  <1> DEFINE K == [j \in 0 .. m + 1 |-> IF j = m + 1 THEN p ELSE J[j]]
  <1>3. K[0] = <<>> /\ K[m + 1] = p
    BY <1>1, <1>2 DEF Joins
  <1>4. ASSUME NEW j \in 1 .. Len(X)
        PROVE  K[j] = IF j = 1 THEN X[1] ELSE K[j - 1] \o (<<Blank>> \o X[j])
    <2>1. CASE j = m + 1
      <3>1. K[j - 1] = J[m] /\ K[j] = p
        BY <1>1, <1>3, <2>1
      <3>2. j = 1 <=> m = 0
        BY <1>1, <2>1
      <3> HIDE DEF K, m
      <3> QED BY <1>1, <1>2, <1>a, <2>1, <3>1, <3>2 DEF p, m
    <2>2. CASE j # m + 1
      <3>1. j \in 1 .. m /\ 1 \in 1 .. m /\ K[j] = J[j] /\ K[j - 1] = J[j - 1]
        BY <1>1, <2>2
      <3>2. X[j] = W[j] /\ X[1] = W[1]
        BY <1>1, <3>1
      <3> HIDE DEF K
      <3> QED BY <1>2, <3>1, <3>2 DEF Joins
    <2> QED BY <2>1, <2>2
  <1>5. Joins(K, X) /\ p = K[Len(X)]
    <2> HIDE DEF K
    <2> QED BY <1>1, <1>3, <1>4 DEF Joins
  <1> HIDE DEF K
  <1>6. IsJoin(p, X)
    BY <1>5 DEF IsJoin
  <1> QED BY <1>6 DEF p, X

(* ... and the last of more words can be taken away. *)
LEMMA JoinBack ==
  ASSUME NEW V, NEW W \in Seq(V), NEW u \in V, NEW q, IsJoin(q, Append(W, u))
  PROVE  \E r : IsJoin(r, W) /\ q = IF W = <<>> THEN u ELSE r \o (<<Blank>> \o u)
  <1> DEFINE X == Append(W, u)
             m == Len(W)
  <1>1. X \in Seq(V) /\ m \in Nat /\ Len(X) = m + 1 /\ X[m + 1] = u /\ \A n \in 1 .. m : X[n] = W[n]
    OBVIOUS
  <1>2. PICK J : Joins(J, X) /\ q = J[Len(X)]
    BY DEF IsJoin
  <1>3. m = 0 <=> W = <<>>
    OBVIOUS
  <1> HIDE DEF X
  <1>4. ASSUME NEW j \in 1 .. m
        PROVE  J[j] = IF j = 1 THEN W[1] ELSE J[j - 1] \o (<<Blank>> \o W[j])
    <2>1. j \in 1 .. Len(X) /\ 1 \in 1 .. m /\ X[j] = W[j] /\ X[1] = W[1]
      BY <1>1
    <2> QED BY <1>2, <2>1 DEF Joins
  <1>5. IsJoin(J[m], W)
    <2>1. Joins(J, W)
      BY <1>2, <1>4 DEF Joins
    <2> QED BY <2>1 DEF IsJoin
  <1>6. q = IF W = <<>> THEN u ELSE J[m] \o (<<Blank>> \o u)
    <2>1. m + 1 \in 1 .. Len(X) /\ (m + 1) - 1 = m /\ (m + 1 = 1 <=> m = 0)
      BY <1>1
    <2>2. J[m + 1] = IF m + 1 = 1 THEN X[1] ELSE J[m] \o (<<Blank>> \o X[m + 1])
      BY <1>2, <2>1 DEF Joins
    <2> HIDE DEF m
    <2> QED BY <1>1, <1>2, <1>3, <2>1, <2>2
  <1> QED BY <1>5, <1>6

(* There is something if there is a word. *)
LEMMA JoinFacts ==
  ASSUME NEW W \in Seq(Seq(Int)), NEW q, IsJoin(q, W), \A j \in 1 .. Len(W) : W[j] # <<>>
  PROVE  q \in Seq(Int) /\ (q = <<>> <=> W = <<>>)
  <1>1. PICK J : Joins(J, W) /\ q = J[Len(W)]
    BY DEF IsJoin
  <1> DEFINE T == {n \in Nat : n <= Len(W) => J[n] \in Seq(Int) /\ (n > 0 => J[n] # <<>>)}
  <1>2. 0 \in T
    <2>1. J[0] = <<>>
      BY <1>1 DEF Joins
    <2>2. <<>> \in Seq(Int)
      OBVIOUS
    <2>3. J[0] \in Seq(Int)
      BY <2>1, <2>2
    <2>4. 0 \in Nat /\ ~(0 > 0)
      OBVIOUS
    <2> QED BY <2>3, <2>4
  <1>3. ASSUME NEW n \in Nat, n \in T PROVE n + 1 \in T
    <2> SUFFICES ASSUME n + 1 <= Len(W) PROVE J[n + 1] \in Seq(Int) /\ J[n + 1] # <<>>
      OBVIOUS
    <2>1. PICK p, x : p = J[n] /\ x = W[n + 1]
      OBVIOUS
    <2>2. p \in Seq(Int) /\ x \in Seq(Int) /\ x # <<>> /\ n + 1 \in 1 .. Len(W) /\ (n + 1) - 1 = n
      BY <1>3, <2>1
    <2>3. J[n + 1] = x \/ J[n + 1] = p \o (<<Blank>> \o x)
      BY <1>1, <2>1, <2>2 DEF Joins
    <2>4. p \o (<<Blank>> \o x) \in Seq(Int) /\ p \o (<<Blank>> \o x) # <<>>
      <3>1. <<Blank>> \o x \in Seq(Int) /\ Len(<<Blank>> \o x) = Len(x) + 1 /\ Len(x) \in Nat
        BY <2>2 DEF Blank
      <3>2. PICK y : y = <<Blank>> \o x
        OBVIOUS
      <3>3. Len(p \o y) = Len(p) + Len(y) /\ p \o y \in Seq(Int) /\ Len(p) \in Nat
        BY <2>2, <3>1, <3>2
      <3>4. Len(p \o y) # 0
        BY <3>1, <3>2, <3>3
      <3> QED BY <3>2, <3>3, <3>4
    <2> QED BY <2>2, <2>3, <2>4
  <1>4. Nat \subseteq T
    <2> HIDE DEF T
    <2> QED BY <1>2, <1>3, Induction
  <1>5. Len(W) \in Nat /\ (W = <<>> <=> Len(W) = 0)
    OBVIOUS
  <1>6. J[Len(W)] \in Seq(Int) /\ (Len(W) > 0 => J[Len(W)] # <<>>)
    BY <1>4, <1>5
  <1>7. Len(W) = 0 => J[Len(W)] = <<>>
    BY <1>1 DEF Joins
  <1> QED BY <1>1, <1>5, <1>6, <1>7

NotEmpty == Seq(Int) \ {<<>>}
WordsOf(s) == Select(Pieces(s, Blank), NotEmpty)

(* The words of a line are its pieces that are not empty; squeezed, it is   *)
(* these with a blank between them.                                         *)
Split(s) ==
  \E w \in Seq(Words) : \E u \in Words :
    /\ Pieces(s, Blank) = Append(w, u)
    /\ IsJoin(Squeezed(s), Select(Append(w, u), NotEmpty))
    /\ s # <<>> => (u = <<>> <=> s[Len(s)] = Blank)
    /\ s = <<>> => u = <<>>

(* A word is a string, to which a character that is no blank can be added. *)
LEMMA WordsAreStrings ==
  /\ Words \subseteq Seq(Int) /\ Seq(Words) \subseteq Seq(Seq(Int)) /\ <<>> \in Words
  /\ \A u \in Words : \A x \in Int \ {Blank} : Append(u, x) \in Words
  <1>1. Words \subseteq Seq(Int)
    BY DEF Words
  <1>2. Seq(Words) \subseteq Seq(Seq(Int))
    BY <1>1
  <1>3. <<>> \in Words
    BY DEF Words
  <1>4. \A u \in Words : \A x \in Int \ {Blank} : Append(u, x) \in Words
    <2> DEFINE E == Int \ {Blank}
    <2> HIDE DEF E
    <2>1. \A u \in Seq(E) : \A x \in E : Append(u, x) \in Seq(E)
      OBVIOUS
    <2> QED BY <2>1 DEF E, Words
  <1> QED BY <1>1, <1>2, <1>3, <1>4

LEMMA SplitOfNone == Split(<<>>)
  <1> DEFINE w == <<>>
  <1>1. w \in Seq(Words) /\ w \in Seq(Seq(Int)) /\ <<>> \in Words /\ <<>> \in Seq(Int)
    BY WordsAreStrings
  <1>2. Pieces(<<>>, Blank) = Append(w, <<>>)
    <2>1. Pieces(<<>>, Blank) = << <<>> >>
      BY PiecesOfNone
    <2> QED BY <2>1
  <1>3. Select(w, NotEmpty) = <<>>
    BY SelectNone
  <1> HIDE DEF w
  <1>4. Select(Append(w, <<>>), NotEmpty) = <<>>
    <2>1. <<>> \notin NotEmpty
      BY DEF NotEmpty
    <2>2. Select(Append(w, <<>>), NotEmpty) = Select(w, NotEmpty)
      BY <1>1, <2>1, SelectAppend
    <2> QED BY <1>3, <2>2
  <1>5. IsJoin(<<>>, <<>>)
    <2> DEFINE J == [j \in {0} |-> <<>>]
    <2>1. J[0] = <<>> /\ Len(<<>>) = 0
      OBVIOUS
    <2> HIDE DEF J
    <2>2. Joins(J, <<>>)
      BY <2>1 DEF Joins
    <2> QED BY <2>1, <2>2 DEF IsJoin
  <1>6. IsJoin(Squeezed(<<>>), Select(Append(w, <<>>), NotEmpty))
    BY <1>4, <1>5, SqueezedNone
  <1> QED BY <1>1, <1>2, <1>6 DEF Split

(* The character that comes next adds to the last piece, or begins another; *)
(* in what is squeezed, it adds to the last word, or begins another.         *)
LEMMA SplitGrows ==
  ASSUME NEW s \in Seq(Int), NEW x \in Int, Split(s)
  PROVE  Split(Append(s, x))
  <1> DEFINE t == Append(s, x)
  <1>1. PICK w \in Seq(Words), u \in Words :
          /\ Pieces(s, Blank) = Append(w, u)
          /\ IsJoin(Squeezed(s), Select(Append(w, u), NotEmpty))
          /\ s # <<>> => (u = <<>> <=> s[Len(s)] = Blank)
          /\ s = <<>> => u = <<>>
    BY DEF Split
  <1>2. /\ t # <<>> /\ t[Len(t)] = x /\ t \in Seq(Int)
    OBVIOUS
  <1> HIDE DEF t
  <1>0. PICK S : S = Seq(Int)
    OBVIOUS
  <1>3. w \in Seq(S) /\ u \in S
    BY <1>0, WordsAreStrings
  <1>4. Cut(Pieces(t, Blank), w, u, x, Blank)
    <2>1. PICK v \in Seq(S) : \E y \in S :
            Pieces(s, Blank) = Append(v, y) /\ Cut(Pieces(t, Blank), v, y, x, Blank)
      BY <1>0, PiecesOfAppend DEF t
    <2>2. PICK y \in S :
            Pieces(s, Blank) = Append(v, y) /\ Cut(Pieces(t, Blank), v, y, x, Blank)
      BY <2>1
    <2>3. v = w /\ y = u
      <3>1. Append(v, y) = Append(w, u)
        BY <1>1, <2>2
      <3> QED BY <1>3, <3>1, LastAndRest
    <2> QED BY <2>2, <2>3
  <1>5. Squeezed(t) = IF x = Blank THEN Squeezed(s)
           ELSE IF Squeezed(s) # <<>> /\ s[Len(s)] = Blank THEN Squeezed(s) \o <<Blank, x>>
           ELSE Append(Squeezed(s), x)
    BY SqueezedAppend DEF t
  <1> DEFINE A == Select(w, NotEmpty)
             q == Squeezed(s)
  <1>6. A \in Seq(S) /\ \A j \in 1 .. Len(A) : A[j] # <<>>
    <2>1. A \in Seq(S)
      BY <1>3, SelectFacts
    <2>2. PICK e : Places(e, w, NotEmpty) /\ A = [m \in 1 .. Len(e) |-> w[e[m]]]
      <3>1. \E e : Places(e, w, NotEmpty) /\ Select(w, NotEmpty) = [m \in 1 .. Len(e) |-> w[e[m]]]
        BY <1>3, SelectPlaces
      <3> QED BY <3>1
    <2>3. /\ e \in Seq(1 .. Len(w))
          /\ {e[m] : m \in 1 .. Len(e)} = {j \in 1 .. Len(w) : w[j] \in NotEmpty}
      BY <2>2 DEF Places
    <2>4. \A m \in 1 .. Len(e) : w[e[m]] \in NotEmpty
      BY <2>3
    <2>5. Len(A) = Len(e)
      <3>1. Len(e) \in Nat
        BY <2>3
      <3> HIDE DEF A
      <3> QED BY <2>2, <3>1
    <2> HIDE DEF A
    <2> QED BY <2>1, <2>2, <2>4, <2>5 DEF NotEmpty
  <1>7. Select(Append(w, u), NotEmpty) = IF u = <<>> THEN A ELSE Append(A, u)
    <2>1. u \in NotEmpty <=> u # <<>>
      BY <1>0, <1>3 DEF NotEmpty
    <2> QED BY <1>3, <2>1, SelectAppend
  <1> HIDE DEF A
  <1>8. CASE x = Blank
    <2>1. Pieces(t, Blank) = Append(Append(w, u), <<>>)
      BY <1>4, <1>8 DEF Cut
    <2>2. Append(w, u) \in Seq(Words) /\ <<>> \in Words
      <3>1. <<>> \in Words
        BY WordsAreStrings
      <3> HIDE DEF Words
      <3> QED BY <3>1
    <2>3. Select(Append(Append(w, u), <<>>), NotEmpty) = Select(Append(w, u), NotEmpty)
      <3>1. <<>> \notin NotEmpty /\ <<>> \in S /\ Append(w, u) \in Seq(S)
        <4>1. <<>> \in S
          BY <1>0
        <4> QED BY <1>3, <4>1 DEF NotEmpty
      <3> QED BY <3>1, SelectAppend
    <2>4. IsJoin(Squeezed(t), Select(Append(Append(w, u), <<>>), NotEmpty))
      BY <1>1, <1>5, <1>8, <2>3
    <2>5. Split(t)
      BY <1>2, <1>8, <2>1, <2>2, <2>4 DEF Split
    <2> QED BY <2>5 DEF t
  <1>9. CASE x # Blank
    <2> DEFINE z == Append(u, x)
    <2>1. z \in Words /\ z \in S /\ z # <<>> /\ z \in NotEmpty
      <3>1. z \in Words
        <4>1. x \in Int \ {Blank}
          BY <1>9
        <4> QED BY <4>1, WordsAreStrings
      <3>2. z \in Seq(Int)
        BY <3>1, WordsAreStrings
      <3>3. z # <<>>
        <4>1. u \in Seq(Int)
          BY <1>0, <1>3
        <4>2. Len(z) = Len(u) + 1 /\ Len(u) \in Nat
          BY <4>1
        <4>3. Len(z) # 0 /\ Len(<<>>) = 0
          BY ONLY <4>2
        <4> HIDE DEF z
        <4> QED BY <4>3
      <3> HIDE DEF z
      <3> QED BY <1>0, <3>1, <3>2, <3>3 DEF NotEmpty
    <2>2. Pieces(t, Blank) = Append(w, z)
      BY <1>4, <1>9 DEF Cut
    <2>3. Select(Append(w, z), NotEmpty) = Append(A, z)
      <3>1. Select(Append(w, z), NotEmpty) = IF z \in NotEmpty THEN Append(Select(w, NotEmpty), z)
                                            ELSE Select(w, NotEmpty)
        <4> HIDE DEF z
        <4> QED BY <1>3, <2>1, SelectAppend
      <3> HIDE DEF z
      <3> QED BY <2>1, <3>1 DEF A
    <2>4. IsJoin(Squeezed(t), Append(A, z))
      <3>1. CASE u = <<>>
        <4>1. IsJoin(q, A)
          BY <1>1, <1>7, <3>1
        <4>2. q \in Seq(Int) /\ (q = <<>> <=> A = <<>>)
          BY <1>0, <1>6, <4>1, JoinFacts
        <4>3. z = <<x>>
          BY <3>1
        <4>4. IsJoin(IF A = <<>> THEN z ELSE q \o (<<Blank>> \o z), Append(A, z))
          <5> HIDE DEF z, q
          <5> QED BY <1>6, <2>1, <4>1, JoinMore
        <4>5. CASE A = <<>>
          <5>1. Squeezed(t) = Append(q, x) /\ q = <<>>
            BY <1>5, <1>9, <4>2, <4>5
          <5>2. Squeezed(t) = z
            BY <4>3, <5>1
          <5> QED BY <4>4, <4>5, <5>2
        <4>6. CASE A # <<>>
          <5>1. q # <<>>
            BY <4>2, <4>6
          <5>2. s # <<>>
            BY <5>1, SqueezedNone
          <5>3. s[Len(s)] = Blank
            BY <1>1, <3>1, <5>2
          <5>4. Squeezed(t) = q \o <<Blank, x>>
            BY <1>5, <1>9, <5>1, <5>3
          <5>5. <<Blank, x>> = <<Blank>> \o z
            BY <4>3
          <5> HIDE DEF z, q
          <5> QED BY <4>4, <4>6, <5>4, <5>5
        <4> QED BY <4>5, <4>6
      <3>2. CASE u # <<>>
        <4>1. IsJoin(q, Append(A, u))
          BY <1>1, <1>7, <3>2
        <4>2. PICK r : IsJoin(r, A) /\ q = IF A = <<>> THEN u ELSE r \o (<<Blank>> \o u)
          <5>1. \E r : IsJoin(r, A) /\ q = IF A = <<>> THEN u ELSE r \o (<<Blank>> \o u)
            <6> HIDE DEF q
            <6> QED BY <1>3, <1>6, <4>1, JoinBack
          <5> QED BY <5>1
        <4>3. r \in Seq(Int)
          BY <1>0, <1>6, <4>2, JoinFacts
        <4>4. IsJoin(IF A = <<>> THEN z ELSE r \o (<<Blank>> \o z), Append(A, z))
          <5> HIDE DEF z, q
          <5> QED BY <1>6, <2>1, <4>2, JoinMore
        <4>5. s # <<>> /\ s[Len(s)] # Blank
          BY <1>1, <3>2
        <4>6. Squeezed(t) = Append(q, x)
          BY <1>5, <1>9, <4>5
        <4>7. Append(r \o (<<Blank>> \o u), x) = r \o (<<Blank>> \o z)
          <5>1. <<Blank>> \in Seq(Int) /\ u \in Seq(Int) /\ r \in Seq(Int)
            BY <1>0, <1>3, <4>3 DEF Blank
          <5>2. PICK b, I, c : b = <<Blank>> /\ I = Int /\ c = x
            OBVIOUS
          <5>3. b \in Seq(I) /\ u \in Seq(I) /\ r \in Seq(I) /\ c \in I
            BY <5>1, <5>2
          <5>4. Behind(r, b, u, c)
            BY <5>3, AppendBehind
          <5> QED BY <5>2, <5>4 DEF Behind
        <4>8. Squeezed(t) = IF A = <<>> THEN z ELSE r \o (<<Blank>> \o z)
          <5> HIDE DEF q
          <5> QED BY <4>2, <4>6, <4>7
        <4> QED BY <4>4, <4>8
      <3> QED BY <3>1, <3>2
    <2>5. Split(t)
      <3> HIDE DEF z
      <3> QED BY <1>2, <1>9, <2>1, <2>2, <2>3, <2>4 DEF Split
    <2> QED BY <2>5 DEF t
  <1> QED BY <1>8, <1>9

LEMMA Splits == \A s \in Seq(Int) : Split(s)
  <1> DEFINE T == {s \in Seq(Int) : Split(s)}
  <1>1. <<>> \in T
    BY SplitOfNone
  <1>2. \A s \in Seq(Int) : \A x \in Int : s \in T => Append(s, x) \in T
    BY SplitGrows
  <1>3. Seq(Int) \subseteq T
    <2> HIDE DEF T
    <2> QED BY <1>1, <1>2, SequenceInduction
  <1> QED BY <1>3

(* What is squeezed is the words of the line with blanks between them. *)
LEMMA WordsFacts ==
  ASSUME NEW s \in Seq(Int)
  PROVE  /\ WordsOf(s) \in Seq(Words) /\ \A j \in 1 .. Len(WordsOf(s)) : WordsOf(s)[j] # <<>>
         /\ IsJoin(Squeezed(s), WordsOf(s))
  <1>1. PICK p : p = Pieces(s, Blank)
    OBVIOUS
  <1>2. p \in Seq(Words) /\ IsJoin(Squeezed(s), Select(p, NotEmpty))
    <2>1. Split(s)
      BY Splits
    <2>2. PICK w \in Seq(Words), u \in Words :
            p = Append(w, u) /\ IsJoin(Squeezed(s), Select(Append(w, u), NotEmpty))
      <3> HIDE DEF Words
      <3> QED BY <1>1, <2>1 DEF Split
    <2>3. Append(w, u) \in Seq(Words)
      <3> HIDE DEF Words
      <3> QED OBVIOUS
    <2> QED BY <2>2, <2>3
  <1>3. PICK A : A = Select(p, NotEmpty)
    OBVIOUS
  <1>4. A \in Seq(Words)
    BY <1>2, <1>3, SelectFacts
  <1>5. PICK e : Places(e, p, NotEmpty) /\ A = [m \in 1 .. Len(e) |-> p[e[m]]]
    <2>1. \E e : Places(e, p, NotEmpty) /\ Select(p, NotEmpty) = [m \in 1 .. Len(e) |-> p[e[m]]]
      BY <1>2, SelectPlaces
    <2> QED BY <1>3, <2>1
  <1>6. /\ e \in Seq(1 .. Len(p))
        /\ {e[m] : m \in 1 .. Len(e)} = {j \in 1 .. Len(p) : p[j] \in NotEmpty}
    BY <1>5 DEF Places
  <1>7. \A m \in 1 .. Len(e) : p[e[m]] \in NotEmpty
    BY <1>6
  <1>8. Len(A) = Len(e)
    <2>1. Len(e) \in Nat
      BY <1>6
    <2> QED BY <1>5, <2>1
  <1>9. \A m \in 1 .. Len(A) : A[m] # <<>>
    BY <1>5, <1>7, <1>8 DEF NotEmpty
  <1> QED BY <1>1, <1>2, <1>3, <1>4, <1>9 DEF WordsOf

\* What is squeezed is no longer than the line.
Shorter(s) ==
  /\ Squeezed(s) \in Seq(Int) /\ Len(Squeezed(s)) <= Len(s)
  /\ s # <<>> /\ s[Len(s)] = Blank => Len(Squeezed(s)) + 1 <= Len(s)

(* A blank at the end makes up for the one that the next word may bring. *)
LEMMA SqueezedIsShorter ==
  ASSUME NEW s \in Seq(Int)
  PROVE  Shorter(s)
  <1> DEFINE T == {r \in Seq(Int) : Shorter(r)}
  <1>1. <<>> \in T
    <2> DEFINE e == <<>>
    <2>1. e \in Seq(Int) /\ Squeezed(e) = e /\ ~(e # <<>>)
      BY SqueezedNone
    <2>2. Len(e) = 0 /\ 0 <= 0
      OBVIOUS
    <2> HIDE DEF e
    <2>3. Len(e) <= Len(e)
      BY ONLY <2>2
    <2>4. Squeezed(e) \in Seq(Int) /\ Len(Squeezed(e)) <= Len(e)
      BY <2>1, <2>3
    <2>5. Shorter(e)
      BY <2>1, <2>4 DEF Shorter
    <2>6. e \in T
      BY <2>1, <2>5
    <2> QED BY <2>6 DEF e
  <1>2. ASSUME NEW r \in Seq(Int), NEW x \in Int, r \in T PROVE Append(r, x) \in T
    <2>1. PICK t, q : t = Append(r, x) /\ q = Squeezed(r)
      OBVIOUS
    <2>2. /\ t \in Seq(Int) /\ Len(t) = Len(r) + 1 /\ t[Len(t)] = x /\ Len(r) \in Nat
          /\ r = <<>> <=> Len(r) = 0
      BY <2>1
    <2>3. /\ q \in Seq(Int) /\ Len(q) <= Len(r) /\ Len(q) \in Nat
          /\ r # <<>> /\ r[Len(r)] = Blank => Len(q) + 1 <= Len(r)
          /\ q = <<>> <=> Len(q) = 0
      BY <1>2, <2>1 DEF Shorter
    <2>4. Squeezed(t) = IF x = Blank THEN q
                        ELSE IF q # <<>> /\ r[Len(r)] = Blank THEN q \o <<Blank, x>>
                        ELSE Append(q, x)
      BY <2>1, SqueezedAppend
    <2>5. CASE x = Blank
      BY <2>1, <2>2, <2>3, <2>4, <2>5 DEF Shorter
    <2>6. CASE x # Blank /\ q # <<>> /\ r[Len(r)] = Blank
      <3>1. <<Blank, x>> \in Seq(Int) /\ Len(<<Blank, x>>) = 2
        BY DEF Blank
      <3>2. PICK y : y = <<Blank, x>>
        OBVIOUS
      <3>3. q \o y \in Seq(Int) /\ Len(q \o y) = Len(q) + 2
        BY <2>3, <3>1, <3>2
      <3>4. Len(q) + 2 <= Len(t)
        BY <2>2, <2>3, <2>6
      <3> QED BY <2>1, <2>2, <2>4, <2>6, <3>2, <3>3, <3>4 DEF Shorter
    <2>7. CASE x # Blank /\ ~(q # <<>> /\ r[Len(r)] = Blank)
      <3>1. Append(q, x) \in Seq(Int) /\ Len(Append(q, x)) = Len(q) + 1
        BY <2>3
      <3>2. Squeezed(t) = Append(q, x)
        BY <2>4, <2>7
      <3>3. Len(q) + 1 <= Len(t)
        BY ONLY <2>2, <2>3
      <3> QED BY <2>1, <2>2, <2>7, <3>1, <3>2, <3>3 DEF Shorter
    <2> QED BY <2>5, <2>6, <2>7
  <1>3. Seq(Int) \subseteq T
    <2> HIDE DEF T
    <2> QED BY <1>1, <1>2, SequenceInduction
  <1> QED BY <1>3

----------------------------------------------------------------------------
(* The first word, and the blanks before the others. *)

BlanksIn(s) == {j \in DOMAIN s : s[j] = Blank}

(* What is before the first blank. *)
LEMMA BlanksFacts ==
  ASSUME NEW s \in Seq(Int)
  PROVE  /\ BlanksIn(s) \in SUBSET Nat /\ BlanksIn(s) = {j \in 1 .. Len(s) : s[j] = Blank}
         /\ BlanksIn(s) = {} => UpTo(s, {Blank}) = s
         /\ BlanksIn(s) # {} => /\ UpTo(s, {Blank}) = SubSeq(s, 1, Min(BlanksIn(s)) - 1)
                                /\ Min(BlanksIn(s)) \in 1 .. Len(s)
                                /\ \A j \in BlanksIn(s) : Min(BlanksIn(s)) <= j
  <1>1. {j \in DOMAIN s : s[j] \in {Blank}} = BlanksIn(s)
    BY DEF BlanksIn
  <1>2. BlanksIn(s) \in SUBSET Nat /\ BlanksIn(s) = {j \in 1 .. Len(s) : s[j] = Blank}
    BY DEF BlanksIn
  <1>3. BlanksIn(s) # {} => Min(BlanksIn(s)) \in BlanksIn(s) /\ \A j \in BlanksIn(s) : Min(BlanksIn(s)) <= j
    BY <1>2, LeastOf
  <1>4. UpTo(s, {Blank}) = IF BlanksIn(s) = {} THEN s ELSE SubSeq(s, 1, Min(BlanksIn(s)) - 1)
    BY <1>1 DEF UpTo
  <1> QED BY <1>2, <1>3, <1>4

\* A word has no blank, and a blank before a word is one more.
LEMMA WordIsWhole ==
  ASSUME NEW u \in Words
  PROVE  u \in Seq(Int) /\ BlanksIn(u) = {} /\ UpTo(u, {Blank}) = u
  <1>1. u \in Seq(Int)
    BY WordsAreStrings
  <1>2. BlanksIn(u) = {}
    <2> DEFINE E == Int \ {Blank}
    <2>1. u \in Seq(E) /\ Blank \notin E
      BY DEF Words
    <2> HIDE DEF E
    <2>2. \A j \in DOMAIN u : u[j] \in E
      BY <2>1
    <2> QED BY <2>1, <2>2 DEF BlanksIn
  <1> QED BY <1>1, <1>2, BlanksFacts

(* One more word adds one blank, and leaves what is before the first blank, *)
(* if a word is there already.                                              *)
LEMMA WordBehind ==
  ASSUME NEW q \in Seq(Int), NEW u \in Words, NEW p, p = q \o (<<Blank>> \o u)
  PROVE  /\ p \in Seq(Int) /\ UpTo(p, {Blank}) = UpTo(q, {Blank})
         /\ BlanksIn(p) = BlanksIn(q) \cup {Len(q) + 1} /\ Len(q) + 1 \notin BlanksIn(q)
  <1>1. u \in Seq(Int) /\ \A j \in 1 .. Len(u) : u[j] # Blank
    <2>1. u \in Seq(Int) /\ BlanksIn(u) = {}
      BY WordIsWhole
    <2> QED BY <2>1, BlanksFacts
  <1>2. PICK m, y : m = Len(q) /\ y = <<Blank>> \o u
    OBVIOUS
  <1>3. /\ y \in Seq(Int) /\ Len(y) = Len(u) + 1 /\ y[1] = Blank
        /\ \A j \in 1 .. Len(u) : y[j + 1] = u[j]
    BY <1>1, <1>2 DEF Blank
  <1>4. m \in Nat /\ Len(u) \in Nat
    BY <1>1, <1>2
  <1>5. /\ p \in Seq(Int) /\ Len(p) = m + Len(y)
        /\ \A j \in 1 .. m : p[j] = q[j]
        /\ \A j \in 1 .. Len(y) : p[m + j] = y[j]
    <2>1. p = q \o y
      BY <1>2
    <2> QED BY <1>2, <1>3, <2>1, TwoPieces
  <1>6. \A j \in 1 .. Len(p) : p[j] = Blank <=> (j = m + 1 \/ (j \in 1 .. m /\ q[j] = Blank))
    <2> SUFFICES ASSUME NEW j \in 1 .. Len(p)
                 PROVE  p[j] = Blank <=> (j = m + 1 \/ (j \in 1 .. m /\ q[j] = Blank))
      OBVIOUS
    <2>1. CASE j \in 1 .. m
      <3>1. p[j] = q[j] /\ j # m + 1
        BY <1>4, <1>5, <2>1
      <3> QED BY <2>1, <3>1
    <2>2. CASE j = m + 1
      <3>1. 1 \in 1 .. Len(y)
        BY <1>3, <1>4
      <3> QED BY <1>3, <1>5, <2>2, <3>1
    <2>3. CASE j > m + 1
      <3>1. PICK k : k = j - m - 1
        OBVIOUS
      <3>a. j \in Int /\ 1 <= j /\ j <= m + Len(u) + 1
        <4>1. Len(p) = m + Len(y) /\ Len(y) = Len(u) + 1
          BY <1>3, <1>5
        <4>2. j \in 1 .. Len(p)
          OBVIOUS
        <4> QED BY ONLY <4>1, <4>2, <1>4
      <3>2. k \in 1 .. Len(u) /\ k + 1 \in 1 .. Len(u) + 1 /\ m + (k + 1) = j /\ ~(j <= m) /\ j # m + 1
        BY ONLY <1>4, <2>3, <3>1, <3>a
      <3>3. p[j] = u[k]
        <4>1. y[k + 1] = u[k]
          BY <1>3, <3>2
        <4>2. p[m + (k + 1)] = y[k + 1]
          BY <1>3, <1>5, <3>2
        <4> QED BY <3>2, <4>1, <4>2
      <3>4. j \notin 1 .. m
        BY <1>4, <3>2
      <3>5. u[k] # Blank
        BY <1>1, <3>2
      <3> QED BY <3>2, <3>3, <3>4, <3>5
    <2>4. j \in 1 .. m \/ j = m + 1 \/ j > m + 1
      <3>1. j \in Int /\ 1 <= j
        <4>1. Len(p) \in Nat /\ j \in 1 .. Len(p)
          BY <1>5
        <4> QED BY ONLY <4>1
      <3> QED BY ONLY <1>4, <3>1
    <2> QED BY <2>1, <2>2, <2>3, <2>4
  <1>7. /\ BlanksIn(p) = {j \in 1 .. Len(p) : p[j] = Blank}
        /\ BlanksIn(q) = {j \in 1 .. m : q[j] = Blank}
    BY <1>2, <1>5, BlanksFacts
  <1>8. m + 1 \in 1 .. Len(p) /\ \A j \in 1 .. m : j \in 1 .. Len(p) /\ j # m + 1
    BY <1>3, <1>4, <1>5
  <1>9. BlanksIn(p) = BlanksIn(q) \cup {m + 1} /\ m + 1 \notin BlanksIn(q)
    BY <1>6, <1>7, <1>8
  <1>10. UpTo(p, {Blank}) = UpTo(q, {Blank})
    <2>1. BlanksIn(p) # {}
      BY <1>9
    <2>2. PICK k : k = Min(BlanksIn(p))
      OBVIOUS
    <2>3. /\ UpTo(p, {Blank}) = SubSeq(p, 1, k - 1) /\ k \in 1 .. Len(p) /\ k \in BlanksIn(p)
          /\ \A j \in BlanksIn(p) : k <= j
      <3>1. BlanksIn(p) \in SUBSET Nat
        BY <1>5, BlanksFacts
      <3> QED BY <1>5, <2>1, <2>2, <3>1, BlanksFacts, LeastOf
    <2>4. k - 1 \in 0 .. m
      BY <1>4, <1>9, <2>3
    <2>5. SubSeq(p, 1, k - 1) = SubSeq(q, 1, k - 1)
      <3>1. PICK l : l = k - 1
        OBVIOUS
      <3>2. l \in Nat /\ l <= m /\ l <= Len(p)
        BY <1>3, <1>4, <1>5, <2>4, <3>1
      <3>3. /\ SubSeq(p, 1, l) = [j \in 1 .. l |-> p[j]]
            /\ SubSeq(q, 1, l) = [j \in 1 .. l |-> q[j]]
        BY <1>2, <1>5, <3>2
      <3>4. \A j \in 1 .. l : p[j] = q[j]
        BY <1>4, <1>5, <3>2
      <3> QED BY <3>1, <3>3, <3>4
    <2>6. CASE BlanksIn(q) = {}
      <3>1. k = m + 1 /\ UpTo(q, {Blank}) = q
        BY <1>9, <2>3, <2>6, BlanksFacts
      <3>2. k - 1 = m
        BY <1>4, <3>1
      <3>3. SubSeq(q, 1, m) = q
        BY <1>2
      <3> QED BY <2>3, <2>5, <3>1, <3>2, <3>3
    <2>7. CASE BlanksIn(q) # {}
      <3>1. PICK l : l = Min(BlanksIn(q))
        OBVIOUS
      <3>2. /\ UpTo(q, {Blank}) = SubSeq(q, 1, l - 1) /\ l \in 1 .. m /\ l \in BlanksIn(q)
            /\ \A j \in BlanksIn(q) : l <= j
        <4>1. BlanksIn(q) \in SUBSET Nat
          BY BlanksFacts
        <4> QED BY <1>2, <2>7, <3>1, <4>1, BlanksFacts, LeastOf
      <3>3. k <= l /\ k \in Nat /\ l \in Nat
        BY <1>9, <2>3, <3>2
      <3>4. k \in BlanksIn(q)
        BY <1>4, <1>9, <2>3, <3>2, <3>3
      <3>5. k = l
        BY <3>2, <3>3, <3>4
      <3> QED BY <2>3, <2>5, <3>2, <3>5
    <2> QED BY <2>6, <2>7
  <1> QED BY <1>2, <1>5, <1>9, <1>10

\* The parts of t behind one another.
Flattens(F, t) ==
  /\ F[0] = <<>>
  /\ \A n \in 1 .. Len(t) : F[n] = IF n = 1 THEN t[1] ELSE F[n - 1] \o t[n]

(* The recursion of FlattenSeq. *)
LEMMA FlattenScan ==
  ASSUME NEW V, NEW t \in Seq(Seq(V))
  PROVE  \E F : Flattens(F, t) /\ FlattenSeq(t) = F[Len(t)]
  <1> DEFINE N == Len(t)
             U == Seq(V)
             On(n, q) == IF n + 1 \in 1 .. N THEN q \o t[n + 1] ELSE q
             start == IF N = 0 THEN <<>> ELSE t[1]
             step == [n \in Nat |-> [q \in U |-> On(n, q)]]
             IsF(f) == f = [n \in 1 .. N |-> IF n = 1 THEN t[n] ELSE f[n - 1] \o t[n]]
             f == CHOOSE g : IsF(g)
             F == [n \in 0 .. N |-> IF n = 0 THEN <<>> ELSE f[n]]
  <1>1. start \in U /\ step \in [Nat -> [U -> U]] /\ N \in Nat
    <2>1. N \in Nat /\ \A n \in 1 .. N : t[n] \in U
      OBVIOUS
    <2>2. ASSUME NEW n \in Nat, NEW q \in U PROVE On(n, q) \in U
      <3> HIDE DEF N
      <3>1. CASE n + 1 \in 1 .. N
        <4>1. t[n + 1] \in Seq(V)
          BY <2>1, <3>1
        <4> QED BY <3>1, <4>1
      <3>2. CASE n + 1 \notin 1 .. N
        BY <3>2
      <3> QED BY <3>1, <3>2
    <2>3. start \in U
      <3>1. <<>> \in U
        OBVIOUS
      <3> HIDE DEF U, N
      <3> QED BY <2>1, <3>1
    <2> HIDE DEF On, U, N, start
    <2> QED BY <2>1, <2>2, <2>3
  <1>2. PICK g \in [Nat -> U] : Iterates(g, start, step)
    <2> HIDE DEF U, step, start
    <2> QED BY <1>1, RecursionExists
  <1>3. /\ g[0] = start
        /\ \A n \in Nat : n # 0 => g[n] = step[n][g[n - 1]]
    <2> HIDE DEF U, step, start
    <2> QED BY <1>2 DEF Iterates
  <1>4. \A n \in Nat : n # 0 => g[n] = On(n, g[n - 1])
    <2>1. \A n \in Nat : n # 0 => step[n][g[n - 1]] = On(n, g[n - 1])
      <3> HIDE DEF U, On
      <3> QED OBVIOUS
    <2> HIDE DEF step, On
    <2> QED BY <1>3, <2>1
  <1> DEFINE h == [n \in 1 .. N |-> g[n - 1]]
  <1>5. IsF(h)
    <2>1. ASSUME NEW n \in 1 .. N PROVE h[n] = IF n = 1 THEN t[n] ELSE h[n - 1] \o t[n]
      <3>0. n - 1 \in Nat /\ (n - 1) + 1 = n /\ n \in Int /\ 1 <= n /\ n <= N
        <4> HIDE DEF N
        <4>1. N \in Nat
          BY <1>1
        <4> QED BY ONLY <4>1, n \in 1 .. N
      <3>1. CASE n = 1
        <4>1. N # 0 /\ h[n] = g[0]
          BY <1>1, <3>1
        <4> HIDE DEF h
        <4> QED BY <1>3, <3>1, <4>1
      <3>2. CASE n # 1
        <4>1. n - 1 \in 1 .. N /\ (n - 1) - 1 = n - 2 /\ n - 1 # 0
          <5> HIDE DEF N
          <5> QED BY ONLY <1>1, <3>0, <3>2
        <4>2. h[n] = g[n - 1] /\ h[n - 1] = g[n - 2]
          BY <4>1
        <4>3. g[n - 1] = On(n - 1, g[n - 2])
          <5> HIDE DEF On
          <5> QED BY <1>4, <3>0, <4>1
        <4>4. On(n - 1, g[n - 2]) = g[n - 2] \o t[n]
          BY <3>0
        <4> HIDE DEF h, On
        <4> QED BY <3>2, <4>2, <4>3, <4>4
      <3> QED BY <3>1, <3>2
    <2> DEFINE e == [n \in 1 .. N |-> IF n = 1 THEN t[n] ELSE h[n - 1] \o t[n]]
    <2>2. \A n \in 1 .. N : h[n] = e[n]
      <3> HIDE DEF h, N
      <3> QED BY <2>1
    <2>3. h = e
      <3>1. h = [n \in 1 .. N |-> h[n]] /\ e = [n \in 1 .. N |-> e[n]]
        OBVIOUS
      <3> HIDE DEF h, e, N
      <3> QED BY <2>2, <3>1
    <2> QED BY <2>3
  <1>6. IsF(f)
    <2> HIDE DEF IsF, h
    <2> QED BY <1>5 DEF f
  <1>7. N # 0 => FlattenSeq(t) = f[N]
    BY DEF FlattenSeq
  <1>8. N = 0 => FlattenSeq(t) = <<>>
    BY DEF FlattenSeq
  <1> HIDE DEF f
  <1>9. \A n \in 1 .. N : f[n] = IF n = 1 THEN t[n] ELSE f[n - 1] \o t[n]
    BY <1>6
  <1> HIDE DEF IsF
  <1>10. F[0] = <<>> /\ \A n \in 1 .. N : F[n] = f[n]
    BY <1>1
  <1>11. \A n \in 1 .. N : n = 1 \/ n - 1 \in 1 .. N
    BY <1>1
  <1>12. Flattens(F, t)
    <2> HIDE DEF F
    <2>1. ASSUME NEW n \in 1 .. N PROVE F[n] = IF n = 1 THEN t[1] ELSE F[n - 1] \o t[n]
      BY <1>9, <1>10, <1>11
    <2> QED BY <1>10, <2>1 DEF Flattens
  <1>13. FlattenSeq(t) = F[N]
    <2>1. N = 0 \/ N \in 1 .. N
      BY <1>1
    <2> HIDE DEF F, N
    <2> QED BY <1>1, <1>7, <1>8, <1>10, <2>1
  <1> HIDE DEF F
  <1> QED BY <1>12, <1>13

(* Words with blanks between them: the first word is before the first blank, *)
(* there are as many blanks as other words, and these are behind it.         *)
LEMMA JoinSpells ==
  ASSUME NEW W \in Seq(Words), NEW q, IsJoin(q, W), W # <<>>
  PROVE  /\ q \in Seq(Int) /\ UpTo(q, {Blank}) = W[1]
         /\ Cardinality(BlanksIn(q)) = Len(W) - 1
         /\ LET rest == FlattenSeq([j \in DOMAIN Tail(W) |-> <<Blank>> \o Tail(W)[j]])
            IN  rest \in Seq(Int) /\ q = W[1] \o rest
  <1> DEFINE args == Tail(W)
             t == [j \in DOMAIN args |-> <<Blank>> \o args[j]]
             N == Len(W)
  <1>1. /\ N \in Nat /\ N > 0 /\ \A j \in 1 .. N : W[j] \in Words
        /\ Len(args) = N - 1 /\ DOMAIN args = 1 .. N - 1
        /\ \A j \in 1 .. N - 1 : args[j] = W[j + 1]
    <2> HIDE DEF Words
    <2> QED OBVIOUS
  <1>2. \A j \in 1 .. N - 1 : <<Blank>> \o W[j + 1] \in Seq(Int)
    <2> SUFFICES ASSUME NEW j \in 1 .. N - 1 PROVE <<Blank>> \o W[j + 1] \in Seq(Int)
      OBVIOUS
    <2>1. j + 1 \in 1 .. N
      BY ONLY <1>1, j \in 1 .. N - 1
    <2>2. PICK u : u = W[j + 1]
      OBVIOUS
    <2>3. u \in Seq(Int)
      BY <1>1, <2>1, <2>2, WordsAreStrings
    <2> QED BY <2>2, <2>3 DEF Blank
  <1>3. t \in Seq(Seq(Int)) /\ Len(t) = N - 1 /\ \A j \in 1 .. N - 1 : t[j] = <<Blank>> \o W[j + 1]
    <2>1. \A j \in 1 .. N - 1 : <<Blank>> \o args[j] = <<Blank>> \o W[j + 1]
      BY <1>1
    <2> HIDE DEF args
    <2>2. t = [j \in 1 .. N - 1 |-> <<Blank>> \o args[j]]
      BY <1>1
    <2>3. t = [j \in 1 .. N - 1 |-> <<Blank>> \o W[j + 1]]
      BY <2>1, <2>2
    <2> DEFINE z(j) == <<Blank>> \o W[j + 1]
    <2>4. t = [j \in 1 .. N - 1 |-> z(j)] /\ \A j \in 1 .. N - 1 : z(j) \in Seq(Int)
      BY <1>2, <2>3
    <2>5. N - 1 \in Nat
      BY <1>1
    <2>6. t \in Seq(Seq(Int)) /\ Len(t) = N - 1 /\ \A j \in 1 .. N - 1 : t[j] = z(j)
      <3> HIDE DEF z, t, N
      <3> QED BY <2>4, <2>5
    <2> HIDE DEF t
    <2> QED BY <2>6
  <1> HIDE DEF t
  <1>4. PICK F : Flattens(F, t) /\ FlattenSeq(t) = F[Len(t)]
    <2>1. \E F : Flattens(F, t) /\ FlattenSeq(t) = F[Len(t)]
      BY <1>3, FlattenScan
    <2> QED BY <2>1
  <1>5. PICK J : Joins(J, W) /\ q = J[N]
    BY DEF IsJoin
  <1> DEFINE Good(n) ==
               /\ J[n] \in Seq(Int) /\ F[n - 1] \in Seq(Int) /\ J[n] = W[1] \o F[n - 1]
               /\ UpTo(J[n], {Blank}) = W[1]
               /\ IsFiniteSet(BlanksIn(J[n])) /\ Cardinality(BlanksIn(J[n])) = n - 1
             T == {n \in Nat : n + 1 <= N => Good(n + 1)}
  <1>6. 0 \in T
    <2>1. W[1] \in Words
      BY <1>1
    <2>2. J[1] = W[1]
      <3>1. 1 \in 1 .. Len(W)
        BY <1>1
      <3> QED BY <1>5, <3>1 DEF Joins
    <2>3. F[0] = <<>>
      BY <1>4 DEF Flattens
    <2>4. BlanksIn(J[1]) = {} /\ UpTo(J[1], {Blank}) = W[1] /\ J[1] \in Seq(Int)
      BY <2>1, <2>2, WordIsWhole
    <2>5. IsFiniteSet({}) /\ Cardinality({}) = 0
      BY FS_EmptySet
    <2>6. J[1] = W[1] \o F[0] /\ F[0] \in Seq(Int)
      <3>1. PICK u : u = W[1]
        OBVIOUS
      <3>2. u \in Seq(Int)
        BY <2>2, <2>4, <3>1
      <3>3. u \o <<>> = u /\ <<>> \in Seq(Int)
        BY <3>2
      <3> QED BY <2>2, <2>3, <3>1, <3>3
    <2>7. 1 - 1 = 0 /\ 0 + 1 = 1
      OBVIOUS
    <2>8. Good(1)
      BY <2>4, <2>5, <2>6, <2>7
    <2> HIDE DEF Good
    <2> QED BY <2>8
  <1>7. ASSUME NEW n \in Nat, n \in T PROVE n + 1 \in T
    <2> SUFFICES ASSUME (n + 1) + 1 <= N PROVE Good((n + 1) + 1)
      <3> HIDE DEF Good
      <3> QED OBVIOUS
    <2>1. PICK m : m = n + 1
      OBVIOUS
    <2>2. m \in Nat /\ m > 0 /\ m + 1 <= N /\ m <= N /\ (m + 1) - 1 = m /\ m + 1 # 1 /\ m + 1 \in 1 .. N
          /\ m \in 1 .. N - 1
      BY ONLY <1>1, <2>1, n \in Nat, (n + 1) + 1 <= N
    <2>3. Good(m)
      <3> HIDE DEF Good
      <3> QED BY <1>7, <2>1, <2>2
    <2>4. PICK p, u, r, f : p = J[m] /\ u = W[m + 1] /\ r = J[m + 1] /\ f = F[m - 1]
      OBVIOUS
    <2>5. u \in Words /\ p \in Seq(Int) /\ f \in Seq(Int) /\ p = W[1] \o f
      BY <1>1, <2>2, <2>3, <2>4
    <2>6. r = p \o (<<Blank>> \o u)
      BY <1>5, <2>2, <2>4 DEF Joins
    <2>7. /\ r \in Seq(Int) /\ UpTo(r, {Blank}) = UpTo(p, {Blank})
          /\ BlanksIn(r) = BlanksIn(p) \cup {Len(p) + 1} /\ Len(p) + 1 \notin BlanksIn(p)
      BY <2>5, <2>6, WordBehind
    <2>8. IsFiniteSet(BlanksIn(r)) /\ Cardinality(BlanksIn(r)) = Cardinality(BlanksIn(p)) + 1
      <3>1. PICK B, x : B = BlanksIn(p) /\ x = Len(p) + 1
        OBVIOUS
      <3>2. IsFiniteSet(B) /\ x \notin B /\ BlanksIn(r) = B \cup {x}
        BY <2>3, <2>4, <2>7, <3>1
      <3> QED BY <3>1, <3>2, FS_AddElement
    <2>9. F[m] \in Seq(Int) /\ r = W[1] \o F[m]
      <3>1. PICK a, c : a = W[1] /\ c = <<Blank>> \o u
        OBVIOUS
      <3>2. a \in Seq(Int) /\ c \in Seq(Int)
        <4>1. 1 \in 1 .. N
          BY <1>1
        <4>2. a \in Words
          BY <1>1, <3>1, <4>1
        <4> QED BY <1>2, <2>2, <2>4, <3>1, <4>2, WordsAreStrings
      <3>3. t[m] = c
        BY <1>3, <2>2, <2>4, <3>1
      <3>4. F[m] = f \o c
        <4>1. m \in 1 .. Len(t) /\ F[m] = IF m = 1 THEN t[1] ELSE F[m - 1] \o t[m]
          BY <1>3, <1>4, <2>2 DEF Flattens
        <4>2. CASE m = 1
          <5>1. f = <<>>
            BY <1>4, <2>4, <4>2 DEF Flattens
          <5>2. <<>> \o c = c
            BY <3>2
          <5> QED BY <3>3, <4>1, <4>2, <5>1, <5>2
        <4>3. CASE m # 1
          BY <2>4, <3>3, <4>1, <4>3
        <4> QED BY <4>2, <4>3
      <3>5. Third(a, f, c)
        BY <2>5, <3>2, ThreeParts
      <3>6. r = (a \o f) \o c
        BY <2>5, <2>6, <3>1
      <3>7. f \o c \in Seq(Int)
        BY <2>5, <3>2
      <3> QED BY <3>1, <3>4, <3>5, <3>6, <3>7 DEF Third
    <2>10. Good(m + 1)
      <3>1. UpTo(r, {Blank}) = W[1] /\ Cardinality(BlanksIn(p)) = m - 1
        BY <2>3, <2>4, <2>7
      <3>2. Cardinality(BlanksIn(r)) = m
        BY <2>2, <2>8, <3>1
      <3> QED BY <2>2, <2>4, <2>7, <2>8, <2>9, <3>1, <3>2
    <2> HIDE DEF Good
    <2> QED BY <2>1, <2>10
  <1>8. Nat \subseteq T
    <2> HIDE DEF T
    <2> QED BY <1>6, <1>7, Induction
  <1>9. Good(N)
    <2>1. N - 1 \in Nat /\ (N - 1) + 1 = N /\ N <= N
      BY <1>1
    <2>2. N - 1 \in T
      BY <1>8, <2>1
    <2> HIDE DEF Good
    <2> QED BY <2>1, <2>2
  <1>10. q \in Seq(Int) /\ UpTo(q, {Blank}) = W[1] /\ Cardinality(BlanksIn(q)) = N - 1
    BY <1>5, <1>9
  <1>11. FlattenSeq(t) \in Seq(Int) /\ q = W[1] \o FlattenSeq(t)
    BY <1>3, <1>4, <1>5, <1>9
  <1> QED BY <1>10, <1>11 DEF t

----------------------------------------------------------------------------
(* While there is memory, the parts of a command are the words of its line. *)

\* b is a bstring of the characters s.
Holds(b, s) == b.data = s /\ b # NullBstr

(* A bstring with some memory is no null pointer. *)
LEMMA MadeHolds ==
  ASSUME NEW s, NEW m \in Nat, m # 0
  PROVE  Holds([data |-> s, mlen |-> m], s)
  <1>1. PICK b : b = [data |-> s, mlen |-> m]
    OBVIOUS
  <1>2. b.data = s /\ b.mlen = m /\ NullBstr.mlen = 0
    BY <1>1 DEF NullBstr
  <1> QED BY <1>1, <1>2 DEF Holds

(* While there is memory, a bstring has the characters it is made of. *)
LEMMA bfromcstrGives ==
  ASSUME NEW s \in Seq(Int), Len(s) < IntMax, NEW oom, ~oom, NEW b \in bfromcstr(s, oom)
  PROVE  Holds(b, s)
  <1>1. PICK n : n = Len(s) + (IF s = <<>> THEN 2 ELSE 1)
    OBVIOUS
  <1>2. n \in Nat /\ n <= IntMax /\ n > Len(s) /\ Len(s) \in Nat /\ IntMax \in Nat
    BY <1>1, IntMaxAssumption
  <1>3. PICK size : size = snapUpSize(n)
    OBVIOUS
  <1>4. size \in Nat /\ size <= IntMax /\ size >= n
    BY <1>2, <1>3, SnapFacts
  <1>5. ~(size <= Len(s) \/ size > IntMax) /\ size # 0
    BY ONLY <1>2, <1>4
  <1>6. b = [data |-> s, mlen |-> size]
    BY <1>1, <1>3, <1>5 DEF bfromcstr
  <1> QED BY <1>4, <1>5, <1>6, MadeHolds

LEMMA bmidstrGives ==
  ASSUME NEW s \in Seq(Int), NEW oom, ~oom, NEW b \in bmidstr(s, oom)
  PROVE  Holds(b, s)
  <1>1. CASE s = <<>>
    <2>1. Len(s) < IntMax
      BY <1>1, IntMaxAssumption
    <2>2. b \in bfromcstr(s, oom)
      BY <1>1 DEF bmidstr
    <2> QED BY <2>1, <2>2, bfromcstrGives
  <1>2. CASE s # <<>>
    <2>1. PICK size : size = snapUpSize(Len(s) + 1)
      OBVIOUS
    <2>2. size \in Nat /\ size >= Len(s) + 1 /\ Len(s) \in Nat
      BY <2>1, SnapIsEnough
    <2>3. size # 0
      BY ONLY <2>2
    <2>4. b = [data |-> s, mlen |-> size]
      BY <1>2, <2>1, <2>3 DEF bmidstr, blk2bstr
    <2> QED BY <2>2, <2>3, <2>4, MadeHolds
  <1> QED BY <1>1, <1>2

LEMMA bstrcpyGives ==
  ASSUME NEW s \in Seq(Int), NEW b, Holds(b, s), NEW oom, ~oom, NEW r \in bstrcpy(b, oom)
  PROVE  Holds(r, s)
  <1>1. PICK size : size = snapUpSize(Len(s) + 1)
    OBVIOUS
  <1>2. size \in Nat /\ size >= Len(s) + 1 /\ Len(s) \in Nat
    BY <1>1, SnapIsEnough
  <1>3. size # 0
    BY ONLY <1>2
  <1>4. b.data = s /\ b # NullBstr
    BY DEF Holds
  <1>5. r = [data |-> s, mlen |-> size]
    BY <1>1, <1>3, <1>4 DEF bstrcpy, Sizes, blength
  <1> QED BY <1>2, <1>3, <1>5, MadeHolds

(* While there is memory, there is a list. *)
LEMMA ListAllocGives ==
  ASSUME NEW n \in Nat, n > 0, NEW oom, ~oom, NEW r \in bstrListAlloc(bstrListCreate, n, oom)
  PROVE  r # NullList
  <1>1. PICK size : size = snapUpSize(n)
    OBVIOUS
  <1>2. size \in Nat /\ size # 0
    BY <1>1, SnapIsEnough
  <1>3. r.mlen = 1 \/ r.mlen = size
    BY <1>1, <1>2 DEF bstrListAlloc, bstrListCreate, Sizes
  <1>4. NullList.mlen = 0
    BY DEF NullList
  <1> QED BY <1>2, <1>3, <1>4

(* While there is memory, bsplit gives a list with a bstring of each piece. *)
LEMMA bsplitGives ==
  ASSUME NEW s \in Seq(Int), NEW c, NEW oom, ~oom, NEW l \in bsplit(s, c, oom)
  PROVE  /\ \E V : l.entry \in Seq(V)
         /\ Len(l.entry) = Len(Pieces(s, c))
         /\ \A j \in 1 .. Len(l.entry) : Holds(l.entry[j], Pieces(s, c)[j])
  <1> DEFINE pieces == Pieces(s, c)
             S == [j \in DOMAIN pieces |-> bmidstr(pieces[j], oom)]
             V == UNION {S[j] : j \in DOMAIN pieces}
  <1>1. pieces \in Seq(Seq(Int))
    BY PiecesType
  <1>2. PICK e : e = l.entry /\ e \in OneOfEach(S)
    BY bsplitCases
  <1> HIDE DEF pieces
  <1>3. S \in Seq(SUBSET V) /\ Len(S) = Len(pieces)
    <2>1. \A j \in DOMAIN pieces : S[j] \in SUBSET V
      OBVIOUS
    <2>2. DOMAIN pieces = 1 .. Len(pieces) /\ Len(pieces) \in Nat
      BY <1>1
    <2>3. S = [j \in 1 .. Len(pieces) |-> S[j]]
      BY <2>2
    <2> HIDE DEF S, V
    <2> QED BY <2>1, <2>2, <2>3
  <1>4. \A j \in 1 .. Len(pieces) : S[j] = bmidstr(pieces[j], oom) /\ pieces[j] \in Seq(Int)
    <2>1. DOMAIN pieces = 1 .. Len(pieces) /\ \A j \in 1 .. Len(pieces) : pieces[j] \in Seq(Int)
      BY <1>1
    <2> QED BY <2>1
  <1> HIDE DEF S, V
  <1>5. /\ e \in Seq(V) /\ Len(e) = Len(S)
        /\ \A j \in 1 .. Len(S) : e[j] \in S[j]
    <2>1. OneOfEach(S) = {d \in Seq(V) : Len(d) = Len(S) /\ \A j \in 1 .. Len(S) : d[j] \in S[j]}
      BY <1>3, OneOfEachFacts
    <2> QED BY <1>2, <2>1
  <1>6. \A j \in 1 .. Len(pieces) : Holds(e[j], pieces[j])
    BY <1>3, <1>4, <1>5, bmidstrGives
  <1> QED BY <1>2, <1>3, <1>5, <1>6 DEF pieces

\* The entries of c are bstrings of the words in W.
Spelled(c, W) ==
  /\ \E V : c \in Seq(V)
  /\ Len(c) = Len(W) /\ \A j \in 1 .. Len(W) : Holds(c[j], W[j])

(* Those that have a length are the words of the line, ... *)
LEMMA WholeGives ==
  ASSUME NEW s \in Seq(Int), NEW oom, ~oom, NEW l \in bsplit(s, Blank, oom)
  PROVE  Spelled(Whole(l), WordsOf(s))
  <1>1. PICK e, p : e = l.entry /\ p = Pieces(s, Blank)
    OBVIOUS
  <1>2. PICK V : e \in Seq(V)
    BY <1>1, bsplitGives
  <1>3. p \in Seq(Seq(Int))
    BY <1>1, PiecesType
  <1>4. Len(e) = Len(p) /\ \A j \in 1 .. Len(e) : Holds(e[j], p[j])
    BY <1>1, bsplitGives
  <1>5. PICK B : B = {b \in Range(e) : blength(b) > 0}
    OBVIOUS
  <1>6. \A j \in 1 .. Len(e) : e[j] \in B <=> p[j] \in NotEmpty
    <2> SUFFICES ASSUME NEW j \in 1 .. Len(e) PROVE e[j] \in B <=> p[j] \in NotEmpty
      OBVIOUS
    <2>1. e[j] \in Range(e)
      BY <1>2 DEF Range
    <2>2. PICK u : u = p[j]
      OBVIOUS
    <2>3. u \in Seq(Int) /\ e[j].data = u
      BY <1>3, <1>4, <2>2 DEF Holds
    <2>4. Len(u) > 0 <=> u # <<>>
      BY <2>3
    <2> QED BY <1>5, <2>1, <2>2, <2>3, <2>4 DEF blength, NotEmpty
  <1>7. PICK w, W : w = Select(e, B) /\ W = Select(p, NotEmpty)
    OBVIOUS
  <1>8. PICK f : /\ Places(f, e, B) /\ w = [m \in 1 .. Len(f) |-> e[f[m]]]
                 /\ W = [m \in 1 .. Len(f) |-> p[f[m]]]
    <2>1. \E f : /\ Places(f, e, B)
                 /\ Select(e, B) = [m \in 1 .. Len(f) |-> e[f[m]]]
                 /\ Select(p, NotEmpty) = [m \in 1 .. Len(f) |-> p[f[m]]]
      <3>1. PICK X, T : X = Seq(Int) /\ T = NotEmpty
        OBVIOUS
      <3>2. p \in Seq(X) /\ Len(p) = Len(e)
        BY <1>3, <1>4, <3>1
      <3>3. \A j \in 1 .. Len(e) : e[j] \in B <=> p[j] \in T
        BY <1>6, <3>1
      <3>4. \E f : Places(f, e, B) /\ Takes(Select(e, B), e, f) /\ Takes(Select(p, T), p, f)
        BY ONLY <1>2, <3>2, <3>3, SelectBoth
      <3> QED BY <3>1, <3>4 DEF Takes
    <2> QED BY <1>7, <2>1
  <1>9. f \in Seq(1 .. Len(e))
    BY <1>8 DEF Places
  <1>10. Len(f) \in Nat /\ \A m \in 1 .. Len(f) : f[m] \in 1 .. Len(e)
    BY <1>9
  <1>11. Len(w) = Len(f) /\ Len(W) = Len(f)
    BY <1>8, <1>10
  <1>12. \A m \in 1 .. Len(f) : Holds(w[m], W[m])
    BY <1>4, <1>8, <1>10
  <1>13. w \in Seq(V)
    BY <1>2, <1>7, SelectFacts
  <1>14. w = Whole(l) /\ W = WordsOf(s)
    BY <1>1, <1>5, <1>7 DEF Whole, WordsOf
  <1> QED BY <1>11, <1>12, <1>13, <1>14 DEF Spelled

(* ... and so are the parts of the command. *)
LEMMA PartsGive ==
  ASSUME NEW line \in Seq(Int), Len(line) < IntMax, NEW oom, ~oom, NEW list \in cmd_parts(line, oom)
  PROVE  Spelled(list.entry, WordsOf(line))
  <1>1. PICK b \in bfromcstr(line, oom) :
          \E l \in IF b = NullBstr THEN {NullList} ELSE bsplit(b.data, Blank, oom) :
            \E r \in bstrListAlloc(bstrListCreate, Len(l.entry), oom) :
              \E c \in Copies(l, oom) :
                list = IF r = NullList THEN r ELSE [r EXCEPT !.entry = c]
    BY PartsCases
  <1>2. b # NullBstr /\ b.data = line
    BY <1>1, bfromcstrGives DEF Holds
  <1>3. PICK l \in bsplit(line, Blank, oom) :
          \E r \in bstrListAlloc(bstrListCreate, Len(l.entry), oom) :
            \E c \in Copies(l, oom) :
              list = IF r = NullList THEN r ELSE [r EXCEPT !.entry = c]
    BY <1>1, <1>2
  <1>4. PICK r \in bstrListAlloc(bstrListCreate, Len(l.entry), oom), c \in Copies(l, oom) :
          list = IF r = NullList THEN r ELSE [r EXCEPT !.entry = c]
    BY <1>3
  <1>5. (\E V : l.entry \in Seq(V)) /\ Len(l.entry) = Len(Pieces(line, Blank))
    BY bsplitGives
  <1>6. Len(l.entry) \in Nat /\ Len(l.entry) > 0
    BY <1>5, PiecesType
  <1>7. r # NullList
    BY <1>6, ListAllocGives
  <1>8. r = [entry |-> <<>>, mlen |-> r.mlen]
    BY <1>6, <1>7, AllocFacts
  <1>9. list.entry = c
    BY <1>4, <1>7, <1>8
  <1>10. PICK V : l.entry \in Seq(V)
    BY <1>5
  <1>11. PICK w, W : w = Whole(l) /\ W = WordsOf(line)
    OBVIOUS
  <1>12. Spelled(w, W)
    BY <1>11, WholeGives
  <1>13. /\ \E U : c \in Seq(U)
         /\ Len(c) = Len(w) /\ \A j \in 1 .. Len(c) : c[j] \in bstrcpy(w[j], oom)
    BY <1>10, <1>11, CopiesFacts
  <1>14. W \in Seq(Seq(Int))
    BY <1>11, WordsFacts, WordsAreStrings
  <1>15. \A j \in 1 .. Len(W) : Holds(c[j], W[j])
    <2> SUFFICES ASSUME NEW j \in 1 .. Len(W) PROVE Holds(c[j], W[j])
      OBVIOUS
    <2>1. PICK u, x, y : u = W[j] /\ x = w[j] /\ y = c[j]
      OBVIOUS
    <2>2. u \in Seq(Int)
      BY <1>14, <2>1
    <2>3. Holds(x, u) /\ y \in bstrcpy(x, oom)
      BY <1>12, <1>13, <2>1 DEF Spelled
    <2>4. Holds(y, u)
      BY <2>2, <2>3, bstrcpyGives
    <2> QED BY <2>1, <2>4
  <1>16. Len(c) = Len(W)
    BY <1>12, <1>13 DEF Spelled
  <1> QED BY <1>9, <1>11, <1>13, <1>15, <1>16 DEF Spelled

----------------------------------------------------------------------------
(* The functions, and the call that a line spells. *)

(* A name is told from the others by its length and two of its letters. *)
LEMMA NameTable ==
  /\ Len(functions[1].name) = 7 /\ functions[1].name[2] = 99 /\ functions[1].name[3] = 114
  /\ Len(functions[2].name) = 7 /\ functions[2].name[2] = 115 /\ functions[2].name[3] = 97
  /\ Len(functions[3].name) = 5 /\ functions[3].name[2] = 109 /\ functions[3].name[3] = 101
  /\ Len(functions[4].name) = 5 /\ functions[4].name[2] = 100 /\ functions[4].name[3] = 117
  /\ Len(functions[5].name) = 7 /\ functions[5].name[2] = 100 /\ functions[5].name[3] = 101
  /\ Len(functions[6].name) = 5 /\ functions[6].name[2] = 108 /\ functions[6].name[3] = 105
  /\ Len(functions[7].name) = 6 /\ functions[7].name[2] = 115 /\ functions[7].name[3] = 116
  /\ Len(functions[8].name) = 5 /\ functions[8].name[2] = 108 /\ functions[8].name[3] = 111
  BY DEF functions

(* Each is of lower-case letters behind its slash. *)
LEMMA NameLetters ==
  \A f \in DOMAIN functions :
    /\ Len(functions[f].name) \in 5 .. 7
    /\ functions[f].name[2] \in 97 .. 122 /\ functions[f].name[3] \in 97 .. 122
  BY DEF functions

(* So a text is the name of no more than one function (find_function). *)
LEMMA NamesDiffer ==
  ASSUME NEW t \in Seq(Int), NEW f \in DOMAIN functions, NEW g \in DOMAIN functions,
         EqualIgnoringCase(t, functions[f].name), EqualIgnoringCase(t, functions[g].name)
  PROVE  f = g
  <1>0. f \in 1 .. 8 /\ g \in 1 .. 8
    BY FunctionFacts
  <1> DEFINE l(h) == Len(functions[h].name)
             a(h) == functions[h].name[2]
             b(h) == functions[h].name[3]
  <1>2. ASSUME NEW h \in {f, g} PROVE l(h) = Len(t) /\ a(h) = downcase(t[2]) /\ b(h) = downcase(t[3])
    <2>1. Len(t) = l(h) /\ \A j \in DOMAIN t : downcase(t[j]) = downcase(functions[h].name[j])
      BY <1>2 DEF EqualIgnoringCase
    <2>2. l(h) \in Nat /\ l(h) >= 5 /\ a(h) \in 97 .. 122 /\ b(h) \in 97 .. 122
      <3>1. l(h) \in 5 .. 7 /\ a(h) \in 97 .. 122 /\ b(h) \in 97 .. 122
        BY NameLetters
      <3> HIDE DEF l, a, b
      <3> QED BY <3>1
    <2>3. 2 \in DOMAIN t /\ 3 \in DOMAIN t
      <3>1. DOMAIN t = 1 .. Len(t) /\ Len(t) \in Nat
        OBVIOUS
      <3> HIDE DEF l
      <3> QED BY <2>1, <2>2, <3>1
    <2>4. downcase(a(h)) = a(h) /\ downcase(b(h)) = b(h)
      <3>1. PICK x, y : x = a(h) /\ y = b(h)
        OBVIOUS
      <3>2. x \in 97 .. 122 /\ y \in 97 .. 122
        BY <2>2, <3>1
      <3>3. downcase(x) = x /\ downcase(y) = y
        BY ONLY <3>2 DEF downcase
      <3> QED BY <3>1, <3>3
    <2> QED BY <2>1, <2>3, <2>4
  <1>3. l(f) = l(g) /\ a(f) = a(g) /\ b(f) = b(g)
    <2> HIDE DEF l, a, b
    <2> QED BY <1>2
  <1>4. /\ l(1) = 7 /\ a(1) = 99 /\ l(2) = 7 /\ a(2) = 115 /\ l(3) = 5 /\ a(3) = 109 /\ l(4) = 5 /\ a(4) = 100
        /\ l(5) = 7 /\ a(5) = 100 /\ l(6) = 5 /\ a(6) = 108 /\ b(6) = 105 /\ l(7) = 6
        /\ l(8) = 5 /\ a(8) = 108 /\ b(8) = 111
    BY NameTable
  <1> HIDE DEF l, a, b
  <1> QED BY <1>0, <1>3, <1>4

\* The words are those of a line that calls f.
Named(W, f) ==
  /\ EqualIgnoringCase(btrimws(W[1]), functions[f].name)
  /\ Len(W) = functions[f].argc

(* A line is a command if its words are. *)
LEMMA CommandIsNamed ==
  ASSUME NEW line \in Seq(Int), NEW W, W = WordsOf(line)
  PROVE  IsCommand(line) <=> W # <<>> /\ \E f \in DOMAIN functions : Named(W, f)
  <1>1. PICK q : q = Squeezed(line)
    OBVIOUS
  <1>2. W \in Seq(Words) /\ IsJoin(q, W) /\ \A j \in 1 .. Len(W) : W[j] # <<>>
    BY <1>1, WordsFacts
  <1>3. PICK u, n : u = UpTo(q, {Blank}) /\ n = Cardinality(BlanksIn(q))
    OBVIOUS
  <1>4. IsCommand(line) <=> \E f \in DOMAIN functions :
                              EqualIgnoringCase(btrimws(u), functions[f].name) /\ n + 1 = functions[f].argc
    BY <1>1, <1>3 DEF IsCommand, BlanksIn
  <1>5. CASE W = <<>>
    <2>1. q = <<>>
      BY <1>2, <1>5, JoinFacts, WordsAreStrings
    <2>2. u \in Seq(Int) /\ Len(u) <= 0
      <3>1. PICK e : e = <<>>
        OBVIOUS
      <3>2. e \in Seq(Int) /\ Len(e) = 0
        BY <3>1
      <3>3. UpTo(e, {Blank}) \in Seq(Int) /\ Len(UpTo(e, {Blank})) <= Len(e)
        BY <3>2, UpToType
      <3> QED BY <1>3, <2>1, <3>1, <3>2, <3>3
    <2>3. Len(btrimws(u)) <= 0
      <3>1. Len(btrimws(u)) <= Len(u) /\ btrimws(u) \in Seq(Int)
        BY <2>2, TrimFacts
      <3>2. PICK m, k : m = Len(btrimws(u)) /\ k = Len(u)
        OBVIOUS
      <3>3. m \in Nat /\ k \in Nat
        BY <2>2, <3>1, <3>2
      <3> QED BY <2>2, <3>1, <3>2, <3>3
    <2>4. \A f \in DOMAIN functions : Len(functions[f].name) > 0
      <3> SUFFICES ASSUME NEW f \in DOMAIN functions PROVE Len(functions[f].name) > 0
        OBVIOUS
      <3>1. PICK l : l = Len(functions[f].name)
        OBVIOUS
      <3>2. l \in 5 .. 7
        BY <3>1, NameLetters
      <3>3. l > 0
        BY ONLY <3>2
      <3> QED BY <3>1, <3>3
    <2>5. ~IsCommand(line)
      BY <1>4, <2>3, <2>4 DEF EqualIgnoringCase
    <2> QED BY <1>5, <2>5
  <1>6. CASE W # <<>>
    <2>1. u = W[1] /\ n = Len(W) - 1
      BY <1>2, <1>3, <1>6, JoinSpells
    <2>2. n + 1 = Len(W)
      BY <1>2, <2>1
    <2> QED BY <1>4, <1>6, <2>1, <2>2 DEF Named
  <1> QED BY <1>5, <1>6

(* The words of a line that calls f spell the call with the arguments behind *)
(* the name.                                                                 *)
LEMMA NamedSpells ==
  ASSUME NEW line \in Seq(Int), NEW W, W = WordsOf(line), W # <<>>, NEW f, Named(W, f)
  PROVE  Spells(line, f, Tail(W))
  <1> DEFINE args == Tail(W)
             rest == FlattenSeq([j \in DOMAIN args |-> <<Blank>> \o args[j]])
             s == Squeezed(line)
             n == Len(s) - Len(rest)
  <1>1. W \in Seq(Words) /\ IsJoin(s, W) /\ \A j \in 1 .. Len(W) : W[j] # <<>>
    BY WordsFacts
  <1>2. PICK u : u = W[1]
    OBVIOUS
  <1>3. rest \in Seq(Int) /\ s = u \o rest
    BY <1>1, <1>2, JoinSpells
  <1>4. /\ Len(W) \in Nat /\ Len(W) > 0 /\ 1 \in 1 .. Len(W)
        /\ Len(args) = Len(W) - 1 /\ DOMAIN args = 1 .. Len(W) - 1
        /\ \A j \in 1 .. Len(W) - 1 : args[j] = W[j + 1] /\ j + 1 \in 1 .. Len(W)
    <2> HIDE DEF Words
    <2> QED BY <1>1
  <1>5. u \in Seq(Int) /\ u # <<>>
    <2>1. u \in Words /\ u # <<>>
      BY <1>1, <1>2, <1>4
    <2> QED BY <2>1, WordsAreStrings
  <1>6. Len(args) + 1 = functions[f].argc
    BY <1>4 DEF Named
  <1>7. \A j \in DOMAIN args : args[j] # <<>> /\ Blank \notin Range(args[j])
    <2> SUFFICES ASSUME NEW j \in DOMAIN args PROVE args[j] # <<>> /\ Blank \notin Range(args[j])
      OBVIOUS
    <2>1. PICK v : v = args[j]
      OBVIOUS
    <2>2. v = W[j + 1] /\ j + 1 \in 1 .. Len(W)
      BY <1>4, <2>1
    <2>3. v \in Words /\ v # <<>>
      BY <1>1, <2>2
    <2>4. \A m \in DOMAIN v : v[m] # Blank
      BY <2>3, WordIsWhole DEF BlanksIn
    <2> QED BY <2>1, <2>3, <2>4 DEF Range
  <1> HIDE DEF args
  <1>8. PICK r, q, k : r = rest /\ q = s /\ k = n
    OBVIOUS
  <1>9. r \in Seq(Int) /\ q = u \o r /\ k = Len(q) - Len(r)
    BY <1>3, <1>8
  <1>10. /\ q \in Seq(Int) /\ Len(q) = Len(u) + Len(r)
         /\ \A j \in 1 .. Len(u) : q[j] = u[j]
         /\ \A j \in 1 .. Len(r) : q[Len(u) + j] = r[j]
    BY <1>5, <1>9, TwoPieces
  <1>11. Len(u) \in Nat /\ Len(u) > 0 /\ Len(r) \in Nat
    BY <1>5, <1>9
  <1>12. k = Len(u)
    BY ONLY <1>9, <1>10, <1>11
  <1>13. r = SubSeq(q, k + 1, Len(q))
    <2>1. PICK t : t = SubSeq(q, k + 1, Len(q))
      OBVIOUS
    <2>2. t \in Seq(Int) /\ Len(t) = Len(r) /\ \A j \in 1 .. Len(r) : t[j] = q[Len(u) + j]
      <3>1. k + 1 \in Nat /\ Len(q) \in Nat /\ k + 1 >= 1
        BY <1>10, <1>11, <1>12
      <3>2. t \in Seq(Int) /\ Len(t) = IF k + 1 <= Len(q) THEN Len(q) - (k + 1) + 1 ELSE 0
        BY <1>10, <2>1, <3>1
      <3>3. Len(t) = Len(r)
        BY ONLY <1>10, <1>11, <1>12, <3>1, <3>2
      <3>4. \A j \in 1 .. Len(t) : t[j] = q[(k + 1) + j - 1]
        BY <1>10, <2>1, <3>1
      <3>5. \A j \in 1 .. Len(r) : (k + 1) + j - 1 = Len(u) + j
        BY ONLY <1>11, <1>12
      <3> QED BY <3>2, <3>3, <3>4, <3>5
    <2>3. \A j \in 1 .. Len(r) : t[j] = r[j]
      BY <1>10, <2>2
    <2> QED BY <1>9, <2>1, <2>2, <2>3
  <1>14. SubSeq(q, 1, k) = u
    <2>1. k \in Nat /\ k <= Len(q)
      BY <1>10, <1>11, <1>12
    <2>2. SubSeq(q, 1, k) = [j \in 1 .. k |-> q[j]]
      BY <1>10, <2>1
    <2>3. u = [j \in 1 .. k |-> u[j]]
      BY <1>5, <1>12
    <2> QED BY <1>10, <1>12, <2>2, <2>3
  <1>15. EqualIgnoringCase(btrimws(SubSeq(q, 1, k)), functions[f].name)
    BY <1>2, <1>14 DEF Named
  <1>16. k > 0
    BY <1>11, <1>12
  <1> QED BY <1>6, <1>7, <1>8, <1>13, <1>15, <1>16 DEF Spells, args

(* The call that is made of the words of a line is the one it spells; there *)
(* is none if it is no command.                                             *)
LEMMA CallIsSpelled ==
  ASSUME NEW line \in Seq(Int), NEW parts, Spelled(parts, WordsOf(line)), NEW call, call = CallOf(parts)
  PROVE  IF IsCommand(line) THEN call # NoCall /\ Spells(line, call.func, call.args)
                            ELSE call = NoCall
  <1>1. PICK W : W = WordsOf(line)
    OBVIOUS
  <1>2. W \in Seq(Words) /\ \A j \in 1 .. Len(W) : W[j] # <<>>
    BY <1>1, WordsFacts
  <1>3. /\ \E V : parts \in Seq(V)
        /\ Len(parts) = Len(W) /\ \A j \in 1 .. Len(W) : parts[j].data = W[j] /\ parts[j] # NullBstr
    BY <1>1 DEF Spelled, Holds
  <1>4. Len(W) \in Nat /\ DOMAIN parts = 1 .. Len(W) /\ (W = <<>> <=> Len(W) = 0)
        /\ (parts = <<>> <=> Len(W) = 0)
    BY <1>2, <1>3
  <1>5. IsCommand(line) <=> W # <<>> /\ \E f \in DOMAIN functions : Named(W, f)
    BY <1>1, CommandIsNamed
  <1>6. CASE W = <<>>
    BY <1>4, <1>5, <1>6 DEF CallOf
  <1>7. CASE W # <<>>
    <2> DEFINE F == {f \in DOMAIN functions :
                       EqualIgnoringCase(btrimws(parts[1].data), functions[f].name)}
    <2>1. parts # <<>> /\ 1 \in 1 .. Len(W) /\ parts[1] # NullBstr /\ parts[1].data = W[1]
      BY <1>3, <1>4, <1>7
    <2>2. F = {f \in DOMAIN functions : EqualIgnoringCase(btrimws(W[1]), functions[f].name)}
      BY <2>1
    <2>3. find_function(parts) = IF F = {} THEN NS_NOP ELSE CHOOSE j \in F : TRUE
      BY <2>1 DEF find_function
    <2> HIDE DEF F
    <2>4. CASE F = {}
      <3>1. call = NoCall
        BY <2>3, <2>4 DEF CallOf
      <3>2. ~IsCommand(line)
        BY <1>5, <2>2, <2>4 DEF Named
      <3> QED BY <3>1, <3>2
    <2>5. CASE F # {}
      <3>1. PICK f : f = find_function(parts)
        OBVIOUS
      <3>2. f \in F /\ f \in DOMAIN functions /\ f # NS_NOP
        <4>1. f \in F
          BY <2>3, <2>5, <3>1
        <4> QED BY <2>2, <4>1, FunctionFacts
      <3>3. \A g \in F : g = f
        <4> SUFFICES ASSUME NEW g \in F PROVE g = f
          OBVIOUS
        <4>1. PICK t : t = btrimws(W[1])
          OBVIOUS
        <4>2. t \in Seq(Int)
          <5>1. PICK u : u = W[1]
            OBVIOUS
          <5>2. u \in Seq(Int)
            <6>1. u \in Words
              BY <1>2, <2>1, <5>1
            <6> QED BY <6>1, WordsAreStrings
          <5> QED BY <4>1, <5>1, <5>2, TrimFacts
        <4>3. g \in DOMAIN functions /\ EqualIgnoringCase(t, functions[g].name)
              /\ EqualIgnoringCase(t, functions[f].name)
          BY <2>2, <3>2, <4>1
        <4> QED BY <3>2, <4>2, <4>3, NamesDiffer
      <3>4. \A g \in DOMAIN functions : Named(W, g) => g = f
        BY <2>2, <3>3 DEF Named
      <3>5. \A j \in DOMAIN parts : blength(parts[j]) > 0
        <4> SUFFICES ASSUME NEW j \in DOMAIN parts PROVE blength(parts[j]) > 0
          OBVIOUS
        <4>1. PICK u : u = W[j]
          OBVIOUS
        <4>2. u \in Seq(Int) /\ u # <<>>
          <5>1. u \in Words /\ u # <<>>
            BY <1>2, <1>4, <4>1
          <5> QED BY <5>1, WordsAreStrings
        <4>3. parts[j].data = u
          BY <1>3, <1>4, <4>1
        <4> QED BY <4>2, <4>3 DEF blength
      <3>6. check_args(parts, functions[f].argc) <=> Named(W, f)
        BY <1>3, <2>2, <3>2, <3>5 DEF check_args, Named
      <3>7. CASE Named(W, f)
        <4> DEFINE data == [j \in DOMAIN parts |-> parts[j].data]
        <4>1. call = [func |-> f, args |-> Tail(data)]
          BY <2>1, <3>1, <3>2, <3>6, <3>7 DEF CallOf
        <4>2. data = W
          <5>1. data = [j \in 1 .. Len(W) |-> W[j]]
            BY <1>3, <1>4
          <5>2. W = [j \in 1 .. Len(W) |-> W[j]]
            BY <1>2
          <5> QED BY <5>1, <5>2
        <4>3. call.func = f /\ call.args = Tail(W)
          <5> HIDE DEF data
          <5> QED BY <4>1, <4>2
        <4>4. NoCall.func = NS_NOP
          BY DEF NoCall
        <4>5. Spells(line, f, Tail(W))
          BY <1>1, <1>7, <3>7, NamedSpells
        <4> QED BY <1>5, <1>7, <3>2, <3>7, <4>3, <4>4, <4>5
      <3>8. CASE ~Named(W, f)
        <4>1. call = NoCall
          BY <3>1, <3>6, <3>8 DEF CallOf
        <4>2. ~IsCommand(line)
          BY <1>5, <3>4, <3>8
        <4> QED BY <4>1, <4>2
      <3> QED BY <3>7, <3>8
    <2> QED BY <2>4, <2>5
  <1> QED BY <1>6, <1>7

(* No command is shorter than its name. *)
LEMMA CommandIsLong ==
  ASSUME NEW line \in Seq(Int), IsCommand(line)
  PROVE  Len(line) >= CMD_MIN_SIZE
  <1>1. PICK q, u, t : q = Squeezed(line) /\ u = UpTo(q, {Blank}) /\ t = btrimws(u)
    OBVIOUS
  <1>2. PICK f \in DOMAIN functions : EqualIgnoringCase(t, functions[f].name)
    BY <1>1 DEF IsCommand
  <1>3. q \in Seq(Int) /\ Len(q) <= Len(line)
    BY <1>1, SqueezedIsShorter DEF Shorter
  <1>4. u \in Seq(Int) /\ Len(u) <= Len(q)
    BY <1>1, <1>3, UpToType
  <1>5. t \in Seq(Int) /\ Len(t) <= Len(u)
    BY <1>1, <1>4, TrimFacts
  <1>6. Len(t) >= CMD_MIN_SIZE
    BY <1>2, ShortestAssumption DEF EqualIgnoringCase
  <1>7. Len(line) \in Nat /\ Len(q) \in Nat /\ Len(u) \in Nat /\ Len(t) \in Nat /\ CMD_MIN_SIZE \in Nat
    BY <1>3, <1>4, <1>5, SizesAssumption
  <1> QED BY ONLY <1>3, <1>4, <1>5, <1>6, <1>7

(* What process makes of bytes is what they spell. *)
LEMMA ProcessGives ==
  ASSUME NEW bytes \in Seq(Int), Len(bytes) <= CMD_MAX_SIZE, NEW line, line = sanitize(bytes),
         NEW oom, ~oom, NEW call \in process(bytes, oom)
  PROVE  IF IsCommand(line) THEN call # NoCall /\ Spells(line, call.func, call.args)
                            ELSE call = NoCall
  <1>1. line \in Seq(Int) /\ Len(line) <= Len(bytes)
    BY UpToType DEF sanitize
  <1>2. call \in IF check_cmd(line) THEN {CallOf(list.entry) : list \in cmd_parts(line, oom)} ELSE {NoCall}
    BY DEF process
  <1>3. Len(line) \in Nat /\ Len(bytes) \in Nat /\ {CMD_MIN_SIZE, CMD_MAX_SIZE, IntMax} \subseteq Nat
        /\ CMD_MAX_SIZE < IntMax
    BY <1>1, SizesAssumption, IntMaxAssumption
  <1>4. CASE check_cmd(line)
    <2>1. PICK list \in cmd_parts(line, oom) : call = CallOf(list.entry)
      BY <1>2, <1>4
    <2>2. Len(line) < IntMax
      BY <1>1, <1>3
    <2>3. Spelled(list.entry, WordsOf(line))
      BY <1>1, <2>2, PartsGive
    <2> QED BY <1>1, <2>1, <2>3, CallIsSpelled
  <1>5. CASE ~check_cmd(line)
    <2>1. call = NoCall
      BY <1>2, <1>5
    <2>2. ~(Len(line) >= CMD_MIN_SIZE)
      BY <1>1, <1>3, <1>5 DEF check_cmd
    <2>3. ~IsCommand(line)
      BY <1>1, <2>2, CommandIsLong
    <2> QED BY <2>1, <2>3
  <1> QED BY <1>4, <1>5

(* The buffer that has received a line. *)

Received(bytes, line) ==
  bytes = [j \in 1 .. CMD_MAX_SIZE |-> IF j <= Len(line) THEN line[j] ELSE NUL]

(* What is made of it is the line as far as its newline (sanitize). *)
LEMMA SanitizedLine ==
  ASSUME NEW line \in Seq(Int \ {NUL}), Len(line) <= CMD_MAX_SIZE, NEW bytes, Received(bytes, line)
  PROVE  /\ bytes \in Seq(Int) /\ Len(bytes) <= CMD_MAX_SIZE
         /\ sanitize(bytes) = UpTo(line, {NewLine})
  <1>1. PICK N, n : N = CMD_MAX_SIZE /\ n = Len(line)
    OBVIOUS
  <1>2. N \in Nat /\ n \in Nat /\ n <= N /\ line \in Seq(Int)
        /\ \A j \in 1 .. n : line[j] \in Int /\ line[j] # NUL
    <2>1. n \in Nat /\ \A j \in 1 .. n : line[j] \in Int \ {NUL}
      BY <1>1
    <2> QED BY <1>1, <2>1, SizesAssumption
  <1>3. bytes \in Seq(Int) /\ Len(bytes) = N /\ DOMAIN bytes = 1 .. N
        /\ (\A j \in 1 .. n : bytes[j] = line[j]) /\ \A j \in 1 .. N : j > n => bytes[j] = NUL
    <2>1. bytes = [j \in 1 .. N |-> IF j <= n THEN line[j] ELSE NUL]
      BY <1>1 DEF Received
    <2>2. \A j \in 1 .. N : (IF j <= n THEN line[j] ELSE NUL) \in Int
      BY <1>2 DEF NUL
    <2>3. bytes \in Seq(Int) /\ Len(bytes) = N /\ DOMAIN bytes = 1 .. N
      BY <1>2, <2>1, <2>2
    <2>4. \A j \in 1 .. N : bytes[j] = IF j <= n THEN line[j] ELSE NUL
      BY <2>1
    <2>5. \A j \in 1 .. n : j \in 1 .. N /\ j <= n
      BY <1>2
    <2>6. \A j \in 1 .. N : j > n => ~(j <= n)
      BY <1>2
    <2> QED BY <2>3, <2>4, <2>5, <2>6
  <1>4. PICK A, B : A = {j \in DOMAIN bytes : bytes[j] \in {NUL, NewLine}}
                      /\ B = {j \in DOMAIN line : line[j] \in {NewLine}}
    OBVIOUS
  <1>5. /\ sanitize(bytes) = IF A = {} THEN bytes ELSE SubSeq(bytes, 1, Min(A) - 1)
        /\ UpTo(line, {NewLine}) = IF B = {} THEN line ELSE SubSeq(line, 1, Min(B) - 1)
    BY <1>4 DEF sanitize, UpTo
  <1>6. A \in SUBSET Nat /\ B \in SUBSET Nat /\ B = {j \in 1 .. n : line[j] = NewLine}
    BY <1>1, <1>3, <1>4
  <1>7. A = {j \in 1 .. N : j > n \/ j \in B}
    <2>1. ASSUME NEW j \in 1 .. N PROVE bytes[j] \in {NUL, NewLine} <=> (j > n \/ j \in B)
      <3>1. CASE j > n
        BY <1>3, <3>1
      <3>2. CASE ~(j > n)
        <4>1. j \in 1 .. n
          BY ONLY <1>2, <3>2, j \in 1 .. N
        <4> QED BY <1>2, <1>3, <1>6, <3>2, <4>1
      <3> QED BY <3>1, <3>2
    <2> QED BY <1>3, <1>4, <2>1
  <1>8. \A k \in 0 .. n : SubSeq(bytes, 1, k) = SubSeq(line, 1, k)
    <2> SUFFICES ASSUME NEW k \in 0 .. n PROVE SubSeq(bytes, 1, k) = SubSeq(line, 1, k)
      OBVIOUS
    <2>1. k \in Nat /\ k <= n /\ k <= N
      BY ONLY <1>2, k \in 0 .. n
    <2>2. SubSeq(bytes, 1, k) = [j \in 1 .. k |-> bytes[j]] /\ SubSeq(line, 1, k) = [j \in 1 .. k |-> line[j]]
      BY <1>1, <1>2, <1>3, <2>1
    <2>3. \A j \in 1 .. k : bytes[j] = line[j]
      BY <1>2, <1>3, <2>1
    <2> QED BY <2>2, <2>3
  <1>9. CASE B # {}
    <2>1. PICK m : m = Min(B)
      OBVIOUS
    <2>2. m \in B /\ \A j \in B : m <= j
      BY <1>6, <1>9, <2>1, LeastOf
    <2>3. m \in 1 .. n
      BY <1>6, <2>2
    <2>4. m \in A /\ \A j \in A : m <= j
      <3>1. m \in 1 .. N
        BY ONLY <1>2, <2>3
      <3>2. \A j \in 1 .. N : j > n => m <= j
        BY ONLY <1>2, <2>3
      <3> QED BY <1>7, <2>2, <3>1, <3>2
    <2>5. Min(A) = m
      BY <1>6, <2>4, MinIs
    <2>6. m - 1 \in 0 .. n
      BY ONLY <1>2, <2>3
    <2> QED BY <1>1, <1>3, <1>5, <1>8, <1>9, <2>1, <2>4, <2>5, <2>6
  <1>10. CASE B = {} /\ n < N
    <2>1. n + 1 \in A
      <3>1. n + 1 \in 1 .. N /\ n + 1 > n
        BY ONLY <1>2, <1>10
      <3> QED BY <1>7, <3>1
    <2>2. \A j \in A : n + 1 <= j
      <3>1. \A j \in 1 .. N : j > n => n + 1 <= j
        BY ONLY <1>2
      <3> QED BY <1>7, <1>10, <3>1
    <2>3. Min(A) = n + 1
      <3>1. PICK m : m = n + 1
        OBVIOUS
      <3> QED BY <1>6, <2>1, <2>2, <3>1, MinIs
    <2>4. (n + 1) - 1 = n /\ n \in 0 .. n
      BY ONLY <1>2
    <2>5. SubSeq(line, 1, n) = line
      BY <1>1, <1>2
    <2> QED BY <1>1, <1>3, <1>5, <1>8, <1>10, <2>1, <2>3, <2>4, <2>5
  <1>11. CASE B = {} /\ n = N
    <2>1. A = {}
      <3>1. \A j \in 1 .. N : ~(j > n)
        BY ONLY <1>2, <1>11
      <3> QED BY <1>7, <1>11, <3>1
    <2>2. bytes = line
      <3>1. line \in Seq(Int) /\ Len(line) = Len(bytes)
        BY <1>1, <1>2, <1>3, <1>11
      <3>2. \A j \in 1 .. Len(bytes) : bytes[j] = line[j]
        BY <1>3, <1>11
      <3> QED BY ONLY <1>3, <3>1, <3>2
    <2> QED BY <1>1, <1>3, <1>5, <1>11, <2>1, <2>2
  <1>12. n < N \/ n = N
    BY ONLY <1>2
  <1> QED BY <1>9, <1>10, <1>11, <1>12

----------------------------------------------------------------------------
(* What may come of a line when there may be no memory.                      *)

\* b is a bstring of the characters s, or a null pointer.
MayHold(b, s) == b = NullBstr \/ b.data = s

LEMMA bmidstrMayFail ==
  ASSUME NEW s, NEW oom, NEW b \in bmidstr(s, oom)
  PROVE  MayHold(b, s)
  BY DEF bmidstr, bfromcstr, blk2bstr, MayHold

LEMMA bstrcpyMayFail ==
  ASSUME NEW s, NEW b, MayHold(b, s), NEW oom, NEW r \in bstrcpy(b, oom)
  PROVE  MayHold(r, s)
  BY DEF bstrcpy, MayHold

(* A list of bsplit has an entry for each piece, though it may be null. *)
LEMMA bsplitMayFail ==
  ASSUME NEW s \in Seq(Int), NEW c, NEW oom, NEW l \in bsplit(s, c, oom), l # NullList
  PROVE  /\ \E V : l.entry \in Seq(V)
         /\ Len(l.entry) = Len(Pieces(s, c))
         /\ \A j \in 1 .. Len(l.entry) : MayHold(l.entry[j], Pieces(s, c)[j])
  <1> DEFINE pieces == Pieces(s, c)
             S == [j \in DOMAIN pieces |-> bmidstr(pieces[j], oom)]
             V == UNION {S[j] : j \in DOMAIN pieces}
  <1>1. pieces \in Seq(Seq(Int))
    BY PiecesType
  <1>2. PICK e : e = l.entry /\ e \in OneOfEach(S)
    BY bsplitCases
  <1> HIDE DEF pieces
  <1>3. S \in Seq(SUBSET V) /\ Len(S) = Len(pieces)
    <2>1. \A j \in DOMAIN pieces : S[j] \in SUBSET V
      OBVIOUS
    <2>2. DOMAIN pieces = 1 .. Len(pieces) /\ Len(pieces) \in Nat
      BY <1>1
    <2>3. S = [j \in 1 .. Len(pieces) |-> S[j]]
      BY <2>2
    <2> HIDE DEF S, V
    <2> QED BY <2>1, <2>2, <2>3
  <1>4. \A j \in 1 .. Len(pieces) : S[j] = bmidstr(pieces[j], oom)
    BY <1>1
  <1> HIDE DEF S, V
  <1>5. e \in Seq(V) /\ Len(e) = Len(S) /\ \A j \in 1 .. Len(S) : e[j] \in S[j]
    <2>1. OneOfEach(S) = {d \in Seq(V) : Len(d) = Len(S) /\ \A j \in 1 .. Len(S) : d[j] \in S[j]}
      BY <1>3, OneOfEachFacts
    <2> QED BY <1>2, <2>1
  <1>6. \A j \in 1 .. Len(pieces) : MayHold(e[j], pieces[j])
    BY <1>3, <1>4, <1>5, bmidstrMayFail
  <1> QED BY <1>2, <1>3, <1>5, <1>6 DEF pieces

\* The entries of c are, in their order, bstrings of the pieces at e, none of
\* them empty, or null pointers.
Picked(c, p, e) ==
  /\ \E V : c \in Seq(V)
  /\ e \in Seq(1 .. Len(p)) /\ Len(c) = Len(e)
  /\ \A i, j \in 1 .. Len(e) : i < j => e[i] < e[j]
  /\ \A j \in 1 .. Len(e) : p[e[j]] # <<>> /\ MayHold(c[j], p[e[j]])

(* So are those that have a length, ... *)
LEMMA WholeMayFail ==
  ASSUME NEW s \in Seq(Int), NEW oom, NEW l \in bsplit(s, Blank, oom), l # NullList
  PROVE  \E e : Picked(Whole(l), Pieces(s, Blank), e)
  <1>1. PICK p, d : p = Pieces(s, Blank) /\ d = l.entry
    OBVIOUS
  <1>2. PICK V : d \in Seq(V)
    BY <1>1, bsplitMayFail
  <1>3. p \in Seq(Seq(Int)) /\ Len(d) = Len(p) /\ \A j \in 1 .. Len(p) : MayHold(d[j], p[j])
    BY <1>1, PiecesType, bsplitMayFail
  <1>4. PICK B : B = {b \in Range(d) : blength(b) > 0}
    OBVIOUS
  <1>5. PICK w : w = Select(d, B)
    OBVIOUS
  <1>6. PICK e : Places(e, d, B) /\ w = [m \in 1 .. Len(e) |-> d[e[m]]]
    BY <1>2, <1>5, SelectPlaces
  <1>7. e \in Seq(1 .. Len(p)) /\ Len(e) \in Nat /\ \A m \in 1 .. Len(e) : e[m] \in 1 .. Len(p) /\ d[e[m]] \in B
    <2>1. e \in Seq(1 .. Len(p)) /\ {e[m] : m \in 1 .. Len(e)} = {j \in 1 .. Len(p) : d[j] \in B}
      BY <1>3, <1>6 DEF Places
    <2> QED BY <2>1
  <1>8. Len(w) = Len(e) /\ \A m \in 1 .. Len(e) : w[m] = d[e[m]]
    BY <1>6, <1>7
  <1>9. \A i, j \in 1 .. Len(e) : i < j => e[i] < e[j]
    BY <1>6 DEF Places
  <1>10. \A m \in 1 .. Len(e) : p[e[m]] # <<>> /\ MayHold(w[m], p[e[m]])
    <2> SUFFICES ASSUME NEW m \in 1 .. Len(e) PROVE p[e[m]] # <<>> /\ MayHold(w[m], p[e[m]])
      OBVIOUS
    <2>1. PICK b, u : b = d[e[m]] /\ u = p[e[m]]
      OBVIOUS
    <2>2. MayHold(b, u) /\ Len(b.data) > 0 /\ u \in Seq(Int)
      BY <1>3, <1>4, <1>7, <2>1 DEF blength
    <2>3. b # NullBstr
      BY <2>2 DEF NullBstr
    <2>4. u # <<>>
      BY <2>2, <2>3 DEF MayHold
    <2> QED BY <1>8, <2>1, <2>2, <2>4
  <1>11. w \in Seq(V)
    BY <1>2, <1>5, SelectFacts
  <1>12. w = Whole(l)
    BY <1>1, <1>4, <1>5 DEF Whole
  <1> QED BY <1>1, <1>7, <1>8, <1>9, <1>10, <1>11, <1>12 DEF Picked

(* ... and the parts of the command. *)
LEMMA PartsMayFail ==
  ASSUME NEW line \in Seq(Int), NEW oom, NEW list \in cmd_parts(line, oom), list.entry # <<>>
  PROVE  \E e : Picked(list.entry, Pieces(line, Blank), e)
  <1>1. list # NullList
    BY DEF NullList
  <1>2. PICK b \in bfromcstr(line, oom) :
          \E l \in IF b = NullBstr THEN {NullList} ELSE bsplit(b.data, Blank, oom) :
            \E r \in bstrListAlloc(bstrListCreate, Len(l.entry), oom) :
              \E c \in Copies(l, oom) :
                list = IF r = NullList THEN r ELSE [r EXCEPT !.entry = c]
    BY <1>1, PartsCases
  <1>0. PICK l \in IF b = NullBstr THEN {NullList} ELSE bsplit(b.data, Blank, oom) :
          \E r \in bstrListAlloc(bstrListCreate, Len(l.entry), oom) :
            \E c \in Copies(l, oom) :
              list = IF r = NullList THEN r ELSE [r EXCEPT !.entry = c]
    BY <1>2
  <1>3. PICK r \in bstrListAlloc(bstrListCreate, Len(l.entry), oom), c \in Copies(l, oom) :
          list = IF r = NullList THEN r ELSE [r EXCEPT !.entry = c]
    BY <1>0
  <1>4. r # NullList
    BY <1>1, <1>3
  <1>5. l # NullList
    <2> SUFFICES ASSUME l = NullList PROVE FALSE
      OBVIOUS
    <2>1. Len(l.entry) = 0
      BY DEF NullList
    <2>2. r = NullList
      BY <2>1 DEF bstrListAlloc
    <2> QED BY <1>4, <2>2
  <1>6. b # NullBstr /\ l \in bsplit(line, Blank, oom)
    BY <1>0, <1>5 DEF bfromcstr
  <1>7. PICK V : l.entry \in Seq(V)
    BY <1>5, <1>6, bsplitMayFail
  <1>8. Len(l.entry) \in Nat
    BY <1>7
  <1>9. r = [entry |-> <<>>, mlen |-> r.mlen]
    BY <1>3, <1>4, <1>8, AllocFacts
  <1>10. list.entry = c
    BY <1>3, <1>4, <1>9
  <1>11. PICK w, p : w = Whole(l) /\ p = Pieces(line, Blank)
    OBVIOUS
  <1>12. PICK e : Picked(w, p, e)
    BY <1>5, <1>6, <1>11, WholeMayFail
  <1>13. /\ \E U : c \in Seq(U)
         /\ Len(c) = Len(w) /\ \A j \in 1 .. Len(c) : c[j] \in bstrcpy(w[j], oom)
    BY <1>3, <1>7, <1>11, CopiesFacts
  <1>14. \A j \in 1 .. Len(e) : MayHold(c[j], p[e[j]])
    BY <1>12, <1>13, bstrcpyMayFail DEF Picked
  <1> QED BY <1>10, <1>11, <1>12, <1>13, <1>14 DEF Picked

(* What is called of parts that are pieces of a line are words of the line: *)
(* a null pointer among them is no argument (check_args).                    *)
LEMMA CallIsOfWords ==
  ASSUME NEW line \in Seq(Int), NEW parts, NEW e, Picked(parts, Pieces(line, Blank), e),
         NEW call, call = CallOf(parts), call # NoCall
  PROVE  OfWords(call, line)
  <1>1. PICK p, f : p = Pieces(line, Blank) /\ f = find_function(parts)
    OBVIOUS
  <1> DEFINE data == [j \in DOMAIN parts |-> parts[j].data]
             F == {g \in DOMAIN functions : EqualIgnoringCase(btrimws(parts[1].data), functions[g].name)}
  <1>2. parts # <<>> /\ f # NS_NOP /\ check_args(parts, functions[f].argc)
        /\ call = [func |-> f, args |-> Tail(data)]
    BY <1>1 DEF CallOf
  <1>3. f \in F
    <2>1. f = IF parts[1] = NullBstr \/ F = {} THEN NS_NOP ELSE CHOOSE j \in F : TRUE
      BY <1>1 DEF find_function
    <2> HIDE DEF F
    <2> QED BY <1>2, <2>1
  <1>4. f \in DOMAIN functions /\ EqualIgnoringCase(btrimws(parts[1].data), functions[f].name)
    BY <1>3
  <1> HIDE DEF F
  <1>5. PICK V, argc : parts \in Seq(V) /\ argc = functions[f].argc
    BY DEF Picked
  <1>6. Len(parts) = argc /\ argc \in Nat /\ argc > 0 /\ DOMAIN parts = 1 .. argc
        /\ \A j \in 1 .. argc : Len(parts[j].data) > 0
    <2>1. argc \in Nat /\ argc > 0
      BY <1>4, <1>5, FunctionFacts
    <2>2. Len(parts) = argc /\ \A j \in DOMAIN parts : Len(parts[j].data) > 0
      BY <1>2, <1>5 DEF check_args, blength
    <2>3. DOMAIN parts = 1 .. Len(parts)
      BY <1>5
    <2> QED BY <2>1, <2>2, <2>3
  <1>7. /\ p \in Seq(Seq(Int)) /\ e \in Seq(1 .. Len(p)) /\ Len(e) = argc
        /\ \A i, j \in 1 .. argc : i < j => e[i] < e[j]
        /\ \A j \in 1 .. argc : p[e[j]] # <<>> /\ MayHold(parts[j], p[e[j]])
    BY <1>1, <1>6, PiecesType DEF Picked
  <1>8. \A j \in 1 .. argc : parts[j].data = p[e[j]]
    <2>1. NullBstr.data = <<>> /\ Len(<<>>) = 0
      BY DEF NullBstr
    <2> QED BY <1>6, <1>7, <2>1 DEF MayHold
  <1>9. e \in [1 .. argc -> {j \in DOMAIN p : p[j] # <<>>}]
    BY <1>7
  <1>10. data \in Seq({parts[j].data : j \in DOMAIN parts}) /\ Len(data) = argc
         /\ \A j \in 1 .. argc : data[j] = p[e[j]]
    BY <1>6, <1>8
  <1> HIDE DEF data
  <1>11. call.func = f /\ Len(call.args) = argc - 1
         /\ \A j \in 1 .. argc - 1 : call.args[j] = p[e[j + 1]]
    <2>1. Len(Tail(data)) = argc - 1 /\ \A j \in 1 .. argc - 1 : Tail(data)[j] = data[j + 1] /\ j + 1 \in 1 .. argc
      BY <1>6, <1>10
    <2> QED BY <1>2, <1>10, <2>1
  <1>12. EqualIgnoringCase(btrimws(p[e[1]]), functions[f].name)
    BY <1>4, <1>6, <1>8
  <1>13. PICK at : at = e
    OBVIOUS
  <1>14. /\ at \in [1 .. argc -> {j \in DOMAIN p : p[j] # <<>>}]
         /\ \A i, j \in 1 .. argc : i < j => at[i] < at[j]
         /\ EqualIgnoringCase(btrimws(p[at[1]]), functions[call.func].name)
         /\ Len(call.args) = argc - 1
         /\ \A j \in 1 .. argc - 1 : call.args[j] = p[at[j + 1]]
    BY <1>7, <1>9, <1>11, <1>12, <1>13
  <1>15. argc = functions[call.func].argc
    BY <1>5, <1>11
  <1> QED BY <1>1, <1>14, <1>15, Zenon DEF OfWords

LEMMA ProcessIsOfWords ==
  ASSUME NEW bytes \in Seq(Int), NEW oom, NEW call \in process(bytes, oom), call # NoCall
  PROVE  OfWords(call, sanitize(bytes))
  <1>1. PICK line : line = sanitize(bytes)
    OBVIOUS
  <1>2. line \in Seq(Int)
    BY <1>1, UpToType DEF sanitize
  <1>3. call \in IF check_cmd(line) THEN {CallOf(list.entry) : list \in cmd_parts(line, oom)} ELSE {NoCall}
    BY <1>1 DEF process
  <1>4. PICK list \in cmd_parts(line, oom) : call = CallOf(list.entry)
    BY <1>3
  <1>5. list.entry # <<>>
    BY <1>4 DEF CallOf
  <1> QED BY <1>1, <1>2, <1>4, <1>5, PartsMayFail, CallIsOfWords

----------------------------------------------------------------------------
(* The inductive invariant: what is in the buffers are bytes, and what has  *)
(* run are words of the line.                                               *)

BytesOK ==
  /\ cmd \in [1 .. CMD_MAX_SIZE -> Int]
  /\ wire \in Seq(Int)

RanOK == \E S : ran \in Seq(S)

StreamInv == BytesOK /\ RanOK /\ WordsAreRun

LEMMA SlurpKeepsBytes ==
  ASSUME BytesOK, slurpsock
  PROVE  BytesOK'
  <1>1. DOMAIN cmd = 1 .. CMD_MAX_SIZE /\ NUL \in Int /\ CMD_MAX_SIZE \in Nat /\ CMD_MAX_SIZE > 0
    BY SizesAssumption DEF BytesOK, NUL
  <1>2. CASE wire = <<>>
    <2>1. cmd' = [j \in DOMAIN cmd |-> NUL] /\ wire' = wire
      BY <1>2 DEF slurpsock
    <2> QED BY <1>1, <2>1 DEF BytesOK
  <1>3. CASE wire # <<>>
    <2>1. PICK n \in Chunk : /\ cmd' = [j \in DOMAIN cmd |-> IF j <= n THEN wire[j] ELSE NUL]
                            /\ wire' = SubSeq(wire, n + 1, Len(wire))
      BY <1>3 DEF slurpsock
    <2>2. Len(wire) \in Nat /\ wire \in Seq(Int)
      BY DEF BytesOK
    <2>3. n \in Nat /\ n <= Len(wire)
      <3> DEFINE S == {Len(wire), CMD_MAX_SIZE}
      <3>1. Min(S) \in Nat /\ Min(S) <= Len(wire)
        <4>1. S \subseteq Nat /\ S # {} /\ Len(wire) \in S
          BY <1>1, <2>2
        <4> HIDE DEF S
        <4> QED BY <4>1, LeastOf
      <3>2. n \in 1 .. Min(S) \/ n = Min(S)
        BY DEF Chunk
      <3> HIDE DEF S
      <3> QED BY <2>2, <3>1, <3>2
    <2>4. \A j \in 1 .. CMD_MAX_SIZE : j <= n => wire[j] \in Int
      BY <1>1, <2>2, <2>3
    <2>5. cmd' \in [1 .. CMD_MAX_SIZE -> Int]
      BY <1>1, <2>1, <2>4
    <2>6. wire' \in Seq(Int)
      BY <2>1, <2>2, <2>3
    <2> QED BY <2>5, <2>6 DEF BytesOK
  <1> QED BY <1>2, <1>3

LEMMA ProcessKeepsRan ==
  ASSUME BytesOK, RanOK, Process
  PROVE  RanOK' /\ WordsAreRun'
  <1>1. PICK S : ran \in Seq(S)
    BY DEF RanOK
  <1>2. cmd \in Seq(Int) /\ cmd' = cmd
    BY SizesAssumption DEF BytesOK, Process
  <1>3. PICK call \in process(cmd, "oom" \in mode) :
          \/ pc' = "closing" /\ ran' = ran
          \/ call # NoCall /\ ran' = Append(ran, call)
    BY DEF Process
  <1>4. CASE pc' = "closing" /\ ran' = ran
    BY <1>1, <1>4 DEF RanOK, WordsAreRun
  <1>5. CASE call # NoCall /\ ran' = Append(ran, call)
    <2>1. PICK T : T = S \cup {call}
      OBVIOUS
    <2>2. ran \in Seq(T) /\ call \in T
      BY <1>1, <2>1
    <2>3. ran' \in Seq(T) /\ Last(ran') = call
      BY <1>5, <2>2 DEF Last
    <2>4. OfWords(call, sanitize(cmd))
      BY <1>2, <1>5, ProcessIsOfWords
    <2> QED BY <1>2, <2>3, <2>4 DEF RanOK, WordsAreRun, Request, sanitize
  <1> QED BY <1>3, <1>4, <1>5

LEMMA StreamInvInit == Init => StreamInv
  <1> SUFFICES ASSUME Init PROVE StreamInv
    OBVIOUS
  <1>1. BytesOK
    BY SizesAssumption DEF Init, BytesOK, NUL
  <1>2. ran \in Seq({}) /\ pc = "start"
    BY DEF Init
  <1> QED BY <1>1, <1>2 DEF StreamInv, RanOK, WordsAreRun

LEMMA StreamInvNext == StreamInv /\ [Next]_vars => StreamInv'
  <1> SUFFICES ASSUME StreamInv, [Next]_vars PROVE StreamInv'
    OBVIOUS
  <1> USE DEF StreamInv
  <1>0. ASSUME cmd' = cmd, ran' = ran, pc' = "send" => pc = "send" PROVE RanOK' /\ WordsAreRun'
    BY <1>0 DEF RanOK, WordsAreRun, Request
  <1>1. CASE UNCHANGED <<cmd, wire, ran>> /\ (pc' = "send" => pc = "send")
    BY <1>0, <1>1 DEF BytesOK
  <1>2. CASE ClientSends
    <2>1. PICK text \in Lines : wire' = wire \o text
      BY <1>2 DEF ClientSends
    <2>2. text \in Seq(Int)
      BY LinesAssumption
    <2>3. wire' \in Seq(Int)
      BY <2>1, <2>2 DEF BytesOK
    <2> QED BY <1>0, <1>2, <2>3 DEF ClientSends, BytesOK
  <1>3. CASE slurpsock
    <2>1. ran' = ran /\ pc' = "process"
      BY <1>3 DEF slurpsock
    <2> QED BY <1>3, <2>1, SlurpKeepsBytes DEF RanOK, WordsAreRun
  <1>4. CASE Process
    <2>1. cmd' = cmd /\ wire' = wire
      BY <1>4 DEF Process
    <2> QED BY <1>4, <2>1, ProcessKeepsRan DEF BytesOK
  <1>5. CASE ClientReads \/ ClientLeaves \/ Start \/ TimesOut \/ Respond \/ Close
    <2>1. UNCHANGED <<cmd, ran>> /\ wire' = wire /\ (pc' = "send" => pc = "send")
      BY <1>5 DEF ClientReads, ClientLeaves, Start, TimesOut, Respond, Close, barfsock, client
    <2> QED BY <1>1, <2>1
  <1> QED BY <1>1, <1>2, <1>3, <1>4, <1>5 DEF Next, Nserve, vars

LEMMA SpecStreamInv == Spec => []StreamInv
  BY StreamInvInit, StreamInvNext, PTL DEF Spec

(* What runs are words of the line in the buffer in their order, whatever   *)
(* memory is missing (cmd_parts, find_function, check_args, call_function).  *)
THEOREM WordsAreAlwaysRun == Spec => []WordsAreRun
  <1>1. StreamInv => WordsAreRun
    BY DEF StreamInv
  <1> QED BY <1>1, SpecStreamInv, PTL

(* The list allocated for the parts of a command has room for all that are   *)
(* copied into it (cmd_parts).                                               *)
THEOREM PartsAlwaysFit == Spec => []PartsFit
  <1>1. StreamInv => PartsFit
    <2> SUFFICES ASSUME BytesOK, NEW list \in cmd_parts(sanitize(cmd), "oom" \in mode)
                 PROVE  ListFits(list)
      BY DEF PartsFit, StreamInv
    <2>1. cmd \in Seq(Int)
      BY SizesAssumption DEF BytesOK
    <2>2. sanitize(cmd) \in Seq(Int)
      BY <2>1, UpToType DEF sanitize
    <2> QED BY <2>2, PartsFacts
  <1> QED BY <1>1, SpecStreamInv, PTL

----------------------------------------------------------------------------
(* A careful client. *)

(* What the client has sent, and what it has to read.                        *)
TrafficOK ==
  /\ sent \in Seq(Lines) /\ heard \in Nat
  /\ \E S : back \in Seq(S)

(* The turns of a careful client and nserve: what is on the wire is the last *)
(* line, whole, and so is what nserve has received; no line is sent while    *)
(* there is one that has not been run, or an answer that has not been read.  *)
InTurn ==
  Careful /\ ~left =>
    /\ pc \in {"start", "recv"} => IF wire = <<>> THEN Len(sent) = Len(ran)
                                   ELSE Len(sent) = Len(ran) + 1 /\ wire = Last(sent)
    /\ pc = "process" => wire = <<>> /\ Len(sent) = Len(ran) + 1 /\ Received(cmd, Last(sent))
    /\ pc = "send" => wire = <<>> /\ Len(sent) = Len(ran)
    /\ pc \in {"start", "recv", "process"} => heard + Len(back) <= Len(ran)
    /\ pc = "send" => heard + Len(back) < Len(ran)

(* A line is not empty, and has no NUL. *)
LEMMA LineFacts ==
  ASSUME NEW line \in Lines
  PROVE  line \in Seq(Int \ {NUL}) /\ line \in Seq(Int) /\ line # <<>> /\ Len(line) \in Nat /\ Len(line) > 0
  <1>1. line \in Seq(Int \ {NUL}) /\ line # <<>>
    BY LinesAssumption
  <1>2. line \in Seq(Int)
    BY <1>1
  <1> QED BY <1>1, <1>2

(* The last of a sequence. *)
LEMMA LastOf ==
  ASSUME NEW V, NEW s \in Seq(V), Len(s) > 0
  PROVE  Last(s) \in V /\ Len(s) \in DOMAIN s /\ Last(s) = s[Len(s)]
  BY DEF Last

LEMMA LastOfMore ==
  ASSUME NEW V, NEW s \in Seq(V), NEW x \in V
  PROVE  Last(Append(s, x)) = x /\ Len(Append(s, x)) = Len(s) + 1
  BY DEF Last

LEMMA TrafficInit == Init => TrafficOK
  <1> SUFFICES ASSUME Init PROVE TrafficOK
    OBVIOUS
  <1>1. back \in Seq({}) /\ sent \in Seq(Lines) /\ heard \in Nat
    BY DEF Init
  <1> QED BY <1>1 DEF TrafficOK

LEMMA TrafficNext ==
  ASSUME TrafficOK, [Next]_vars
  PROVE  TrafficOK'
  <1>1. CASE UNCHANGED <<sent, heard, back>>
    BY <1>1 DEF TrafficOK
  <1>2. CASE ClientSends
    <2>1. PICK line \in Lines : sent' = Append(sent, line)
      BY <1>2 DEF ClientSends
    <2>2. sent' \in Seq(Lines)
      BY <2>1 DEF TrafficOK
    <2> QED BY <1>2, <2>2 DEF ClientSends, TrafficOK
  <1>3. CASE ClientReads
    <2>1. PICK S : back \in Seq(S)
      BY DEF TrafficOK
    <2>2. back' = Tail(back) /\ back # <<>> /\ sent' = sent
      BY <1>3 DEF ClientReads
    <2>3. back' \in Seq(S)
      BY <2>1, <2>2
    <2>4. heard' \in Nat
      BY <1>3 DEF ClientReads, TrafficOK
    <2> QED BY <2>2, <2>3, <2>4 DEF TrafficOK
  <1>4. ASSUME NEW next, barfsock(next), UNCHANGED <<sent, heard>>
        PROVE  TrafficOK'
    <2>1. PICK S : back \in Seq(S)
      BY DEF TrafficOK
    <2>2. back' = back \/ back' = Append(back, out)
      BY <1>4 DEF barfsock
    <2> DEFINE U == S \cup {out}
    <2>3. back \in Seq(U) /\ out \in U
      BY <2>1
    <2>4. back' \in Seq(U)
      <3> HIDE DEF U
      <3> QED BY <2>2, <2>3
    <2> HIDE DEF U
    <2> QED BY <1>4, <2>4 DEF TrafficOK
  <1>5. CASE Respond
    BY <1>4, <1>5 DEF Respond, client
  <1>6. CASE Close
    BY <1>4, <1>6 DEF Close, client
  <1>7. CASE ClientLeaves \/ Start \/ slurpsock \/ TimesOut \/ Process
    BY <1>1, <1>7 DEF ClientLeaves, Start, slurpsock, TimesOut, Process, client
  <1> QED BY <1>1, <1>2, <1>3, <1>5, <1>6, <1>7 DEF Next, Nserve, vars

(* A client that is careful has been so. *)
LEMMA CarefulBefore ==
  ASSUME TrafficOK, [Next]_vars, Careful', ~left'
  PROVE  Careful /\ ~left
  <1>1. mode' = mode /\ (left' = left \/ left' = TRUE)
    BY DEF Next, Nserve, ClientSends, ClientReads, ClientLeaves, Start, slurpsock, TimesOut, Process,
           Respond, Close, client, vars
  <1>2. sent' = sent \/ \E line \in Lines : sent' = Append(sent, line)
    BY DEF Next, Nserve, ClientSends, ClientReads, ClientLeaves, Start, slurpsock, TimesOut, Process,
           Respond, Close, client, vars
  <1>3. \A j \in DOMAIN sent : j \in DOMAIN sent' /\ sent'[j] = sent[j]
    <2>1. CASE sent' = sent
      BY <2>1
    <2>2. ASSUME NEW line \in Lines, sent' = Append(sent, line)
          PROVE  \A j \in DOMAIN sent : j \in DOMAIN sent' /\ sent'[j] = sent[j]
      <3>1. PICK s, t : s = sent /\ t = sent'
        OBVIOUS
      <3>2. s \in Seq(Lines) /\ t = Append(s, line)
        BY <2>2, <3>1 DEF TrafficOK
      <3>3. \A j \in DOMAIN s : j \in DOMAIN t /\ t[j] = s[j]
        BY ONLY <3>2, line \in Lines
      <3> QED BY <3>1, <3>3
    <2> QED BY <1>2, <2>1, <2>2
  <1> QED BY <1>1, <1>3 DEF Careful

(* How many lines, calls and answers there are. *)
LEMMA Counts ==
  ASSUME TrafficOK, RanOK
  PROVE  /\ Len(sent) \in Nat /\ Len(ran) \in Nat /\ Len(back) \in Nat /\ heard \in Nat
         /\ back # <<>> => Len(Tail(back)) = Len(back) - 1 /\ Len(back) > 0
         /\ \A x : Len(Append(back, x)) = Len(back) + 1
         /\ \A x : Len(Append(ran, x)) = Len(ran) + 1
  <1>1. PICK S : back \in Seq(S)
    BY DEF TrafficOK
  <1>2. PICK R : ran \in Seq(R)
    BY DEF RanOK
  <1>3. \A x : Len(Append(back, x)) = Len(back) + 1
    <2> SUFFICES ASSUME NEW x PROVE Len(Append(back, x)) = Len(back) + 1
      OBVIOUS
    <2>1. back \in Seq(S \cup {x})
      BY <1>1
    <2> QED BY <2>1
  <1>4. \A x : Len(Append(ran, x)) = Len(ran) + 1
    <2> SUFFICES ASSUME NEW x PROVE Len(Append(ran, x)) = Len(ran) + 1
      OBVIOUS
    <2>1. ran \in Seq(R \cup {x})
      BY <1>2
    <2> QED BY <2>1
  <1> QED BY <1>1, <1>2, <1>3, <1>4 DEF TrafficOK

(* The line that has been sent last is no longer than the buffer. *)
LEMMA LastLineFits ==
  ASSUME TrafficOK, Careful, Len(sent) > 0
  PROVE  Last(sent) \in Lines /\ Len(Last(sent)) <= CMD_MAX_SIZE
  <1>1. PICK s : s = sent
    OBVIOUS
  <1>2. s \in Seq(Lines) /\ Len(s) > 0
    BY <1>1 DEF TrafficOK
  <1>3. Last(s) \in Lines /\ Len(s) \in DOMAIN s /\ Last(s) = s[Len(s)]
    BY <1>2, LastOf
  <1> QED BY <1>1, <1>3 DEF Careful

LEMMA InTurnInit == Init => InTurn
  <1> SUFFICES ASSUME Init PROVE InTurn
    OBVIOUS
  <1>1. pc = "start" /\ wire = <<>> /\ Len(sent) = 0 /\ Len(ran) = 0 /\ Len(back) = 0 /\ heard = 0
    BY DEF Init
  <1> QED BY <1>1 DEF InTurn

(* A careful client sends a line when nserve has run the ones before it.     *)
LEMMA SendKeepsTurn ==
  ASSUME TrafficOK, RanOK, InTurn, ClientSends, Careful, ~left
  PROVE  InTurn'
  <1>1. PICK line \in Lines : wire' = wire \o line /\ sent' = Append(sent, line)
    BY DEF ClientSends
  <1>2. heard = Len(sent) /\ UNCHANGED <<pc, cmd, out, back, left, mode, heard, ran>>
    BY DEF ClientSends, Careful
  <1>3. line \in Seq(Int) /\ line # <<>>
    BY LineFacts
  <1>4. Last(sent') = line /\ Len(sent') = Len(sent) + 1
    <2>1. PICK s : s = sent
      OBVIOUS
    <2>2. s \in Seq(Lines)
      BY <2>1 DEF TrafficOK
    <2>3. Last(Append(s, line)) = line /\ Len(Append(s, line)) = Len(s) + 1
      BY <2>2, LastOfMore
    <2> QED BY <1>1, <2>1, <2>3
  <1>5. Len(sent) \in Nat /\ Len(ran) \in Nat /\ Len(back) \in Nat
    BY Counts
  <1>6. pc \in {"start", "recv"} => wire = <<>> /\ Len(sent) = Len(ran)
    <2> SUFFICES ASSUME pc \in {"start", "recv"} PROVE wire = <<>> /\ Len(sent) = Len(ran)
      OBVIOUS
    <2>1. heard + Len(back) <= Len(ran) /\ (wire = <<>> => Len(sent) = Len(ran))
          /\ (wire # <<>> => Len(sent) = Len(ran) + 1)
      BY DEF InTurn
    <2> QED BY <1>2, <1>5, <2>1
  <1>7. pc # "process" /\ pc # "send"
    <2>1. CASE pc = "process"
      <3>1. heard + Len(back) <= Len(ran) /\ Len(sent) = Len(ran) + 1
        BY <2>1 DEF InTurn
      <3> QED BY <1>2, <1>5, <3>1
    <2>2. CASE pc = "send"
      <3>1. heard + Len(back) < Len(ran) /\ Len(sent) = Len(ran)
        BY <2>2 DEF InTurn
      <3> QED BY <1>2, <1>5, <3>1
    <2> QED BY <2>1, <2>2
  <1>8. pc \in {"start", "recv"} => wire' = line /\ wire' # <<>>
    <2>1. <<>> \o line = line
      BY <1>3
    <2> QED BY <1>1, <1>3, <1>6, <2>1
  <1>9. pc \in {"start", "recv"} => heard + Len(back) <= Len(ran)
    BY DEF InTurn
  <1> QED BY <1>2, <1>4, <1>6, <1>7, <1>8, <1>9 DEF InTurn

(* What is taken from the wire is the line. *)
LEMMA SlurpKeepsTurn ==
  ASSUME TrafficOK, BytesOK, RanOK, InTurn, slurpsock, Careful, ~left
  PROVE  InTurn'
  <1>1. pc = "recv" /\ wire # <<>> /\ pc' = "process" /\ UNCHANGED <<back, left, mode, sent, heard, ran>>
    BY DEF slurpsock, client
  <1>2. PICK n \in Chunk : /\ cmd' = [j \in DOMAIN cmd |-> IF j <= n THEN wire[j] ELSE NUL]
                          /\ wire' = SubSeq(wire, n + 1, Len(wire))
    BY <1>1 DEF slurpsock
  <1>3. /\ Len(sent) = Len(ran) + 1 /\ wire = Last(sent)
        /\ heard + Len(back) <= Len(ran)
    BY <1>1 DEF InTurn
  <1>4. wire \in Lines /\ Len(wire) <= CMD_MAX_SIZE
    <2>1. Len(sent) > 0
      BY <1>3, Counts
    <2> QED BY <1>3, <2>1, LastLineFits
  <1>5. wire \in Seq(Int) /\ Len(wire) \in Nat
    BY <1>4, LineFacts
  <1>6. n = Len(wire)
    <2> DEFINE S == {Len(wire), CMD_MAX_SIZE}
    <2>1. n = Min(S)
      BY DEF Chunk, Careful
    <2>2. S \in SUBSET Nat /\ Len(wire) \in S /\ \A m \in S : Len(wire) <= m
      BY <1>4, <1>5, SizesAssumption
    <2> HIDE DEF S
    <2> QED BY <2>1, <2>2, MinIs
  <1>7. wire' = <<>>
    <2>1. PICK w : w = wire
      OBVIOUS
    <2>2. SubSeq(w, Len(w) + 1, Len(w)) = <<>>
      BY <1>5, <2>1
    <2> QED BY <1>2, <1>6, <2>1, <2>2
  <1>8. Received(cmd', Last(sent'))
    <2>1. DOMAIN cmd = 1 .. CMD_MAX_SIZE
      BY DEF BytesOK
    <2> QED BY <1>1, <1>2, <1>3, <1>6, <2>1 DEF Received
  <1> QED BY <1>1, <1>3, <1>7, <1>8 DEF InTurn

\* What the step that has run the last line does.
RunsLast ==
  LET line == UpTo(Last(sent), {NewLine})
  IN  IF IsCommand(line)
        THEN Len(ran') = Len(sent) /\ Spells(line, Last(ran').func, Last(ran').args)
        ELSE ran' = ran /\ pc' = "closing"

(* What is in the buffer of a careful client is the last line, and is run as *)
(* it spells it.                                                             *)
LEMMA ProcessRunsLast ==
  ASSUME BytesOK, RanOK, TrafficOK, InTurn, Process, Careful, ~left
  PROVE  RunsLast
  <1>1. PICK l : l = Last(sent)
    OBVIOUS
  <1>2. Len(sent) = Len(ran) + 1 /\ Received(cmd, l)
    BY <1>1 DEF Process, InTurn
  <1>3. l \in Lines /\ Len(l) <= CMD_MAX_SIZE
    <2>1. Len(sent) > 0
      BY <1>2, Counts
    <2> QED BY <1>1, <2>1, LastLineFits
  <1>4. /\ cmd \in Seq(Int) /\ Len(cmd) <= CMD_MAX_SIZE
        /\ sanitize(cmd) = UpTo(l, {NewLine})
    BY <1>2, <1>3, LineFacts, SanitizedLine
  <1>5. PICK oom : oom = ("oom" \in mode)
    OBVIOUS
  <1>6. ~oom
    BY <1>5 DEF Careful
  <1>7. PICK call \in process(cmd, oom) :
          \/ call = NoCall /\ pc' = "closing" /\ ran' = ran
          \/ call # NoCall /\ ran' = Append(ran, call)
    BY <1>5 DEF Process
  <1>8. PICK line : line = UpTo(l, {NewLine})
    OBVIOUS
  <1>9. IF IsCommand(line) THEN call # NoCall /\ Spells(line, call.func, call.args) ELSE call = NoCall
    BY <1>4, <1>6, <1>8, ProcessGives
  <1>10. CASE IsCommand(line)
    <2>1. ran' = Append(ran, call) /\ Spells(line, call.func, call.args)
      BY <1>7, <1>9, <1>10
    <2>2. PICK R : ran \in Seq(R)
      BY DEF RanOK
    <2>3. Last(Append(ran, call)) = call /\ Len(Append(ran, call)) = Len(ran) + 1
      <3>1. PICK U, r : U = R \cup {call} /\ r = ran
        OBVIOUS
      <3>2. r \in Seq(U) /\ call \in U
        BY <2>2, <3>1
      <3> QED BY <3>1, <3>2, LastOfMore
    <2>4. Len(ran') = Len(sent) /\ Spells(line, Last(ran').func, Last(ran').args)
      BY <1>2, <2>1, <2>3
    <2> QED BY <1>1, <1>8, <1>10, <2>4 DEF RunsLast
  <1>11. CASE ~IsCommand(line)
    <2>1. ran' = ran /\ pc' = "closing"
      BY <1>7, <1>9, <1>11
    <2> QED BY <1>1, <1>8, <1>11, <2>1 DEF RunsLast
  <1> QED BY <1>10, <1>11

(* A call that is made gives an answer, which the client has not read. *)
LEMMA ProcessKeepsTurn ==
  ASSUME TrafficOK, RanOK, InTurn, Process, Careful, ~left
  PROVE  InTurn'
  <1>1. pc = "process" /\ UNCHANGED <<cmd, wire, back, left, mode, sent, heard>>
    BY DEF Process, client
  <1>2. wire = <<>> /\ Len(sent) = Len(ran) + 1 /\ heard + Len(back) <= Len(ran)
    BY <1>1 DEF InTurn
  <1>3. pc' = "closing" \/ (pc' = "send" /\ \E call : ran' = Append(ran, call))
    BY DEF Process
  <1>4. CASE pc' = "closing"
    BY <1>4 DEF InTurn
  <1>5. CASE pc' = "send" /\ \E call : ran' = Append(ran, call)
    <2>1. Len(ran') = Len(ran) + 1
      BY <1>5, Counts
    <2>2. heard + Len(back) < Len(ran')
      BY <1>2, <2>1, Counts
    <2> QED BY <1>1, <1>2, <1>5, <2>1, <2>2 DEF InTurn
  <1> QED BY <1>3, <1>4, <1>5

(* Reading an answer leaves one less to read. *)
LEMMA ReadKeepsTurn ==
  ASSUME TrafficOK, RanOK, InTurn, ClientReads, Careful, ~left
  PROVE  InTurn'
  <1>1. /\ back # <<>> /\ back' = Tail(back)
        /\ heard' = heard \/ heard' = heard + 1
        /\ UNCHANGED <<pc, cmd, out, wire, left, mode, sent, ran>>
    BY Counts DEF ClientReads
  <1>2. PICK b, c : b = Len(back) /\ c = Len(back')
    OBVIOUS
  <1>3. c = b - 1 /\ b \in Nat /\ heard \in Nat /\ Len(ran) \in Nat
    BY <1>1, <1>2, Counts
  <1>4. heard' + c <= heard + b
    BY <1>1, <1>3
  <1>5. /\ pc \in {"start", "recv", "process"} => heard' + c <= Len(ran)
        /\ pc = "send" => heard' + c < Len(ran)
    <2>1. /\ pc \in {"start", "recv", "process"} => heard + b <= Len(ran)
          /\ pc = "send" => heard + b < Len(ran)
      BY <1>2 DEF InTurn
    <2>2. PICK h, k, r : h = heard /\ k = heard' /\ r = Len(ran)
      OBVIOUS
    <2>3. h \in Nat /\ k \in Nat /\ r \in Nat /\ k + c <= h + b /\ c \in Int
      BY <1>1, <1>3, <1>4, <2>2
    <2>4. (h + b <= r => k + c <= r) /\ (h + b < r => k + c < r)
      BY ONLY <1>3, <2>3
    <2> QED BY <2>1, <2>2, <2>4
  <1>6. pc' = pc /\ wire' = wire /\ cmd' = cmd /\ sent' = sent /\ ran' = ran
    BY <1>1
  <1> QED BY <1>2, <1>5, <1>6 DEF InTurn

(* An answer that is sent is there to be read. *)
LEMMA RespondKeepsTurn ==
  ASSUME TrafficOK, RanOK, InTurn, Respond, Careful, ~left
  PROVE  InTurn'
  <1>1. /\ pc = "send" /\ pc' = "recv" /\ back' = IF out = <<>> THEN back ELSE Append(back, out)
        /\ UNCHANGED <<cmd, wire, left, mode, sent, heard, ran>>
    BY DEF Respond, barfsock, client
  <1>2. wire = <<>> /\ Len(sent) = Len(ran) /\ heard + Len(back) < Len(ran)
    BY <1>1 DEF InTurn
  <1>3. Len(back') <= Len(back) + 1 /\ Len(back') \in Nat
    BY <1>1, Counts
  <1>4. heard + Len(back') <= Len(ran)
    BY <1>2, <1>3, Counts
  <1> QED BY <1>1, <1>2, <1>4 DEF InTurn

LEMMA InTurnNext ==
  ASSUME BytesOK, RanOK, TrafficOK, InTurn, [Next]_vars
  PROVE  InTurn'
  <1> SUFFICES ASSUME Careful', ~left' PROVE InTurn'
    BY DEF InTurn
  <1>1. Careful /\ ~left
    BY CarefulBefore
  <1>2. CASE UNCHANGED <<pc, cmd, wire, back, sent, heard, ran>>
    BY <1>1, <1>2 DEF InTurn
  <1>3. CASE ClientSends
    BY <1>1, <1>3, SendKeepsTurn
  <1>4. CASE ClientReads
    BY <1>1, <1>4, ReadKeepsTurn
  <1>5. CASE ClientLeaves
    BY <1>5 DEF ClientLeaves
  <1>6. CASE Start
    <2>1. pc = "start" /\ UNCHANGED <<cmd, wire, back, sent, heard, ran>>
          /\ pc' \in {"recv", "gone", "closing"}
      BY <1>6 DEF Start, client
    <2> QED BY <1>1, <2>1 DEF InTurn
  <1>7. CASE slurpsock
    BY <1>1, <1>7, SlurpKeepsTurn
  <1>8. CASE TimesOut
    BY <1>8 DEF TimesOut, InTurn
  <1>9. CASE Process
    BY <1>1, <1>9, ProcessKeepsTurn
  <1>10. CASE Respond
    BY <1>1, <1>10, RespondKeepsTurn
  <1>11. CASE Close
    BY <1>1, <1>11 DEF Close, barfsock, InTurn
  <1> QED BY <1>2, <1>3, <1>4, <1>5, <1>6, <1>7, <1>8, <1>9, <1>10, <1>11 DEF Next, Nserve, vars

(* Each line of a careful client is run once, as it was sent, and only what *)
(* is no command ends the session at once (nserve, process).                *)
THEOREM LinesRunAsSent == Spec => RunsAsSent
  <1> DEFINE Inv == StreamInv /\ TrafficOK /\ InTurn
  <1>1. Init => Inv
    BY StreamInvInit, TrafficInit, InTurnInit
  <1>2. Inv /\ [Next]_vars => Inv'
    <2> SUFFICES ASSUME Inv, [Next]_vars PROVE Inv'
      OBVIOUS
    <2> QED BY StreamInvNext, TrafficNext, InTurnNext DEF StreamInv
  <1>3. Inv /\ [Next]_vars =>
          [Careful /\ pc = "process" /\ pc' # "process" /\ ~left =>
             LET line == UpTo(Last(sent), {NewLine})
             IN  IF IsCommand(line)
                   THEN /\ Len(ran') = Len(sent)
                        /\ Spells(line, Last(ran').func, Last(ran').args)
                   ELSE ran' = ran /\ pc' = "closing"]_vars
    <2> SUFFICES ASSUME Inv, [Next]_vars, Careful, pc = "process", pc' # "process", ~left
                 PROVE  RunsLast
      BY DEF RunsLast
    <2>1. Process
      BY DEF Next, Nserve, ClientSends, ClientReads, ClientLeaves, Start, slurpsock, TimesOut,
             Respond, Close, vars
    <2> QED BY <2>1, ProcessRunsLast DEF StreamInv
  <1> HIDE DEF Inv
  <1> QED BY <1>1, <1>2, <1>3, PTL DEF Spec, RunsAsSent
=============================================================================
