-------------------------------- MODULE Bstr --------------------------------
(***************************************************************************)
(* The part of src/bstrlib.c the server uses, as operators on bstrings: a  *)
(* sequence of characters and the size of the memory behind it, in which   *)
(* there must be room for a NUL, too.  A call that allocates gives the set *)
(* of its results: oom says whether malloc and realloc may fail.           *)
(***************************************************************************)
EXTENDS Integers, Sequences, SequencesExt, Selection

CONSTANT IntMax   \* INT_MAX

ASSUME IntMaxAssumption == IntMax \in Nat /\ IntMax > 8

BSTR_OK  == 0
BSTR_ERR == -1

Bstring == [data : Seq(Int), mlen : Nat]
NullBstr == [data |-> <<>>, mlen |-> 0]      \* the null pointer
blength(b) == Len(b.data)

\* What every bstring must be: there is room for the NUL, and its size is an int.
Valid(b) == b \in Bstring /\ Len(b.data) + 1 <= b.mlen /\ b.mlen <= IntMax

----------------------------------------------------------------------------
PowersOfTwo ==
  {16, 32, 64, 128, 256, 512, 1024, 2048, 4096, 8192, 16384, 32768, 65536,
   131072, 262144, 524288, 1048576, 2097152, 4194304, 8388608, 16777216,
   33554432, 67108864, 134217728, 268435456, 536870912, 1073741824}

\* The power of two above n, unless it is no int: then n itself.
NextPower(n) == {p \in PowersOfTwo : n < p /\ p <= 2 * n /\ p <= IntMax}

snapUpSize(n) ==
  IF n < 8 THEN 8 ELSE IF NextPower(n) = {} THEN n ELSE CHOOSE p \in NextPower(n) : TRUE

\* The sizes memory may be got in when "best" is asked for first, and then
\* "least"; 0 is a failure.
Sizes(best, least, oom) == {best} \cup (IF oom THEN {least, 0} ELSE {})

\* balloc, as the set of sizes b may have afterwards, 0 for BSTR_ERR.
balloc(b, olen, oom) ==
  IF b.mlen = 0 \/ olen <= 0 \/ olen > IntMax THEN {0}
  ELSE IF olen < b.mlen \/ snapUpSize(olen) <= b.mlen THEN {b.mlen}
  ELSE Sizes(snapUpSize(olen), olen, oom)

\* A C string of characters s becomes a bstring.
bfromcstr(s, oom) ==
  LET size == snapUpSize(Len(s) + (IF s = <<>> THEN 2 ELSE 1))
  IN  IF size <= Len(s) \/ size > IntMax THEN {NullBstr}
      ELSE {[data |-> s, mlen |-> size]} \cup (IF oom THEN {NullBstr} ELSE {})

bstrcpy(b, oom) ==
  IF b = NullBstr THEN {NullBstr}
  ELSE {IF m = 0 THEN NullBstr ELSE [data |-> b.data, mlen |-> m] :
          m \in Sizes(snapUpSize(blength(b) + 1), blength(b) + 1, oom)}

\* Mutant: the NUL is forgotten.
bconcat_NoNul(b0, b1, oom) ==
  LET len == blength(b0) + blength(b1)
  IN  {IF m = 0 THEN [rc |-> BSTR_ERR, b |-> b0]
       ELSE [rc |-> BSTR_OK, b |-> [data |-> b0.data \o b1.data, mlen |-> m]] :
         m \in IF b0.mlen < len THEN balloc(b0, len, oom) ELSE {b0.mlen}}

\* bconcat and bconchar change b0 and return rc; b1 lies elsewhere.
bconcat(b0, b1, oom) ==
  LET len == blength(b0) + blength(b1)
  IN  IF b0 = NullBstr \/ b1 = NullBstr \/ len > IntMax
        THEN {[rc |-> BSTR_ERR, b |-> b0]}
        ELSE {IF m = 0 THEN [rc |-> BSTR_ERR, b |-> b0]
              ELSE [rc |-> BSTR_OK, b |-> [data |-> b0.data \o b1.data, mlen |-> m]] :
                m \in IF b0.mlen <= len + 1 THEN balloc(b0, len + 1, oom) ELSE {b0.mlen}}

bconchar(b, c, oom) ==
  {IF m = 0 THEN [rc |-> BSTR_ERR, b |-> b]
   ELSE [rc |-> BSTR_OK, b |-> [data |-> Append(b.data, c), mlen |-> m]] :
     m \in balloc(b, blength(b) + 2, oom)}

\* Its characters, with z for each NUL.
bstr2cstr(b, z) == [j \in 1 .. blength(b) |-> IF b.data[j] = 0 THEN z ELSE b.data[j]]

----------------------------------------------------------------------------
(* Operators on the characters alone. *)

wspace(c) == c = 32 \/ c \in 9 .. 13
downcase(c) == IF c \in 65 .. 90 THEN c + 32 ELSE c

\* btrimws: what is left of s between its first and its last character that is
\* no white space.
btrimws(s) ==
  LET black == {j \in DOMAIN s : ~wspace(s[j])}
  IN  IF black = {} THEN <<>> ELSE SubSeq(s, Min(black), Max(black))

\* bstricmp gives 0.
EqualIgnoringCase(s, t) ==
  Len(s) = Len(t) /\ \A j \in DOMAIN s : downcase(s[j]) = downcase(t[j])

\* The substrings of s that bsplitcb finds between the characters c: one more
\* than there are such characters, and some of them empty.
Pieces(s, c) ==
  LET P[n \in Nat] ==
        IF n = 0 THEN [done |-> <<>>, open |-> <<>>]
        ELSE LET p == P[n - 1]
             IN  IF s[n] = c THEN [done |-> Append(p.done, p.open), open |-> <<>>]
                 ELSE [done |-> p.done, open |-> Append(p.open, s[n])]
      p == P[Len(s)]
  IN  Append(p.done, p.open)

----------------------------------------------------------------------------
(* Lists of bstrings. *)

\* An array of mlen pointers of which the first are in use; the null list has
\* none.
NullList == [entry |-> <<>>, mlen |-> 0]
ListFits(l) == Len(l.entry) <= l.mlen
bstrListCreate == [entry |-> <<>>, mlen |-> 1]

\* bstrListAlloc: room for n entries, or NullList for BSTR_ERR.
bstrListAlloc(l, n, oom) ==
  IF n <= 0 THEN {NullList}
  ELSE IF n <= l.mlen THEN {l}
  ELSE {IF m = 0 THEN NullList ELSE [l EXCEPT !.mlen = m] : m \in Sizes(snapUpSize(n), n, oom)}

\* bscb: the size of a list of bsplit that has come to n entries.
Doubled(n) ==
  LET D[k \in Nat] == IF k <= 4 THEN 4 ELSE IF k > D[k - 1] THEN 2 * D[k - 1] ELSE D[k - 1]
  IN  D[n]

\* The sequences with an element of each set of S.
OneOfEach(S) ==
  LET C[n \in Nat] == IF n = 0 THEN {<<>>} ELSE {Append(c, x) : c \in C[n - 1], x \in S[n]}
  IN  C[Len(S)]

\* A piece as a bstring of its own: bmidstr uses bfromcstr for the empty one.
blk2bstr(p, oom) ==
  {IF m = 0 THEN NullBstr ELSE [data |-> p, mlen |-> m] :
     m \in {snapUpSize(Len(p) + 1)} \cup (IF oom THEN {0} ELSE {})}
bmidstr(p, oom) == IF p = <<>> THEN bfromcstr(p, oom) ELSE blk2bstr(p, oom)

\* bsplit: the entry of a piece that no memory was found for is a null pointer,
\* and nobody notices; when there is none for the list, there is no list.
bsplit(s, c, oom) ==
  LET pieces == Pieces(s, c)
  IN  {[entry |-> e, mlen |-> Doubled(Len(e))] : e \in OneOfEach([j \in DOMAIN pieces |-> bmidstr(pieces[j], oom)])}
      \cup (IF oom THEN {NullList} ELSE {})
=============================================================================
