------------------------------- MODULE Sorting -------------------------------
(***************************************************************************)
(* The sorts of src/darray_algos.c, as operators on the contents of an     *)
(* array of module DArray; cmp is the order of the numbers.                *)
(***************************************************************************)
EXTENDS DArray

Swap(c, j, k) == [c EXCEPT ![j] = c[k], ![k] = c[j]]

\* What may become of the contents when elements change places.
Arrangements(c) == [DOMAIN c -> {c[j] : j \in DOMAIN c}]

\* Mutant: the pivot stays at the end.
DArray_fucked_qsort_partition_NoSwap(c, low, high) ==
  LET P[j \in low .. high] ==
        IF j = low THEN [c |-> c, i |-> low - 1]
        ELSE LET s == P[j - 1]
             IN  IF s.c[j - 1] < c[high] THEN [c |-> Swap(s.c, j - 1, s.i + 1), i |-> s.i + 1] ELSE s
  IN  [c |-> P[high].c, p |-> P[high].i + 1]

\* The contents after the partition, and where the pivot is; i is the end of
\* what is less than it, among the first up to j.
DArray_fucked_qsort_partition(c, low, high) ==
  LET P[j \in low .. high] ==
        IF j = low THEN [c |-> c, i |-> low - 1]
        ELSE LET s == P[j - 1]
             IN  IF s.c[j - 1] < c[high] THEN [c |-> Swap(s.c, j - 1, s.i + 1), i |-> s.i + 1] ELSE s
      d == P[high].c
      p == P[high].i + 1
  IN  [c |-> IF d[high] < d[p] THEN Swap(d, high, p) ELSE d, p |-> p]

\* The pivot stays, and what is on each side of it is sorted; s is the contents,
\* low and high of a call.
DArray_fucked_qsort_recurse(c, low, high) ==
  LET Q[s \in Arrangements(c) \X (low .. high + 1) \X (low - 1 .. high)] ==
        LET r == DArray_fucked_qsort_partition(s[1], s[2], s[3])
        IN  IF s[2] >= s[3] THEN s[1]
            ELSE Q[<<Q[<<r.c, s[2], r.p - 1>>], r.p + 1, s[3]>>]
  IN  Q[<<c, low, high>>]

DArray_fucked_qsort(a) == DArray_fucked_qsort_recurse(a.contents, 0, a.end - 1)

----------------------------------------------------------------------------
\* The greatest of c[top] and its children up to end.
Larger(c, top, end) ==
  LET child == 2 * top + 1
      left == IF c[top] < c[child] THEN child ELSE top
  IN  IF child + 1 <= end /\ c[left] < c[child + 1] THEN child + 1 ELSE left

\* s is the contents and the root in a round of the loop.
DArray_fucked_heapsort_sift_down(c, top, end) ==
  LET D[s \in Arrangements(c) \X (top .. end)] ==
        LET larger == Larger(s[1], s[2], end)
        IN  IF 2 * s[2] + 1 > end \/ larger = s[2] THEN s[1]
            ELSE D[<<Swap(s[1], s[2], larger), larger>>]
  IN  D[<<c, top>>]

\* From the parent of the last element down to the first; of one element the
\* parent is 0, because the quotient of floats is cut towards it.  H[n]: n of
\* them have been sifted down.
DArray_fucked_heapsort_heapify(c, count) ==
  LET start == IF count = 1 THEN 0 ELSE (count - 2) \div 2
      H[n \in 0 .. start + 1] ==
        IF n = 0 THEN c ELSE DArray_fucked_heapsort_sift_down(H[n - 1], start + 1 - n, count - 1)
  IN  H[start + 1]

\* S[n]: the n greatest have gone to the end.
DArray_fucked_heapsort(a) ==
  LET S[n \in 0 .. a.end - 1] ==
        IF n = 0 THEN DArray_fucked_heapsort_heapify(a.contents, a.end)
        ELSE DArray_fucked_heapsort_sift_down(Swap(S[n - 1], a.end - n, 0), 0, a.end - n - 1)
  IN  IF a.end = 0 THEN a.contents ELSE S[a.end - 1]

----------------------------------------------------------------------------
\* The contents of b after those of a between begin and middle, and between
\* middle and end, have been merged into them; m is (i, j), the next of each.
DArray_fucked_topdown_merge(a, b, begin, middle, end) ==
  LET M[k \in begin .. end] ==
        IF k = begin THEN [b |-> b, i |-> begin, j |-> middle]
        ELSE LET m == M[k - 1]
             IN  IF m.i < middle /\ (m.j >= end \/ a[m.i] < a[m.j])
                   THEN [b |-> [m.b EXCEPT ![k - 1] = a[m.i]], i |-> m.i + 1, j |-> m.j]
                   ELSE [b |-> [m.b EXCEPT ![k - 1] = a[m.j]], i |-> m.i, j |-> m.j + 1]
  IN  M[end].b

\* What may become of two arrays when elements are copied from one to the other.
Copied(b, a) ==
  LET V == {a[j] : j \in DOMAIN a} \cup {b[j] : j \in DOMAIN b}
  IN  [DOMAIN a -> V] \cup [DOMAIN b -> V]

\* The contents of b and a afterwards, which the levels of the recursion swap; s
\* is b, a, begin and end of a call.
DArray_fucked_topdown_split_merge(b, a, begin, end) ==
  LET M[s \in Copied(b, a) \X Copied(b, a) \X (begin .. end) \X (begin .. end)] ==
        LET middle == (s[4] + s[3]) \div 2
            left == M[<<s[2], s[1], s[3], middle>>]
            right == M[<<left[1], left[2], middle, s[4]>>]
        IN  IF s[4] - s[3] < 2 THEN <<s[1], s[2]>>
            ELSE <<right[2],
                   DArray_fucked_topdown_merge(right[2], right[1], s[3], middle, s[4])>>
  IN  M[<<b, a, begin, end>>]

DArray_fucked_mergesort(a) ==
  DArray_fucked_topdown_split_merge(DArray_shallow_copy(a).contents, a.contents, 0, a.end)[2]

----------------------------------------------------------------------------
(* PROPERTY *)

\* Each sort puts the elements of the array in order, loses none and leaves the
\* slots behind the end alone.
SortsSort ==
  InMemory /\ Sound =>
    \A c \in {DArray_fucked_qsort(array), DArray_fucked_heapsort(array),
              DArray_fucked_mergesort(array), DArray_heapsort(array).contents} :
      /\ InOrder(c, array.end)
      /\ Rearranged(c, array.contents, array.end)
      /\ \A j \in DOMAIN array.contents : j >= array.end => c[j] = array.contents[j]
=============================================================================
