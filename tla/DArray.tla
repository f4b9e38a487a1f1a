------------------------------- MODULE DArray -------------------------------
(***************************************************************************)
(* The dynamic array of src/darray.c and src/darray.h, and a caller that   *)
(* uses one of them.  An array is a record; its contents are a function on *)
(* as many indices as there is memory for, which max is meant to be the    *)
(* number of.  A call that allocates gives the set of its results.         *)
(***************************************************************************)
EXTENDS Integers, Sequences, FiniteSets

CONSTANTS
  Elements,             \* what the caller puts in: numbers, to be compared
  NULL,
  Junk,                 \* a pointer nobody has written
  DEFAULT_EXPAND_RATE,
  InitialMax,           \* sizes an array is created with
  MaxEnd,               \* bound: the elements of an array
  Oom                   \* whether calloc and realloc may fail

ASSUME ElementsAssumption == Elements \subseteq Int /\ {NULL, Junk} \cap Elements = {}
ASSUME RateAssumption == DEFAULT_EXPAND_RATE \in Nat \ {0}
ASSUME InitialMaxAssumption == InitialMax \subseteq Nat \ {0}
ASSUME OomAssumption == MaxEnd \in Nat /\ Oom \in BOOLEAN

Slots(n) == 0 .. n - 1

DArray_create(n) == [contents |-> [j \in Slots(n) |-> NULL], end |-> 0, max |-> n]

Result(rc, a) == [rc |-> rc, array |-> a]

\* DArray_resize: max is set before realloc is asked; what realloc adds is not
\* cleared.
DArray_resize(a, n) ==
  IF n < a.end THEN {Result(-1, a)}
  ELSE {Result(0, [a EXCEPT !.max = n,
                            !.contents = [j \in Slots(n) |->
                              IF j \in DOMAIN a.contents THEN a.contents[j] ELSE Junk]])}
       \cup (IF Oom THEN {Result(-1, [a EXCEPT !.max = n])} ELSE {})

\* Mutant: memset begins at the beginning.
DArray_expand_WipesAll(a) ==
  {IF r.rc = 0 THEN [r EXCEPT !.array.contents = [j \in DOMAIN @ |-> NULL]] ELSE r :
     r \in DArray_resize(a, a.max + DEFAULT_EXPAND_RATE)}

DArray_expand(a) ==
  {IF r.rc = 0
     THEN [r EXCEPT !.array.contents = [j \in DOMAIN @ |-> IF j < a.max THEN @[j] ELSE NULL]]
     ELSE r : r \in DArray_resize(a, a.max + DEFAULT_EXPAND_RATE)}

\* It makes an array of less than DEFAULT_EXPAND_RATE elements longer.
DArray_contract(a) ==
  DArray_resize(a, (IF a.end < DEFAULT_EXPAND_RATE THEN DEFAULT_EXPAND_RATE ELSE a.end) + 1)

DArray_push_Late(a, el) ==                                          \* mutant
  LET b == [a EXCEPT !.contents[a.end] = el, !.end = @ + 1]
  IN  IF b.end > b.max THEN DArray_expand(b) ELSE {Result(0, b)}

\* The element is written before there is room for the next one.
DArray_push(a, el) ==
  LET b == [a EXCEPT !.contents[a.end] = el, !.end = @ + 1]
  IN  IF b.end >= b.max THEN DArray_expand(b) ELSE {Result(0, b)}

DArray_remove_Keeps(a, i) == a                                      \* mutant
DArray_remove(a, i) == [a EXCEPT !.contents[i] = NULL]

\* The result of DArray_contract is not looked at; the element is a.contents at
\* the old end.
DArray_pop(a) ==
  LET b == [DArray_remove(a, a.end - 1) EXCEPT !.end = @ - 1]
  IN  IF a.end = 0 THEN {a}
      ELSE IF b.end > DEFAULT_EXPAND_RATE /\ b.end % DEFAULT_EXPAND_RATE # 0
             THEN {r.array : r \in DArray_contract(b)}
             ELSE {b}

\* An element set behind the end is not counted: end is its index.
DArray_set(a, i, el) ==
  [a EXCEPT !.contents[i] = el, !.end = IF i > @ THEN i ELSE @]

DArray_get(a, i) == a.contents[i]

\* Its end stays 0.
DArray_shallow_copy(a) == [DArray_create(a.max) EXCEPT !.contents = [j \in Slots(a.max) |-> DArray_get(a, j)]]

\* s is what is left to look at, from low to high.
DArray_find_Early(a, el) ==                                         \* mutant
  LET F[s \in Int \X Int] ==
        LET middle == s[1] + (s[2] - s[1]) \div 2
        IN  IF s[1] >= s[2] THEN -1
            ELSE IF el < a.contents[middle] THEN F[<<s[1], middle - 1>>]
            ELSE IF el > a.contents[middle] THEN F[<<middle + 1, s[2]>>]
            ELSE middle
  IN  F[<<0, a.end - 1>>]

DArray_find(a, el) ==
  LET F[s \in Int \X Int] ==
        LET middle == s[1] + (s[2] - s[1]) \div 2
        IN  IF s[1] > s[2] THEN -1
            ELSE IF el < a.contents[middle] THEN F[<<s[1], middle - 1>>]
            ELSE IF el > a.contents[middle] THEN F[<<middle + 1, s[2]>>]
            ELSE middle
  IN  F[<<0, a.end - 1>>]

\* heapsort of the C library: the first n contents in order.
InOrder(c, n) == \A j, k \in Slots(n) : j < k => c[j] <= c[k]
Rearranged(c, d, n) ==
  \A x \in {c[j] : j \in Slots(n)} \cup {d[j] : j \in Slots(n)} :
    Cardinality({j \in Slots(n) : c[j] = x}) = Cardinality({j \in Slots(n) : d[j] = x})

\* Where the j-th of the first n contents goes in an order of them by value.
Place(c, n, j) ==
  Cardinality({k \in Slots(n) : c[k] < c[j] \/ (c[k] = c[j] /\ k < j)})

DArray_heapsort(a) ==
  [a EXCEPT !.contents = [j \in DOMAIN @ |->
     IF j < a.end THEN @[CHOOSE k \in Slots(a.end) : Place(@, a.end, k) = j] ELSE @[j]]]

----------------------------------------------------------------------------
(* A caller and its array. *)

VARIABLES
  array,   \* the array, or NULL
  items,   \* history: what the caller would find in it
  spoilt   \* history: "grow" (memory was not to be had), "clear" (the elements
           \* are freed), "contract" (it has made the array longer)

avars == <<array, items, spoilt>>

ArrayInit == array = NULL /\ items = <<>> /\ spoilt = {}

Spoil(what) == spoilt' = spoilt \cup what

\* Whether memory was missing, and max is too large from now on.
Torn(a) == IF a.max > Cardinality(DOMAIN a.contents) THEN {"grow"} ELSE {}

\* Nothing defined happens behind the memory, or with an element that is freed.
InMemory == array # NULL /\ "grow" \notin spoilt
Sound == \A j \in Slots(array.end) : array.contents[j] \in Elements

Create ==
  /\ array = NULL
  /\ \E n \in InitialMax : array' = DArray_create(n)
  /\ items' = <<>> /\ spoilt' = {}

Push ==
  /\ InMemory /\ array.end < MaxEnd
  /\ \E el \in Elements : \E r \in DArray_push(array, el) :
       /\ array' = r.array /\ Spoil(Torn(r.array))
       /\ items' = Append(items, el)

Pop ==
  /\ InMemory
  /\ array' \in DArray_pop(array)
  /\ items' = SubSeq(items, 1, Len(items) - 1)
  /\ UNCHANGED spoilt

\* Bound: what is set is there, as with the callers in src/.
Set ==
  /\ InMemory
  /\ \E i \in Slots(array.end), el \in Elements :
       array' = DArray_set(array, i, el) /\ items' = [items EXCEPT ![i + 1] = el]
  /\ UNCHANGED spoilt

Remove ==
  /\ InMemory
  /\ \E i \in Slots(array.end) :
       array' = DArray_remove(array, i) /\ items' = [items EXCEPT ![i + 1] = NULL]
  /\ UNCHANGED spoilt

Resize ==
  /\ InMemory /\ array.max <= MaxEnd
  /\ \/ \E r \in DArray_expand(array) : array' = r.array /\ Spoil(Torn(r.array))
     \/ \E r \in DArray_contract(array) :
          /\ array' = r.array
          /\ Spoil(Torn(r.array) \cup (IF r.array.max > array.max THEN {"contract"} ELSE {}))
  /\ UNCHANGED items

SortAdd ==
  /\ InMemory /\ array.end < MaxEnd /\ Sound
  /\ \E el \in Elements : \E r \in DArray_push(array, el) :
       /\ array' = IF r.rc = 0 THEN DArray_heapsort(r.array) ELSE r.array
       /\ Spoil(Torn(r.array))
       /\ items' = IF r.rc = 0 THEN [j \in 1 .. array'.end |-> array'.contents[j - 1]]
                               ELSE Append(items, el)

\* The pointers stay where they are.
Clear ==
  /\ InMemory /\ spoilt = {} /\ Sound
  /\ array' = [array EXCEPT !.contents = [j \in DOMAIN @ |-> IF @[j] = NULL THEN NULL ELSE Junk]]
  /\ items' = [j \in DOMAIN items |-> Junk]
  /\ Spoil({"clear"})

Destroy == array # NULL /\ array' = NULL /\ items' = <<>> /\ spoilt' = {}

ArrayNext == Create \/ Push \/ Pop \/ Set \/ Remove \/ Resize \/ SortAdd \/ Clear \/ Destroy

----------------------------------------------------------------------------
(* PROPERTIES of the array *)

\* As long as memory could be had there is room for the element that comes
\* next, which DArray_push writes without looking.
PushStaysInside ==
  InMemory => /\ array.end < array.max
              /\ array.max <= Cardinality(DOMAIN array.contents)

\* The array holds what was put in, in that order, however it was resized.
HoldsItems ==
  InMemory =>
    /\ array.end = Len(items)
    /\ \A j \in Slots(array.end) : array.contents[j] = items[j + 1]

\* The slots behind the end are zero, so that DArray_clear, which goes through
\* all of them, frees no element the caller has popped, and no junk.
UnusedAreNull ==
  InMemory /\ "contract" \notin spoilt =>
    \A j \in array.end .. array.max - 1 : array.contents[j] = NULL

\* In a sorted array DArray_find finds an element if it is there.
FindFinds ==
  InMemory /\ Sound /\ InOrder(array.contents, array.end) =>
    \A el \in Elements :
      LET i == DArray_find(array, el)
      IN  IF \E j \in Slots(array.end) : array.contents[j] = el
            THEN i \in Slots(array.end) /\ array.contents[i] = el
            ELSE i = -1
=============================================================================
