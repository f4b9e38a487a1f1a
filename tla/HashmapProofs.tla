---------------------------- MODULE HashmapProofs ----------------------------
(***************************************************************************)
(* What the dynamic array of module DArray and the map of module Hashmap   *)
(* keep true, and what the sorts of module Sorting do, for any elements,   *)
(* keys, hashes, rates and numbers of buckets and however often there is   *)
(* no memory.                                                              *)
(***************************************************************************)
EXTENDS Hashmap, Sorting, Recursion, FiniteSetTheorems, FunctionTheorems

----------------------------------------------------------------------------
(* The operations of an array that has memory for m elements. *)

Arrays(m, V) == [contents : [Slots(m) -> V], end : Nat, max : Nat]

LEMMA SlotsSize == \A m \in Nat : Cardinality(Slots(m)) = m
  BY FS_Interval DEF Slots

LEMMA ResizeFacts ==
  ASSUME NEW V, Junk \in V, NEW m \in Nat, NEW a \in Arrays(m, V), NEW n \in Nat,
         NEW r \in DArray_resize(a, n)
  PROVE  /\ r.array.end = a.end
         /\ \/ /\ r.rc = 0 /\ r.array \in Arrays(n, V) /\ r.array.max = n
               /\ \A j \in Slots(n) : r.array.contents[j] = IF j \in Slots(m) THEN a.contents[j] ELSE Junk
            \/ /\ r.rc = -1 /\ r.array \in Arrays(m, V) /\ r.array.contents = a.contents
               /\ r.array.max = n \/ (r.array.max = a.max /\ n < a.end)
  <1> DEFINE c == [j \in Slots(n) |-> IF j \in DOMAIN a.contents THEN a.contents[j] ELSE Junk]
  <1>1. DOMAIN a.contents = Slots(m) /\ a.end \in Nat /\ a.max \in Nat
    BY DEF Arrays
  <1>2. c \in [Slots(n) -> V]
    BY DEF Arrays
  <1>3. CASE n < a.end
    BY <1>3 DEF DArray_resize, Result
  <1>4. CASE r = Result(0, [a EXCEPT !.max = n, !.contents = c])
    <2>1. /\ r.rc = 0 /\ r.array.max = n /\ r.array.contents = c /\ r.array.end = a.end
          /\ r.array \in Arrays(n, V)
      BY <1>2, <1>4 DEF Result, Arrays
    <2> QED BY <1>1, <2>1
  <1>5. CASE r = Result(-1, [a EXCEPT !.max = n])
    BY <1>5 DEF Result, Arrays
  <1> QED BY <1>3, <1>4, <1>5 DEF DArray_resize

LEMMA ExpandFacts ==
  ASSUME NEW V, {Junk, NULL} \subseteq V, NEW m \in Nat, NEW a \in Arrays(m, V),
         a.end <= a.max, NEW r \in DArray_expand(a)
  PROVE  /\ r.array.end = a.end
         /\ r.array.max = a.max + DEFAULT_EXPAND_RATE
         /\ \/ /\ r.rc = 0 /\ r.array \in Arrays(r.array.max, V)
               /\ \A j \in Slots(r.array.max) :
                    r.array.contents[j] = IF j >= a.max THEN NULL
                                          ELSE IF j < m THEN a.contents[j] ELSE Junk
            \/ r.rc = -1 /\ r.array \in Arrays(m, V) /\ r.array.contents = a.contents
  <1> DEFINE n == a.max + DEFAULT_EXPAND_RATE
  <1>1. n \in Nat /\ ~(n < a.end) /\ a.max \in Nat
    BY RateAssumption DEF Arrays
  <1>2. PICK q \in DArray_resize(a, n) :
          r = IF q.rc = 0
                THEN [q EXCEPT !.array.contents = [j \in DOMAIN @ |-> IF j < a.max THEN @[j] ELSE NULL]]
                ELSE q
    BY DEF DArray_expand
  <1>3. /\ q.array.end = a.end
        /\ \/ /\ q.rc = 0 /\ q.array \in Arrays(n, V) /\ q.array.max = n
              /\ \A j \in Slots(n) : q.array.contents[j] = IF j \in Slots(m) THEN a.contents[j] ELSE Junk
           \/ /\ q.rc = -1 /\ q.array \in Arrays(m, V) /\ q.array.contents = a.contents
              /\ q.array.max = n
    BY <1>1, ResizeFacts
  <1>4. CASE q.rc = 0
    <2> DEFINE c == [j \in Slots(n) |-> IF j < a.max THEN q.array.contents[j] ELSE NULL]
    <2>1. q.array \in Arrays(n, V) /\ q.array.max = n
      BY <1>3, <1>4
    <2>2. c \in [Slots(n) -> V]
      BY <2>1 DEF Arrays
    <2>3. DOMAIN q.array.contents = Slots(n)
      BY <2>1 DEF Arrays
    <2>4. q = [rc |-> 0, array |-> q.array]
      BY <1>4 DEF DArray_resize, Result
    <2>5. r = [rc |-> 0, array |-> [q.array EXCEPT !.contents = c]]
      BY <1>2, <1>4, <2>3, <2>4
    <2>6. /\ r.rc = 0 /\ r.array.max = n /\ r.array.end = q.array.end /\ r.array.contents = c
          /\ r.array \in Arrays(n, V)
      BY <2>1, <2>2, <2>5 DEF Arrays
    <2>7. \A j \in Slots(n) : c[j] = IF j >= a.max THEN NULL ELSE IF j < m THEN a.contents[j] ELSE Junk
      <3>1. \A j \in Slots(n) : j \in Nat /\ (j \in Slots(m) <=> j < m)
        BY <1>1 DEF Slots
      <3> QED BY <1>1, <1>3, <1>4, <3>1
    <2> HIDE DEF n, c
    <2> QED BY <1>3, <2>6, <2>7 DEF n
  <1>5. CASE q.rc # 0
    BY <1>2, <1>3, <1>5
  <1> QED BY <1>4, <1>5

(* The slots of an array that are behind its end. *)
UnusedNull(a, m) == \A j \in a.end .. m - 1 : a.contents[j] = NULL

LEMMA PushFacts ==
  ASSUME NEW V, {Junk, NULL} \subseteq V, NEW m \in Nat, NEW a \in Arrays(m, V),
         a.end < a.max, a.end < m, NEW el \in V, NEW r \in DArray_push(a, el)
  PROVE  /\ r.array.end = a.end + 1 /\ r.array.end < r.array.max
         /\ \E n \in Nat :
              /\ r.array \in Arrays(n, V) /\ a.end < n
              /\ r.rc = 0 /\ a.max <= m => r.array.max <= n
              /\ UnusedNull(a, m) => UnusedNull(r.array, n)
         /\ \A j \in Slots(a.end) : r.array.contents[j] = a.contents[j]
         /\ r.array.contents[a.end] = el
  <1> DEFINE b == [a EXCEPT !.contents[a.end] = el, !.end = @ + 1]
  <1>1. /\ a.end \in Nat /\ a.max \in Nat /\ a.end \in Slots(m) /\ DEFAULT_EXPAND_RATE \in Nat \ {0}
        /\ DOMAIN a.contents = Slots(m)
    BY RateAssumption DEF Arrays, Slots
  <1>2. /\ b \in Arrays(m, V) /\ b.end = a.end + 1 /\ b.max = a.max /\ b.contents[a.end] = el
        /\ \A j \in Slots(m) : j # a.end => b.contents[j] = a.contents[j]
    <2> DEFINE c == [a.contents EXCEPT ![a.end] = el]
    <2>1. c \in [Slots(m) -> V] /\ c[a.end] = el /\ \A j \in Slots(m) : j # a.end => c[j] = a.contents[j]
      BY <1>1 DEF Arrays
    <2>2. b.contents = c /\ b.end = a.end + 1 /\ b.max = a.max /\ b = [contents |-> c, end |-> a.end + 1, max |-> a.max]
      <3>1. b = [a EXCEPT !.contents = c, !.end = a.end + 1]
        OBVIOUS
      <3> HIDE DEF b, c
      <3> QED BY <3>1 DEF Arrays
    <2> HIDE DEF b, c
    <2>3. b \in Arrays(m, V)
      BY <1>1, <2>1, <2>2 DEF Arrays
    <2> QED BY <2>1, <2>2, <2>3
  <1>3. UnusedNull(a, m) => UnusedNull(b, m)
    BY <1>1, <1>2 DEF UnusedNull, Slots
  <1>4. r \in IF b.end >= b.max THEN DArray_expand(b) ELSE {Result(0, b)}
    BY DEF DArray_push
  <1>5. Slots(a.end) \subseteq Slots(m) /\ a.end \notin Slots(a.end)
    BY <1>1 DEF Slots
  <1> HIDE DEF b
  <1>6. CASE b.end < b.max
    <2>1. r.rc = 0 /\ r.array = b
      BY <1>1, <1>2, <1>4, <1>6 DEF Result
    <2> QED BY <1>1, <1>2, <1>3, <1>5, <1>6, <2>1
  <1>7. CASE b.end >= b.max
    <2>1. r \in DArray_expand(b) /\ b.end <= b.max /\ b.end >= b.max
      BY <1>1, <1>2, <1>4, <1>7
    <2>2. r.array.end = b.end /\ r.array.max = b.max + DEFAULT_EXPAND_RATE
      BY <1>2, <2>1, ExpandFacts
    <2>3. CASE /\ r.rc = 0 /\ r.array \in Arrays(r.array.max, V)
               /\ \A j \in Slots(r.array.max) :
                    r.array.contents[j] = IF j >= b.max THEN NULL
                                          ELSE IF j < m THEN b.contents[j] ELSE Junk
      <3>1. \A j \in Slots(b.end) : r.array.contents[j] = b.contents[j]
        BY <1>1, <1>2, <2>1, <2>2, <2>3 DEF Slots
      <3>2. UnusedNull(r.array, r.array.max)
        BY <1>1, <1>2, <2>1, <2>2, <2>3 DEF UnusedNull, Slots
      <3>3. a.end \in Slots(b.end) /\ Slots(a.end) \subseteq Slots(b.end)
        BY <1>1, <1>2 DEF Slots
      <3>4. r.array.max \in Nat /\ a.end < r.array.max /\ r.array.end < r.array.max
        BY <1>1, <1>2, <2>1, <2>2
      <3> QED BY <1>1, <1>2, <1>5, <2>2, <2>3, <3>1, <3>2, <3>3, <3>4
    <2>4. CASE r.rc = -1 /\ r.array \in Arrays(m, V) /\ r.array.contents = b.contents
      <3>1. UnusedNull(b, m) => UnusedNull(r.array, m)
        BY <2>2, <2>4 DEF UnusedNull
      <3>2. r.array.end < r.array.max
        BY <1>1, <1>2, <2>1, <2>2
      <3> QED BY <1>1, <1>2, <1>3, <1>5, <2>2, <2>4, <3>1, <3>2
    <2> QED BY <1>2, <2>1, <2>3, <2>4, ExpandFacts
  <1> QED BY <1>1, <1>2, <1>6, <1>7

(* What DArray_contract leaves: the elements, and room for one more. *)
LEMMA ContractFacts ==
  ASSUME NEW V, {Junk, NULL} \subseteq V, NEW m \in Nat, NEW a \in Arrays(m, V),
         a.end <= m, NEW r \in DArray_contract(a)
  PROVE  /\ r.array.end = a.end /\ r.array.end < r.array.max
         /\ a.end >= DEFAULT_EXPAND_RATE => r.array.max = a.end + 1
         /\ \E n \in Nat :
              /\ r.array \in Arrays(n, V) /\ (n = m \/ n = r.array.max)
              /\ UnusedNull(a, m) /\ r.array.max <= m => UnusedNull(r.array, n)
         /\ \A j \in Slots(a.end) : r.array.contents[j] = a.contents[j]
  <1> DEFINE n == (IF a.end < DEFAULT_EXPAND_RATE THEN DEFAULT_EXPAND_RATE ELSE a.end) + 1
  <1>1. a.end \in Nat /\ DEFAULT_EXPAND_RATE \in Nat \ {0} /\ DOMAIN a.contents = Slots(m)
    BY RateAssumption DEF Arrays
  <1>2. n \in Nat /\ ~(n < a.end) /\ a.end < n /\ (a.end >= DEFAULT_EXPAND_RATE => n = a.end + 1)
    BY <1>1
  <1>3. r \in DArray_resize(a, n)
    BY DEF DArray_contract
  <1> HIDE DEF n
  <1>4. Slots(a.end) \subseteq Slots(m) /\ Slots(a.end) \subseteq Slots(n)
    BY <1>1, <1>2 DEF Slots
  <1>5. r.array.end = a.end
    BY <1>2, <1>3, ResizeFacts
  <1>6. CASE /\ r.rc = 0 /\ r.array \in Arrays(n, V) /\ r.array.max = n
             /\ \A j \in Slots(n) : r.array.contents[j] = IF j \in Slots(m) THEN a.contents[j] ELSE Junk
    <2>1. UnusedNull(a, m) /\ n <= m => UnusedNull(r.array, n)
      BY <1>1, <1>2, <1>5, <1>6 DEF UnusedNull, Slots
    <2> QED BY <1>1, <1>2, <1>4, <1>5, <1>6, <2>1
  <1>7. CASE r.array \in Arrays(m, V) /\ r.array.contents = a.contents /\ r.array.max = n
    <2>1. UnusedNull(a, m) => UnusedNull(r.array, m)
      BY <1>5, <1>7 DEF UnusedNull
    <2> QED BY <1>1, <1>2, <1>4, <1>5, <1>7, <2>1
  <1> QED BY <1>2, <1>3, <1>6, <1>7, ResizeFacts

LEMMA PopFacts ==
  ASSUME NEW V, {Junk, NULL} \subseteq V, NEW m \in Nat, NEW a \in Arrays(m, V),
         a.end < a.max, a.end <= m, NEW r \in DArray_pop(a)
  PROVE  /\ r.end = IF a.end = 0 THEN 0 ELSE a.end - 1
         /\ r.end < r.max
         /\ \E n \in Nat :
              /\ r \in Arrays(n, V) /\ r.end <= n
              /\ a.max <= m => r.max <= n
              /\ UnusedNull(a, m) => UnusedNull(r, n)
         /\ \A j \in Slots(r.end) : r.contents[j] = a.contents[j]
  <1> DEFINE b == [DArray_remove(a, a.end - 1) EXCEPT !.end = @ - 1]
  <1>1. /\ a.end \in Nat /\ a.max \in Nat /\ DEFAULT_EXPAND_RATE \in Nat \ {0}
        /\ DOMAIN a.contents = Slots(m)
    BY RateAssumption DEF Arrays
  <1>2. CASE a.end = 0
    BY <1>1, <1>2 DEF DArray_pop, Slots
  <1>3. CASE a.end # 0
    <2>1. a.end - 1 \in Slots(m) /\ a.end - 1 \in Nat
      BY <1>1, <1>3 DEF Slots
    <2>2. /\ b \in Arrays(m, V) /\ b.end = a.end - 1 /\ b.max = a.max /\ b.contents[a.end - 1] = NULL
          /\ \A j \in Slots(m) : j # a.end - 1 => b.contents[j] = a.contents[j]
      BY <1>1, <2>1 DEF Arrays, DArray_remove
    <2>3. UnusedNull(a, m) => UnusedNull(b, m)
      BY <1>1, <2>1, <2>2 DEF UnusedNull, Slots
    <2>4. \A j \in Slots(b.end) : b.contents[j] = a.contents[j]
      BY <1>1, <2>1, <2>2 DEF Slots
    <2>5. \/ r = b
          \/ /\ b.end > DEFAULT_EXPAND_RATE
             /\ \E q \in DArray_contract(b) : r = q.array
      BY <1>3 DEF DArray_pop
    <2> HIDE DEF b
    <2>6. CASE r = b
      BY <1>1, <1>3, <2>1, <2>2, <2>3, <2>4, <2>6
    <2>7. CASE b.end > DEFAULT_EXPAND_RATE /\ \E q \in DArray_contract(b) : r = q.array
      <3>1. PICK q \in DArray_contract(b) : r = q.array
        BY <2>7
      <3>2. b.end <= m
        BY <1>1, <2>1, <2>2
      <3>3. r.end = b.end /\ r.end < r.max
        BY <2>2, <3>1, <3>2, ContractFacts
      <3>4. r.max = b.end + 1
        BY <1>1, <2>1, <2>2, <2>7, <3>1, <3>2, ContractFacts
      <3>5. \A j \in Slots(b.end) : r.contents[j] = b.contents[j]
        BY <2>2, <3>1, <3>2, ContractFacts
      <3>6. PICK n \in Nat : /\ r \in Arrays(n, V) /\ (n = m \/ n = r.max)
                             /\ UnusedNull(b, m) /\ r.max <= m => UnusedNull(r, n)
        BY <2>2, <3>1, <3>2, ContractFacts
      <3>7. r.max <= m /\ r.max <= n /\ r.end <= n
        BY <1>1, <2>1, <2>2, <3>3, <3>4, <3>6
      <3> QED BY <1>3, <2>2, <2>3, <2>4, <3>3, <3>5, <3>6, <3>7
    <2> QED BY <2>5, <2>6, <2>7
  <1> QED BY <1>2, <1>3

(* A function from the slots to the slots that is one to one leaves none out. *)
LEMMA OneToOneIsOnto ==
  ASSUME NEW n \in Nat, NEW p \in [Slots(n) -> Slots(n)],
         \A i, j \in Slots(n) : p[i] = p[j] => i = j
  PROVE  \A i \in Slots(n) : \E j \in Slots(n) : p[j] = i
  <1>1. IsFiniteSet(Slots(n))
    BY FS_Interval DEF Slots
  <1>2. p \in Injection(Slots(n), Slots(n))
    BY Fun_IsInj
  <1>3. p \in Surjection(Slots(n), Slots(n))
    BY <1>1, <1>2, FS_Injection
  <1> QED BY <1>3, Fun_SurjectionProperties

(* Sorting gives every place among the first n to one of them. *)
LEMMA PlaceIsOnto ==
  ASSUME NEW n \in Nat, NEW c, \A j \in Slots(n) : c[j] \in Int
  PROVE  \A i \in Slots(n) : \E j \in Slots(n) : Place(c, n, j) = i
  <1> DEFINE Less(j) == {k \in Slots(n) : c[k] < c[j] \/ (c[k] = c[j] /\ k < j)}
             p == [j \in Slots(n) |-> Place(c, n, j)]
  <1>1. IsFiniteSet(Slots(n)) /\ Cardinality(Slots(n)) = n /\ Slots(n) \subseteq Int
    BY FS_Interval DEF Slots
  <1>2. \A j \in Slots(n) : Place(c, n, j) = Cardinality(Less(j))
    BY DEF Place
  <1>3. \A j \in Slots(n) : Less(j) \subseteq Slots(n) /\ j \notin Less(j)
    BY <1>1
  <1>4. \A j, k \in Slots(n) : k \in Less(j) => Less(k) \subseteq Less(j)
    BY <1>1
  <1>5. \A j, k \in Slots(n) : j # k => j \in Less(k) \/ k \in Less(j)
    BY <1>1
  <1> HIDE DEF Less
  <1>6. ASSUME NEW j \in Slots(n) PROVE IsFiniteSet(Less(j)) /\ Cardinality(Less(j)) \in Nat /\ Cardinality(Less(j)) < n
    <2>1. Less(j) \in SUBSET Slots(n) /\ Less(j) # Slots(n)
      BY <1>3
    <2>2. IsFiniteSet(Less(j)) /\ Cardinality(Less(j)) <= n /\ Cardinality(Less(j)) # n
      BY <1>1, <2>1, FS_Subset
    <2> QED BY <2>2, FS_CardinalityType
  <1>7. ASSUME NEW j \in Slots(n), NEW k \in Slots(n), k \in Less(j)
        PROVE  Cardinality(Less(k)) # Cardinality(Less(j))
    <2>1. Less(k) \in SUBSET Less(j) /\ Less(k) # Less(j)
      BY <1>3, <1>4, <1>7
    <2> QED BY <1>6, <2>1, FS_Subset
  <1>8. p \in [Slots(n) -> Slots(n)] /\ \A i, j \in Slots(n) : p[i] = p[j] => i = j
    <2>1. \A j \in Slots(n) : Place(c, n, j) \in Slots(n)
      BY <1>2, <1>6 DEF Slots
    <2> QED BY <1>2, <1>5, <1>7, <2>1
  <1>9. \A i \in Slots(n) : \E j \in Slots(n) : p[j] = i
    <2> HIDE DEF p
    <2> QED BY <1>8, OneToOneIsOnto
  <1> QED BY <1>9

(* The heapsort of the C library moves the elements and nothing else. *)
LEMMA HeapsortFacts ==
  ASSUME NEW V, NEW m \in Nat, NEW a \in Arrays(m, V), a.end <= m,
         \A j \in Slots(a.end) : a.contents[j] \in Int
  PROVE  LET s == DArray_heapsort(a)
         IN  /\ s \in Arrays(m, V) /\ s.end = a.end /\ s.max = a.max
             /\ \A j \in Slots(s.end) : \E k \in Slots(a.end) : s.contents[j] = a.contents[k]
             /\ \A j \in Slots(m) : j >= a.end => s.contents[j] = a.contents[j]
  <1> DEFINE d == [j \in Slots(m) |->
                     IF j < a.end
                       THEN a.contents[CHOOSE k \in Slots(a.end) : Place(a.contents, a.end, k) = j]
                       ELSE a.contents[j]]
             s == DArray_heapsort(a)
  <1>1. a.end \in Nat /\ DOMAIN a.contents = Slots(m) /\ a.contents \in [Slots(m) -> V]
    BY DEF Arrays
  <1>2. Slots(a.end) \subseteq Slots(m) /\ \A j \in Slots(m) : j \in Int /\ (j < a.end => j \in Slots(a.end))
    BY <1>1 DEF Slots
  <1>3. ASSUME NEW j \in Slots(a.end)
        PROVE  \E k \in Slots(a.end) : d[j] = a.contents[k]
    <2>1. \E k \in Slots(a.end) : Place(a.contents, a.end, k) = j
      BY <1>1, PlaceIsOnto
    <2>2. j \in Slots(m) /\ j < a.end
      BY <1>1, <1>2 DEF Slots
    <2> QED BY <2>1, <2>2
  <1>4. \A j \in Slots(m) : j >= a.end => d[j] = a.contents[j]
    BY <1>1, <1>2
  <1>5. \A j \in Slots(m) : j < a.end \/ j >= a.end
    BY <1>1, <1>2
  <1>6. s = [a EXCEPT !.contents = d]
    BY <1>1 DEF DArray_heapsort
  <1>7. d = [j \in Slots(m) |-> d[j]]
    OBVIOUS
  <1> HIDE DEF d
  <1>8. d \in [Slots(m) -> V]
    <2>1. \A j \in Slots(m) : d[j] \in V
      BY <1>1, <1>2, <1>3, <1>4, <1>5
    <2> QED BY <1>7, <2>1
  <1>9. s.end = a.end /\ s.max = a.max /\ s.contents = d /\ s \in Arrays(m, V)
    BY <1>6, <1>8 DEF Arrays
  <1> QED BY <1>3, <1>4, <1>9

----------------------------------------------------------------------------
(* The caller and its array. *)

Contents == Elements \cup {NULL, Junk}

(* The memory there is for the array is known to nobody: m is for how many. *)
Holding(m) ==
  /\ array \in Arrays(m, Contents)
  /\ InMemory =>
       /\ array.end < array.max /\ array.max <= m
       /\ array.end = Len(items)
       /\ \A j \in Slots(array.end) : array.contents[j] = items[j + 1]
       /\ "contract" \notin spoilt => UnusedNull(array, m)

ArrayInv ==
  /\ items \in Seq(Contents)
  /\ array # NULL => \E m \in Nat : Holding(m)

LEMMA ArrayInvGivesProperties ==
  ASSUME ArrayInv
  PROVE  PushStaysInside /\ HoldsItems /\ UnusedAreNull
  <1> SUFFICES ASSUME InMemory
               PROVE  PushStaysInside /\ HoldsItems /\ UnusedAreNull
    BY DEF PushStaysInside, HoldsItems, UnusedAreNull
  <1>1. PICK m \in Nat : Holding(m)
    BY DEF ArrayInv, InMemory
  <1>2. Cardinality(DOMAIN array.contents) = m
    BY <1>1, SlotsSize DEF Holding, Arrays
  <1>3. PushStaysInside
    BY <1>1, <1>2 DEF PushStaysInside, Holding
  <1>4. HoldsItems
    BY <1>1 DEF HoldsItems, Holding
  <1>5. UnusedAreNull
    <2>1. array.max \in Nat /\ array.end \in Nat /\ array.max <= m
      BY <1>1 DEF Holding, Arrays
    <2>2. array.end .. array.max - 1 \subseteq array.end .. m - 1
      BY <2>1
    <2> QED BY <1>1, <2>2 DEF UnusedAreNull, Holding, UnusedNull
  <1> QED BY <1>3, <1>4, <1>5

LEMMA TornFacts ==
  ASSUME NEW V, NEW n \in Nat, NEW a \in Arrays(n, V)
  PROVE  Torn(a) \subseteq {"grow"} /\ ("grow" \in Torn(a) <=> a.max > n)
  <1>1. Cardinality(DOMAIN a.contents) = n
    BY SlotsSize DEF Arrays
  <1> QED BY <1>1 DEF Torn

(* What an operation on the array has to do for the invariant. *)
LEMMA Keeps ==
  ASSUME NEW m \in Nat, array' \in Arrays(m, Contents), items' \in Seq(Contents),
         "grow" \notin spoilt' =>
           /\ array'.end < array'.max /\ array'.max <= m
           /\ array'.end = Len(items')
           /\ \A j \in Slots(array'.end) : array'.contents[j] = items'[j + 1],
         "grow" \notin spoilt' /\ "contract" \notin spoilt' => UnusedNull(array', m)
  PROVE  ArrayInv'
  <1>1. Holding(m)'
    BY DEF Holding, InMemory, UnusedNull
  <1> QED BY <1>1 DEF ArrayInv

(* The array while nothing is wrong with its memory. *)
Usable(m) ==
  /\ array \in Arrays(m, Contents)
  /\ array.end \in Nat /\ array.max \in Nat /\ array.end < m
  /\ array.end < array.max /\ array.max <= m
  /\ array.end = Len(items)
  /\ \A j \in Slots(array.end) : array.contents[j] = items[j + 1]
  /\ "contract" \notin spoilt => UnusedNull(array, m)

LEMMA InMemoryHolds ==
  ASSUME ArrayInv, InMemory
  PROVE  \E m \in Nat : Usable(m)
  <1>1. PICK m \in Nat : Holding(m)
    BY DEF ArrayInv, InMemory
  <1>2. array.end \in Nat /\ array.max \in Nat
    BY <1>1 DEF Holding, Arrays
  <1> QED BY <1>1, <1>2 DEF Holding, Usable

LEMMA CreateKeeps == ArrayInv /\ Create => ArrayInv'
  <1> SUFFICES ASSUME ArrayInv, Create PROVE ArrayInv'
    OBVIOUS
  <1>1. PICK n \in InitialMax : array' = DArray_create(n)
    BY DEF Create
  <1>2. n \in Nat \ {0} /\ items' = <<>> /\ spoilt' = {}
    BY InitialMaxAssumption DEF Create
  <1>3. array' \in Arrays(n, Contents) /\ array'.end = 0 /\ array'.max = n /\ UnusedNull(array', n)
    BY <1>1, <1>2 DEF DArray_create, Arrays, Contents, UnusedNull, Slots
  <1> QED BY <1>2, <1>3, Keeps DEF Slots

LEMMA PushKeeps ==
  ASSUME ArrayInv, InMemory, NEW el \in Elements, NEW r \in DArray_push(array, el),
         array' = r.array, spoilt' = spoilt \cup Torn(r.array), items' = Append(items, el)
  PROVE  ArrayInv'
  <1>1. PICK m \in Nat : Usable(m)
    BY InMemoryHolds
  <1> USE DEF Usable
  <1>2. {Junk, NULL} \subseteq Contents /\ el \in Contents /\ items \in Seq(Contents)
    BY DEF Contents, ArrayInv
  <1>3. /\ array'.end = array.end + 1 /\ array'.end < array'.max
        /\ \A j \in Slots(array.end) : array'.contents[j] = array.contents[j]
        /\ array'.contents[array.end] = el
    BY <1>1, <1>2, PushFacts
  <1>4. PICK n \in Nat :
          /\ array' \in Arrays(n, Contents) /\ array.end < n
          /\ array.max <= m /\ UnusedNull(array, m) => UnusedNull(array', n)
    BY <1>1, <1>2, PushFacts
  <1>5. items' \in Seq(Contents) /\ Len(items') = Len(items) + 1 /\ items'[Len(items) + 1] = el
        /\ \A j \in 1 .. Len(items) : items'[j] = items[j]
    BY <1>2
  <1>6. array'.max \in Nat /\ ("grow" \notin spoilt' => array'.max <= n)
    <2>1. array'.max \in Nat
      BY <1>4 DEF Arrays
    <2>2. "grow" \notin spoilt' => ~(array'.max > n)
      BY <1>4, TornFacts
    <2> QED BY <2>1, <2>2
  <1>7. ASSUME NEW j \in Slots(array'.end)
        PROVE  array'.contents[j] = items'[j + 1]
    <2>1. j \in Int /\ (j = array.end \/ (j \in Slots(array.end) /\ j + 1 \in 1 .. Len(items)))
      BY <1>1, <1>3 DEF Slots
    <2> QED BY <1>1, <1>3, <1>5, <2>1
  <1>8. "contract" \notin spoilt' => UnusedNull(array', n)
    BY <1>1, <1>4
  <1> QED BY <1>1, <1>3, <1>4, <1>5, <1>6, <1>7, <1>8, Keeps

LEMMA PopKeeps == ArrayInv /\ Pop => ArrayInv'
  <1> SUFFICES ASSUME ArrayInv, Pop PROVE ArrayInv'
    OBVIOUS
  <1>1. PICK m \in Nat : Usable(m)
    BY InMemoryHolds DEF Pop
  <1> USE DEF Usable
  <1>2. /\ {Junk, NULL} \subseteq Contents /\ items \in Seq(Contents) /\ array' \in DArray_pop(array)
        /\ items' = SubSeq(items, 1, Len(items) - 1) /\ spoilt' = spoilt
    BY DEF Contents, ArrayInv, Pop
  <1>3. /\ array'.end = IF array.end = 0 THEN 0 ELSE array.end - 1
        /\ array'.end < array'.max
        /\ \A j \in Slots(array'.end) : array'.contents[j] = array.contents[j]
    BY <1>1, <1>2, PopFacts
  <1>4. PICK n \in Nat :
          /\ array' \in Arrays(n, Contents)
          /\ array'.max <= n
          /\ UnusedNull(array, m) => UnusedNull(array', n)
    BY <1>1, <1>2, PopFacts
  <1>5. /\ items' \in Seq(Contents) /\ Len(items') = array'.end
        /\ \A j \in 1 .. array'.end : items'[j] = items[j]
    BY <1>1, <1>2, <1>3
  <1>6. ASSUME NEW j \in Slots(array'.end)
        PROVE  array'.contents[j] = items'[j + 1]
    <2>1. j + 1 \in 1 .. array'.end /\ j \in Slots(array.end)
      BY <1>1, <1>3 DEF Slots
    <2> QED BY <1>1, <1>3, <1>5, <2>1
  <1> QED BY <1>1, <1>2, <1>3, <1>4, <1>5, <1>6, Keeps

(* An element that is there is written over. *)
LEMMA WriteKeeps ==
  ASSUME ArrayInv, InMemory, NEW i \in Slots(array.end), NEW el \in Contents,
         array' = [array EXCEPT !.contents = [array.contents EXCEPT ![i] = el]],
         items' = [items EXCEPT ![i + 1] = el], spoilt' = spoilt
  PROVE  ArrayInv'
  <1>1. PICK m \in Nat : Usable(m)
    BY InMemoryHolds
  <1> USE DEF Usable
  <1>2. items \in Seq(Contents) /\ i \in Int /\ i >= 0 /\ i < array.end /\ i \in Slots(m)
    BY <1>1 DEF ArrayInv, Slots
  <1> DEFINE c == [array.contents EXCEPT ![i] = el]
  <1>3. c \in [Slots(m) -> Contents] /\ c[i] = el /\ \A j \in Slots(m) : j # i => c[j] = array.contents[j]
    BY <1>1, <1>2 DEF Arrays
  <1> HIDE DEF c
  <1>4. array' \in Arrays(m, Contents) /\ array'.contents = c /\ array'.end = array.end /\ array'.max = array.max
    BY <1>1, <1>3 DEF c, Arrays
  <1>5. items' \in Seq(Contents) /\ Len(items') = Len(items) /\ items'[i + 1] = el
        /\ \A j \in 1 .. Len(items) : j # i + 1 => items'[j] = items[j]
    BY <1>1, <1>2
  <1>6. ASSUME NEW j \in Slots(array'.end)
        PROVE  array'.contents[j] = items'[j + 1]
    <2>1. j \in Slots(m) /\ j \in Slots(array.end) /\ j + 1 \in 1 .. Len(items) /\ (j + 1 = i + 1 <=> j = i)
      BY <1>1, <1>2, <1>4 DEF Slots
    <2> QED BY <1>1, <1>3, <1>4, <1>5, <2>1
  <1>7. UnusedNull(array, m) => UnusedNull(array', m)
    BY <1>1, <1>2, <1>3, <1>4 DEF UnusedNull, Slots
  <1> QED BY <1>1, <1>4, <1>5, <1>6, <1>7, Keeps

LEMMA SetKeeps == ArrayInv /\ Set => ArrayInv'
  <1> SUFFICES ASSUME ArrayInv, Set PROVE ArrayInv'
    OBVIOUS
  <1>1. PICK i \in Slots(array.end), el \in Elements :
          array' = DArray_set(array, i, el) /\ items' = [items EXCEPT ![i + 1] = el]
    BY DEF Set
  <1>2. InMemory /\ spoilt' = spoilt /\ el \in Contents
    BY DEF Set, Contents
  <1>3. array.end \in Nat /\ i \in Int /\ ~(i > array.end) /\ \E m \in Nat : array \in Arrays(m, Contents)
    BY <1>2, InMemoryHolds DEF Slots, Usable
  <1>4. array' = [array EXCEPT !.contents = [array.contents EXCEPT ![i] = el]]
    BY <1>1, <1>3 DEF DArray_set, Arrays
  <1> QED BY <1>1, <1>2, <1>4, WriteKeeps

LEMMA RemoveKeeps == ArrayInv /\ Remove => ArrayInv'
  <1> SUFFICES ASSUME ArrayInv, Remove PROVE ArrayInv'
    OBVIOUS
  <1>1. PICK i \in Slots(array.end) : array' = DArray_remove(array, i) /\ items' = [items EXCEPT ![i + 1] = NULL]
    BY DEF Remove
  <1>2. InMemory /\ spoilt' = spoilt /\ NULL \in Contents
    BY DEF Remove, Contents
  <1>3. array' = [array EXCEPT !.contents = [array.contents EXCEPT ![i] = NULL]]
    BY <1>1 DEF DArray_remove
  <1> QED BY <1>1, <1>2, <1>3, WriteKeeps

LEMMA ResizeKeeps == ArrayInv /\ Resize => ArrayInv'
  <1> SUFFICES ASSUME ArrayInv, Resize PROVE ArrayInv'
    OBVIOUS
  <1>1. PICK m \in Nat : Usable(m)
    BY InMemoryHolds DEF Resize
  <1> USE DEF Usable
  <1>2. {Junk, NULL} \subseteq Contents /\ items' = items /\ items \in Seq(Contents)
    BY DEF Contents, ArrayInv, Resize
  <1>3. DEFAULT_EXPAND_RATE \in Nat \ {0}
    BY RateAssumption
  <1>4. CASE \E r \in DArray_expand(array) : array' = r.array /\ Spoil(Torn(r.array))
    <2>1. PICK r \in DArray_expand(array) : array' = r.array /\ spoilt' = spoilt \cup Torn(array')
      BY <1>4 DEF Spoil
    <2>2. array'.end = array.end /\ array'.max = array.max + DEFAULT_EXPAND_RATE
      BY <1>1, <1>2, <2>1, ExpandFacts
    <2>3. CASE /\ array' \in Arrays(array'.max, Contents)
               /\ \A j \in Slots(array'.max) :
                    array'.contents[j] = IF j >= array.max THEN NULL
                                         ELSE IF j < m THEN array.contents[j] ELSE Junk
      <3>1. \A j \in Slots(array.end) : array'.contents[j] = array.contents[j]
        <4>1. \A j \in Slots(array.end) : j \in Slots(array'.max) /\ ~(j >= array.max) /\ j < m
          BY <1>1, <1>3, <2>2 DEF Slots
        <4> QED BY <2>3, <4>1
      <3>2. UnusedNull(array, m) => UnusedNull(array', array'.max)
        BY <1>1, <1>3, <2>2, <2>3 DEF UnusedNull, Slots
      <3>3. array'.max \in Nat /\ array'.end < array'.max
        BY <1>1, <1>3, <2>2
      <3> QED BY <1>1, <1>2, <2>1, <2>2, <2>3, <3>1, <3>2, <3>3, Keeps
    <2>4. CASE array' \in Arrays(m, Contents) /\ array'.contents = array.contents
      <3>1. UnusedNull(array, m) => UnusedNull(array', m)
        BY <2>2, <2>4 DEF UnusedNull
      <3>2. "grow" \notin spoilt' => ~(array'.max > m)
        BY <2>1, <2>4, TornFacts
      <3>3. array'.end < array'.max /\ (~(array'.max > m) => array'.max <= m)
        BY <1>1, <1>3, <2>2
      <3> QED BY <1>1, <1>2, <2>1, <2>2, <2>4, <3>1, <3>2, <3>3, Keeps
    <2> QED BY <1>1, <1>2, <2>1, <2>3, <2>4, ExpandFacts
  <1>5. CASE \E r \in DArray_contract(array) :
               /\ array' = r.array
               /\ Spoil(Torn(r.array) \cup (IF r.array.max > array.max THEN {"contract"} ELSE {}))
    <2>1. PICK r \in DArray_contract(array) :
            /\ array' = r.array
            /\ spoilt' = spoilt \cup Torn(array') \cup (IF array'.max > array.max THEN {"contract"} ELSE {})
      BY <1>5 DEF Spoil
    <2>2. /\ array'.end = array.end /\ array'.end < array'.max
          /\ \A j \in Slots(array.end) : array'.contents[j] = array.contents[j]
      BY <1>1, <1>2, <2>1, ContractFacts
    <2>3. PICK n \in Nat : /\ array' \in Arrays(n, Contents) /\ (n = m \/ n = array'.max)
                           /\ UnusedNull(array, m) /\ array'.max <= m => UnusedNull(array', n)
      BY <1>1, <1>2, <2>1, ContractFacts
    <2>4. array'.max \in Nat /\ ("grow" \notin spoilt' => array'.max <= n)
      <3>1. array'.max \in Nat
        BY <2>3 DEF Arrays
      <3>2. "grow" \notin spoilt' => ~(array'.max > n)
        BY <2>1, <2>3, TornFacts
      <3> QED BY <3>1, <3>2
    <2>5. "contract" \notin spoilt' => UnusedNull(array', n)
      <3>1. "contract" \notin spoilt' => ~(array'.max > array.max) /\ "contract" \notin spoilt
        BY <2>1
      <3>2. ~(array'.max > array.max) => array'.max <= m
        BY <1>1, <2>4
      <3> QED BY <1>1, <2>3, <3>1, <3>2
    <2> QED BY <1>1, <1>2, <2>2, <2>3, <2>4, <2>5, Keeps
  <1> QED BY <1>4, <1>5 DEF Resize

LEMMA SortAddKeeps == ArrayInv /\ SortAdd => ArrayInv'
  <1> SUFFICES ASSUME ArrayInv, SortAdd PROVE ArrayInv'
    OBVIOUS
  <1>1. PICK m \in Nat : Usable(m)
    BY InMemoryHolds DEF SortAdd
  <1> USE DEF Usable
  <1>2. PICK el \in Elements : \E r \in DArray_push(array, el) :
          /\ array' = IF r.rc = 0 THEN DArray_heapsort(r.array) ELSE r.array
          /\ spoilt' = spoilt \cup Torn(r.array)
          /\ items' = IF r.rc = 0 THEN [j \in 1 .. array'.end |-> array'.contents[j - 1]]
                                  ELSE Append(items, el)
    BY DEF SortAdd, Spoil
  <1>3. PICK r \in DArray_push(array, el) :
          /\ array' = IF r.rc = 0 THEN DArray_heapsort(r.array) ELSE r.array
          /\ spoilt' = spoilt \cup Torn(r.array)
          /\ items' = IF r.rc = 0 THEN [j \in 1 .. array'.end |-> array'.contents[j - 1]]
                                  ELSE Append(items, el)
    BY <1>2
  <1>4. CASE r.rc # 0
    BY <1>3, <1>4, PushKeeps DEF SortAdd
  <1>5. CASE r.rc = 0
    <2>1. {Junk, NULL} \subseteq Contents /\ el \in Contents /\ Elements \subseteq Int
      BY ElementsAssumption DEF Contents
    <2>2. /\ r.array.end = array.end + 1 /\ r.array.end < r.array.max
          /\ \A j \in Slots(array.end) : r.array.contents[j] = array.contents[j]
          /\ r.array.contents[array.end] = el
      BY <1>1, <2>1, PushFacts
    <2>3. PICK n \in Nat :
            /\ r.array \in Arrays(n, Contents) /\ array.end < n /\ r.array.max <= n
            /\ UnusedNull(array, m) => UnusedNull(r.array, n)
      BY <1>1, <1>5, <2>1, PushFacts
    <2>4. \A j \in Slots(r.array.end) : r.array.contents[j] \in Int
      <3>1. \A j \in Slots(r.array.end) : j \in Slots(array.end) \/ j = array.end
        BY <1>1, <2>2 DEF Slots
      <3> QED BY <2>1, <2>2, <3>1 DEF SortAdd, Sound
    <2>5. array' = DArray_heapsort(r.array) /\ r.array.end \in Nat /\ r.array.end <= n
      BY <1>1, <1>3, <1>5, <2>2, <2>3
    <2>6. /\ array' \in Arrays(n, Contents) /\ array'.end = r.array.end /\ array'.max = r.array.max
          /\ \A j \in Slots(n) : j >= r.array.end => array'.contents[j] = r.array.contents[j]
      BY <2>3, <2>4, <2>5, HeapsortFacts
    <2>7. UnusedNull(r.array, n) => UnusedNull(array', n)
      BY <2>5, <2>6 DEF UnusedNull, Slots
    <2>8. items' = [j \in 1 .. array'.end |-> array'.contents[j - 1]]
      BY <1>3, <1>5
    <2>9. items' \in Seq(Contents) /\ Len(items') = array'.end
          /\ \A j \in 1 .. array'.end : items'[j] = array'.contents[j - 1]
      <3>1. \A j \in 1 .. array'.end : array'.contents[j - 1] \in Contents
        <4>1. \A j \in 1 .. array'.end : j - 1 \in Slots(n)
          BY <2>5, <2>6 DEF Slots
        <4> QED BY <2>6, <4>1 DEF Arrays
      <3> QED BY <2>5, <2>6, <2>8, <3>1
    <2>10. \A j \in Slots(array'.end) : array'.contents[j] = items'[j + 1]
      <3>1. \A j \in Slots(array'.end) : j + 1 \in 1 .. array'.end /\ (j + 1) - 1 = j
        BY <2>5, <2>6 DEF Slots
      <3> QED BY <2>9, <3>1
    <2>11. "contract" \notin spoilt' => UnusedNull(array', n)
      BY <1>1, <1>3, <2>3, <2>7
    <2> QED BY <2>2, <2>3, <2>6, <2>9, <2>10, <2>11, Keeps
  <1> QED BY <1>4, <1>5

LEMMA ClearKeeps == ArrayInv /\ Clear => ArrayInv'
  <1> SUFFICES ASSUME ArrayInv, Clear PROVE ArrayInv'
    OBVIOUS
  <1>1. PICK m \in Nat : Usable(m)
    BY InMemoryHolds DEF Clear
  <1> USE DEF Usable
  <1> DEFINE c == [j \in Slots(m) |-> IF array.contents[j] = NULL THEN NULL ELSE Junk]
  <1>2. /\ DOMAIN array.contents = Slots(m) /\ items \in Seq(Contents) /\ {Junk, NULL} \subseteq Contents
        /\ spoilt = {} /\ "grow" \notin spoilt' /\ items' = [j \in DOMAIN items |-> Junk]
    BY <1>1 DEF Arrays, ArrayInv, Contents, Clear, Spoil
  <1>3. array' = [array EXCEPT !.contents = c]
    BY <1>2 DEF Clear
  <1>4. c \in [Slots(m) -> Contents]
    BY <1>2
  <1>5. array' \in Arrays(m, Contents) /\ array'.contents = c /\ array'.end = array.end /\ array'.max = array.max
    BY <1>1, <1>3, <1>4 DEF Arrays
  <1>6. /\ items' \in Seq(Contents) /\ Len(items') = Len(items)
        /\ \A j \in 1 .. Len(items) : items'[j] = Junk
    BY <1>2
  <1>7. ASSUME NEW j \in Slots(array'.end)
        PROVE  array'.contents[j] = items'[j + 1]
    <2>1. j \in Slots(m) /\ j \in Slots(array.end) /\ j + 1 \in 1 .. Len(items)
      BY <1>1, <1>5 DEF Slots
    <2>2. array.contents[j] # NULL
      BY <2>1, ElementsAssumption DEF Clear, Sound
    <2> QED BY <1>5, <1>6, <2>1, <2>2
  <1>8. UnusedNull(array, m) => UnusedNull(array', m)
    BY <1>1, <1>5 DEF UnusedNull, Slots
  <1> QED BY <1>1, <1>2, <1>5, <1>6, <1>7, <1>8, Keeps

(* Whatever is done with the array, and whatever memory there is for it. *)
LEMMA ArrayStep == ArrayInv /\ [ArrayNext]_avars => ArrayInv'
  <1> SUFFICES ASSUME ArrayInv, [ArrayNext]_avars PROVE ArrayInv'
    OBVIOUS
  <1>1. CASE Create
    BY <1>1, CreateKeeps
  <1>2. CASE Push
    BY <1>2, PushKeeps DEF Push, Spoil
  <1>3. CASE Pop
    BY <1>3, PopKeeps
  <1>4. CASE Set
    BY <1>4, SetKeeps
  <1>5. CASE Remove
    BY <1>5, RemoveKeeps
  <1>6. CASE Resize
    BY <1>6, ResizeKeeps
  <1>7. CASE SortAdd
    BY <1>7, SortAddKeeps
  <1>8. CASE Clear
    BY <1>8, ClearKeeps
  <1>9. CASE Destroy
    BY <1>9 DEF Destroy, ArrayInv
  <1>10. CASE UNCHANGED avars
    BY <1>10 DEF avars, ArrayInv, Holding, InMemory, UnusedNull
  <1> QED BY <1>1, <1>2, <1>3, <1>4, <1>5, <1>6, <1>7, <1>8, <1>9, <1>10 DEF ArrayNext

THEOREM ArrayInvariant == Spec => []ArrayInv
  <1>1. Init => ArrayInv
    BY DEF Init, ArrayInit, ArrayInv
  <1>2. ArrayInv /\ [Next]_vars => ArrayInv'
    <2>1. [Next]_vars => [ArrayNext]_avars
      BY DEF Next, vars, avars
    <2> QED BY <2>1, ArrayStep
  <1> QED BY <1>1, <1>2, PTL DEF Spec

(* There is room for the element that DArray_push will write without looking, *)
(* in the array and in its memory.                                            *)
THEOREM PushAlwaysStaysInside == Spec => []PushStaysInside
  BY ArrayInvariant, ArrayInvGivesProperties, PTL

(* The array holds what its caller has put in, in that order, through growing, *)
(* shrinking and sorting, and whether or not there was memory for them.        *)
THEOREM ArrayHoldsItems == Spec => []HoldsItems
  BY ArrayInvariant, ArrayInvGivesProperties, PTL

(* The slots behind the end are zero until DArray_contract made it longer. *)
THEOREM UnusedSlotsAreNull == Spec => []UnusedAreNull
  BY ArrayInvariant, ArrayInvGivesProperties, PTL

----------------------------------------------------------------------------
(* The binary search. *)

Middle(low, high) == low + (high - low) \div 2

Looks(a, el, F) ==
  \A low, high \in Int :
    F[<<low, high>>] = IF low > high THEN -1
                       ELSE IF el < a.contents[Middle(low, high)] THEN F[<<low, Middle(low, high) - 1>>]
                       ELSE IF el > a.contents[Middle(low, high)] THEN F[<<Middle(low, high) + 1, high>>]
                       ELSE Middle(low, high)

(* The recursion ends: what is left to look at gets shorter. *)
LEMMA FindLooks ==
  ASSUME NEW a, NEW el
  PROVE  \E F : Looks(a, el, F) /\ DArray_find(a, el) = F[<<0, a.end - 1>>]
  <1> DEFINE
        D == Int \X Int
        middle(s) == s[1] + (s[2] - s[1]) \div 2
        measure == [s \in D |-> IF s[1] > s[2] THEN 0 ELSE s[2] - s[1] + 1]
        body == [f \in [D -> Int] |->
                  [s \in D |->
                     IF s[1] > s[2] THEN -1
                     ELSE IF el < a.contents[middle(s)] THEN f[<<s[1], middle(s) - 1>>]
                     ELSE IF el > a.contents[middle(s)] THEN f[<<middle(s) + 1, s[2]>>]
                     ELSE middle(s)]]
        IsF(f) == f = [s \in D |->
                        IF s[1] > s[2] THEN -1
                        ELSE IF el < a.contents[middle(s)] THEN f[<<s[1], middle(s) - 1>>]
                        ELSE IF el > a.contents[middle(s)] THEN f[<<middle(s) + 1, s[2]>>]
                        ELSE middle(s)]
  <1>1. \A s \in D : /\ s = <<s[1], s[2]>> /\ s[1] \in Int /\ s[2] \in Int /\ middle(s) \in Int
                     /\ <<s[1], middle(s) - 1>> \in D /\ <<middle(s) + 1, s[2]>> \in D
    OBVIOUS
  <1>2. ASSUME NEW s \in D, ~(s[1] > s[2])
        PROVE  /\ measure[<<s[1], middle(s) - 1>>] < measure[s]
               /\ measure[<<middle(s) + 1, s[2]>>] < measure[s]
    <2>1. s[1] <= middle(s) /\ middle(s) <= s[2]
      BY <1>1, <1>2
    <2>2. \A q \in D : measure[q] = IF q[1] > q[2] THEN 0 ELSE q[2] - q[1] + 1
      OBVIOUS
    <2>3. \A low, high \in Int : <<low, high>> \in D
      OBVIOUS
    <2> HIDE DEF measure, D, middle
    <2> QED BY <1>1, <1>2, <2>1, <2>2, <2>3
  <1>3. measure \in [D -> Nat]
    BY <1>1
  <1>4. body \in [[D -> Int] -> [D -> Int]]
    <2>1. ASSUME NEW f \in [D -> Int], NEW s \in D
          PROVE  body[f][s] \in Int
      <3> HIDE DEF D, middle
      <3>1. body[f][s] = IF s[1] > s[2] THEN -1
                     ELSE IF el < a.contents[middle(s)] THEN f[<<s[1], middle(s) - 1>>]
                     ELSE IF el > a.contents[middle(s)] THEN f[<<middle(s) + 1, s[2]>>]
                     ELSE middle(s)
        OBVIOUS
      <3> HIDE DEF body
      <3> QED BY <1>1, <3>1
    <2>2. \A f \in [D -> Int] : body[f] = [s \in D |-> body[f][s]]
      <3> HIDE DEF D, middle
      <3> QED OBVIOUS
    <2>3. body = [f \in [D -> Int] |-> body[f]]
      OBVIOUS
    <2>4. \A f \in [D -> Int] : body[f] \in [D -> Int]
      <3> HIDE DEF body, D
      <3> QED BY <2>1, <2>2
    <2> HIDE DEF body, D
    <2> QED BY <2>3, <2>4
  <1>5. ASSUME NEW f \in [D -> Int], NEW g \in [D -> Int], NEW s \in D,
               \A q \in D : measure[q] < measure[s] => f[q] = g[q]
        PROVE  body[f][s] = body[g][s]
    <2> HIDE DEF measure, D, middle
    <2>1. ~(s[1] > s[2]) => /\ f[<<s[1], middle(s) - 1>>] = g[<<s[1], middle(s) - 1>>]
                            /\ f[<<middle(s) + 1, s[2]>>] = g[<<middle(s) + 1, s[2]>>]
      BY <1>1, <1>2, <1>5
    <2> QED BY <2>1
  <1>6. PICK f : IsFixed(f, D, Int, body)
    <2>1. 0 \in Int
      OBVIOUS
    <2>2. GoesDown(D, Int, measure, body)
      <3> HIDE DEF measure, body, D
      <3> QED BY <1>5 DEF GoesDown
    <2>3. measure \in Measures(D) /\ body \in Bodies(D, Int)
      <3> HIDE DEF measure, body, D
      <3> QED BY <1>3, <1>4 DEF Measures, Bodies
    <2> HIDE DEF measure, body, D
    <2> QED BY <2>1, <2>2, <2>3, MeasuredRecursion
  <1>7. IsF(f)
    <2> HIDE DEF D, middle
    <2> QED BY <1>6 DEF IsFixed
  <1>8. IsF(CHOOSE g : IsF(g))
    <2> HIDE DEF IsF
    <2> QED BY <1>7
  <1>9. Looks(a, el, CHOOSE g : IsF(g))
    <2> DEFINE h == CHOOSE g : IsF(g)
    <2>1. IsF(h)
      BY <1>8
    <2> HIDE DEF h
    <2>2. ASSUME NEW low \in Int, NEW high \in Int
          PROVE  h[<<low, high>>] = IF low > high THEN -1
                   ELSE IF el < a.contents[Middle(low, high)] THEN h[<<low, Middle(low, high) - 1>>]
                   ELSE IF el > a.contents[Middle(low, high)] THEN h[<<Middle(low, high) + 1, high>>]
                   ELSE Middle(low, high)
      <3> DEFINE s == <<low, high>>
      <3>1. s \in D /\ s[1] = low /\ s[2] = high /\ middle(s) = Middle(low, high)
        BY DEF Middle
      <3> HIDE DEF s, D, middle
      <3>2. h[s] = IF s[1] > s[2] THEN -1
                   ELSE IF el < a.contents[middle(s)] THEN h[<<s[1], middle(s) - 1>>]
                   ELSE IF el > a.contents[middle(s)] THEN h[<<middle(s) + 1, s[2]>>]
                   ELSE middle(s)
        BY <2>1, <3>1
      <3> QED BY <3>1, <3>2 DEF s
    <2>3. Looks(a, el, h)
      BY <2>2 DEF Looks
    <2> QED BY <2>3 DEF h
  <1>10. DArray_find(a, el) = (CHOOSE g : IsF(g))[<<0, a.end - 1>>]
    BY DEF DArray_find
  <1> HIDE DEF IsF
  <1> QED BY <1>9, <1>10

(* What is found between low and high is there, and what is not found is not. *)
Right(a, el, low, high, i) ==
  \/ i \in low .. high /\ a.contents[i] = el
  \/ i = -1 /\ \A j \in low .. high : a.contents[j] # el

LEMMA FindIsRight ==
  ASSUME NEW a, NEW el \in Int, NEW F, Looks(a, el, F), NEW e \in Nat,
         \A j \in Slots(e) : a.contents[j] \in Int, InOrder(a.contents, e)
  PROVE  Right(a, el, 0, e - 1, F[<<0, e - 1>>])
  <1> DEFINE Within(w) == \A low, high \in Int :
               0 <= low /\ high < e /\ high - low + 1 <= w => Right(a, el, low, high, F[<<low, high>>])
             S == {w \in Nat : Within(w)}
  <1>1. ASSUME NEW low \in Int, NEW high \in Int, low > high
        PROVE  Right(a, el, low, high, F[<<low, high>>])
    <2>1. F[<<low, high>>] = -1
      BY <1>1 DEF Looks
    <2>2. low .. high = {}
      BY <1>1
    <2> QED BY <2>1, <2>2 DEF Right
  <1>2. 0 \in S
    <2>1. \A low, high \in Int : high - low + 1 <= 0 => low > high
      OBVIOUS
    <2> QED BY <1>1, <2>1
  <1>3. ASSUME NEW w \in Nat, w \in S
        PROVE  w + 1 \in S
    <2> SUFFICES ASSUME NEW low \in Int, NEW high \in Int, 0 <= low, high < e,
                        high - low + 1 <= w + 1
                 PROVE  Right(a, el, low, high, F[<<low, high>>])
      OBVIOUS
    <2> DEFINE middle == Middle(low, high)
    <2>1. CASE ~(low > high)
      <3>1. middle \in Int /\ low <= middle /\ middle <= high
        BY <2>1 DEF Middle
      <3> HIDE DEF middle
      <3>2. \A j \in low .. high : j \in Slots(e) /\ a.contents[j] \in Int
        BY DEF Slots
      <3>3. \A j, k \in low .. high : j <= k => a.contents[j] <= a.contents[k]
        BY <3>2 DEF InOrder
      <3>4. /\ middle - 1 \in Int /\ middle + 1 \in Int /\ middle \in low .. high
            /\ middle - 1 < e /\ 0 <= middle + 1
            /\ (middle - 1) - low + 1 <= w /\ high - (middle + 1) + 1 <= w
        BY <3>1
      <3>5. CASE el < a.contents[middle]
        <4>1. F[<<low, high>>] = F[<<low, middle - 1>>]
          BY <2>1, <3>5 DEF Looks, middle
        <4>2. Right(a, el, low, middle - 1, F[<<low, middle - 1>>])
          BY <1>3, <3>4
        <4>3. \A j \in low .. high : j \notin low .. middle - 1 => a.contents[j] # el
          BY <3>1, <3>2, <3>3, <3>4, <3>5
        <4>4. low .. middle - 1 \subseteq low .. high
          BY <3>1
        <4> QED BY <4>1, <4>2, <4>3, <4>4 DEF Right
      <3>6. CASE el > a.contents[middle]
        <4>1. F[<<low, high>>] = F[<<middle + 1, high>>]
          <5>1. ~(el < a.contents[middle])
            BY <3>2, <3>4, <3>6
          <5> QED BY <2>1, <3>6, <5>1 DEF Looks, middle
        <4>2. Right(a, el, middle + 1, high, F[<<middle + 1, high>>])
          BY <1>3, <3>4
        <4>3. \A j \in low .. high : j \notin middle + 1 .. high => a.contents[j] # el
          BY <3>1, <3>2, <3>3, <3>4, <3>6
        <4>4. middle + 1 .. high \subseteq low .. high
          BY <3>1
        <4> QED BY <4>1, <4>2, <4>3, <4>4 DEF Right
      <3>7. CASE ~(el < a.contents[middle]) /\ ~(el > a.contents[middle])
        <4>1. F[<<low, high>>] = middle
          BY <2>1, <3>7 DEF Looks, middle
        <4>2. a.contents[middle] = el
          BY <3>2, <3>4, <3>7
        <4> QED BY <3>4, <4>1, <4>2 DEF Right
      <3> QED BY <3>5, <3>6, <3>7
    <2> QED BY <1>1, <2>1
  <1>4. Nat \subseteq S
    <2> HIDE DEF S
    <2> QED BY <1>2, <1>3, Induction
  <1> QED BY <1>4

(* The binary search finds an element of a sorted array if it is there, and   *)
(* says so if it is not, whatever is in the array and however often.          *)
THEOREM FindAlwaysFinds == Spec => []FindFinds
  <1>1. ArrayInv => FindFinds
    <2> SUFFICES ASSUME ArrayInv, InMemory, Sound, InOrder(array.contents, array.end),
                        NEW el \in Elements
                 PROVE  IF \E j \in Slots(array.end) : array.contents[j] = el
                          THEN /\ DArray_find(array, el) \in Slots(array.end)
                               /\ array.contents[DArray_find(array, el)] = el
                          ELSE DArray_find(array, el) = -1
      BY DEF FindFinds
    <2>1. array.end \in Nat /\ el \in Int /\ \A j \in Slots(array.end) : array.contents[j] \in Int
      BY InMemoryHolds, ElementsAssumption DEF Usable, Sound
    <2>2. PICK F : Looks(array, el, F) /\ DArray_find(array, el) = F[<<0, array.end - 1>>]
      BY FindLooks
    <2>3. Right(array, el, 0, array.end - 1, DArray_find(array, el))
      BY <2>1, <2>2, FindIsRight
    <2> QED BY <2>3 DEF Right, Slots
  <1> QED BY <1>1, ArrayInvariant, PTL

----------------------------------------------------------------------------
(* Elements that change places. *)

OneToOneOn(q, R) == \A j, k \in R : q[j] = q[k] => j = k

(* The contents d are c after the elements in the places R have changed them. *)
Moved(d, c, R) ==
  /\ DOMAIN d = DOMAIN c
  /\ \A j \in DOMAIN c \ R : d[j] = c[j]
  /\ \E q \in [R -> R] : OneToOneOn(q, R) /\ \A j \in R : d[j] = c[q[j]]

(* Contents that are left alone ... *)
LEMMA MovedNot ==
  ASSUME NEW c, NEW R
  PROVE  Moved(c, c, R)
  <1> DEFINE q == [j \in R |-> j]
  <1>1. q \in [R -> R] /\ OneToOneOn(q, R) /\ \A j \in R : c[j] = c[q[j]]
    BY DEF OneToOneOn
  <1> HIDE DEF q
  <1> QED BY <1>1 DEF Moved

(* ... or have moved in fewer places ... *)
LEMMA MovedWithin ==
  ASSUME NEW c, NEW d, NEW P, NEW R, P \subseteq R, R \subseteq DOMAIN c, Moved(d, c, P)
  PROVE  Moved(d, c, R)
  <1>1. PICK p \in [P -> P] : OneToOneOn(p, P) /\ \A j \in P : d[j] = c[p[j]]
    BY DEF Moved
  <1> DEFINE q == [j \in R |-> IF j \in P THEN p[j] ELSE j]
  <1>2. \A j \in P : p[j] \in P
    OBVIOUS
  <1>3. q \in [R -> R]
    BY <1>2
  <1>4. OneToOneOn(q, R)
    <2> SUFFICES ASSUME NEW j \in R, NEW k \in R, q[j] = q[k] PROVE j = k
      BY DEF OneToOneOn
    <2> QED BY <1>1, <1>2 DEF OneToOneOn
  <1>5. \A j \in R : d[j] = c[q[j]]
    BY <1>1 DEF Moved
  <1> HIDE DEF q
  <1> QED BY <1>3, <1>4, <1>5 DEF Moved

(* ... or have moved again, have moved; *)
LEMMA MovedTwice ==
  ASSUME NEW c, NEW d, NEW e, NEW R, Moved(d, c, R), Moved(e, d, R)
  PROVE  Moved(e, c, R)
  <1>1. PICK p \in [R -> R] : OneToOneOn(p, R) /\ \A j \in R : d[j] = c[p[j]]
    BY DEF Moved
  <1>2. PICK r \in [R -> R] : OneToOneOn(r, R) /\ \A j \in R : e[j] = d[r[j]]
    BY DEF Moved
  <1> DEFINE q == [j \in R |-> p[r[j]]]
  <1>3. \A j \in R : r[j] \in R /\ p[j] \in R
    OBVIOUS
  <1>4. q \in [R -> R] /\ \A j \in R : q[j] = p[r[j]]
    BY <1>3
  <1> HIDE DEF q
  <1>5. OneToOneOn(q, R)
    BY <1>1, <1>2, <1>3, <1>4 DEF OneToOneOn
  <1>6. \A j \in R : e[j] = c[q[j]]
    BY <1>1, <1>2, <1>3, <1>4
  <1> QED BY <1>4, <1>5, <1>6 DEF Moved

(* and so have those of which two are swapped. *)
LEMMA SwapMoves ==
  ASSUME NEW c, NEW R, R \subseteq DOMAIN c, NEW j \in R, NEW k \in R
  PROVE  Moved(Swap(c, j, k), c, R)
  <1> DEFINE q == [i \in R |-> IF i = j THEN k ELSE IF i = k THEN j ELSE i]
             d == Swap(c, j, k)
  <1>1. DOMAIN d = DOMAIN c /\ d[j] = c[k] /\ d[k] = c[j] /\ \A i \in DOMAIN c \ {j, k} : d[i] = c[i]
    BY DEF Swap
  <1> HIDE DEF d
  <1>2. q \in [R -> R] /\ OneToOneOn(q, R)
    BY DEF OneToOneOn
  <1>3. \A i \in R : d[i] = c[q[i]]
    BY <1>1
  <1> HIDE DEF q
  <1>4. Moved(d, c, R)
    BY <1>1, <1>2, <1>3 DEF Moved
  <1> QED BY <1>4 DEF d

(* What is compared are numbers. *)
Numeric(c, R) == \A j \in R : c[j] \in Int

(* What moves stays what it is. *)
LEMMA MovedIsNumeric ==
  ASSUME NEW c, NEW d, NEW R, Moved(d, c, R), Numeric(c, R)
  PROVE  Numeric(d, R)
  BY DEF Moved, Numeric

----------------------------------------------------------------------------
(* DArray_fucked_qsort. *)

(* A step of the partition, and what is so before the j-th element. *)
PartitionStep(c, high, j, s) ==
  IF s.c[j - 1] < c[high] THEN [c |-> Swap(s.c, j - 1, s.i + 1), i |-> s.i + 1] ELSE s

Partitioned(c, V, low, high, j) ==
  {s \in [c : [DOMAIN c -> V], i : Int] :
     /\ low - 1 <= s.i /\ s.i <= j - 1
     /\ Moved(s.c, c, low .. high) /\ s.c[high] = c[high]
     /\ Numeric(c, low .. high) =>
          /\ \A k \in low .. s.i : s.c[k] < c[high]
          /\ \A k \in s.i + 1 .. j - 1 : s.c[k] >= c[high]}

(* A swap, by its type ... *)
LEMMA SwapType ==
  ASSUME NEW D, NEW V, NEW c \in [D -> V], NEW j \in D, NEW k \in D
  PROVE  Swap(c, j, k) \in [D -> V]
  BY DEF Swap

(* ... and by its values. *)
LEMMA SwapValues ==
  ASSUME NEW c, NEW j \in DOMAIN c, NEW k \in DOMAIN c
  PROVE  /\ Swap(c, j, k)[j] = c[k] /\ Swap(c, j, k)[k] = c[j]
         /\ \A i \in DOMAIN c \ {j, k} : Swap(c, j, k)[i] = c[i]
  BY DEF Swap

(* Before the pivot is less than it, from there to j not. *)
LEMMA PartitionStepKeeps ==
  ASSUME NEW D \in SUBSET Int, NEW V, NEW c \in [D -> V], NEW low \in Int, NEW high \in Int,
         low .. high \subseteq D, NEW j \in low + 1 .. high,
         NEW s \in Partitioned(c, V, low, high, j - 1)
  PROVE  PartitionStep(c, high, j, s) \in Partitioned(c, V, low, high, j)
  <1>1. /\ s \in [c : [D -> V], i : Int] /\ s.i \in Int /\ s.c \in [D -> V] /\ DOMAIN s.c = D
        /\ low - 1 <= s.i /\ s.i <= j - 2
        /\ Moved(s.c, c, low .. high) /\ s.c[high] = c[high]
    BY DEF Partitioned
  <1>2. /\ j \in Int /\ j - 1 \in low .. high /\ j - 1 < high
        /\ s.i + 1 \in low .. high /\ s.i + 1 <= j - 1 /\ s.i + 1 # high /\ high \in low .. high
    BY <1>1
  <1>3. Numeric(c, low .. high) =>
          /\ c[high] \in Int /\ \A k \in low .. high : s.c[k] \in Int
          /\ \A k \in low .. s.i : s.c[k] < c[high]
          /\ \A k \in s.i + 1 .. (j - 1) - 1 : s.c[k] >= c[high]
    <2>1. Numeric(c, low .. high) => Numeric(s.c, low .. high)
      BY <1>1, MovedIsNumeric
    <2> QED BY <1>2, <2>1 DEF Partitioned, Numeric
  <1>4. CASE s.c[j - 1] < c[high]
    <2>1. PICK d : d = Swap(s.c, j - 1, s.i + 1)
      OBVIOUS
    <2>2. PICK t : t = [c |-> d, i |-> s.i + 1]
      OBVIOUS
    <2>3. d \in [D -> V] /\ Moved(d, c, low .. high)
      <3>1. Moved(d, s.c, low .. high)
        BY <1>1, <1>2, <2>1, SwapMoves
      <3> QED BY <1>1, <1>2, <2>1, <3>1, SwapType, MovedTwice
    <2>4. /\ d[j - 1] = s.c[s.i + 1] /\ d[s.i + 1] = s.c[j - 1]
          /\ \A i \in D \ {j - 1, s.i + 1} : d[i] = s.c[i]
      BY <1>1, <1>2, <2>1, SwapValues
    <2>5. d[high] = c[high]
      BY <1>1, <1>2, <2>4
    <2>6. ASSUME Numeric(c, low .. high)
          PROVE  /\ \A k \in low .. s.i + 1 : d[k] < c[high]
                 /\ \A k \in (s.i + 1) + 1 .. j - 1 : d[k] >= c[high]
      <3>1. ASSUME NEW k \in low .. s.i + 1 PROVE d[k] < c[high]
        <4>1. CASE k = s.i + 1
          BY <1>4, <2>4, <4>1
        <4>2. CASE k # s.i + 1
          <5>1. k \in low .. s.i /\ k \in D \ {j - 1, s.i + 1}
            BY <1>1, <1>2, <4>2
          <5> QED BY <1>3, <2>4, <2>6, <5>1
        <4> QED BY <4>1, <4>2
      <3>2. ASSUME NEW k \in (s.i + 1) + 1 .. j - 1 PROVE d[k] >= c[high]
        <4>1. CASE k = j - 1
          <5>1. s.i + 1 \in s.i + 1 .. (j - 1) - 1
            BY <1>1, <1>2, <4>1
          <5> QED BY <1>3, <2>4, <2>6, <4>1, <5>1
        <4>2. CASE k # j - 1
          <5>1. k \in s.i + 1 .. (j - 1) - 1 /\ k \in D \ {j - 1, s.i + 1}
            BY <1>1, <1>2, <4>2
          <5> QED BY <1>3, <2>4, <2>6, <5>1
        <4> QED BY <4>1, <4>2
      <3> QED BY <3>1, <3>2
    <2>7. t \in [c : [D -> V], i : Int] /\ t.c = d /\ t.i = s.i + 1
      BY <1>1, <2>2, <2>3
    <2>8. low - 1 <= t.i /\ t.i <= j - 1
      BY <1>1, <1>2, <2>7
    <2>9. t \in Partitioned(c, V, low, high, j)
      BY <2>3, <2>5, <2>6, <2>7, <2>8 DEF Partitioned
    <2>10. PartitionStep(c, high, j, s) = t
      BY <1>4, <2>1, <2>2 DEF PartitionStep
    <2> QED BY <2>9, <2>10
  <1>5. CASE ~(s.c[j - 1] < c[high])
    <2>1. ASSUME Numeric(c, low .. high), NEW k \in s.i + 1 .. j - 1 PROVE s.c[k] >= c[high]
      <3>1. CASE k = j - 1
        BY <1>2, <1>3, <1>5, <2>1, <3>1
      <3>2. CASE k # j - 1
        <4>1. k \in s.i + 1 .. (j - 1) - 1
          BY <1>1, <1>2, <3>2
        <4> QED BY <1>3, <2>1, <4>1
      <3> QED BY <3>1, <3>2
    <2>2. s.i <= j - 1
      BY <1>1, <1>2
    <2>3. s \in Partitioned(c, V, low, high, j)
      BY <1>1, <1>3, <2>1, <2>2 DEF Partitioned
    <2> QED BY <1>5, <2>3 DEF PartitionStep
  <1> QED BY <1>4, <1>5

(* The pivot is between what is at most as large and what is at least as large. *)
LEMMA PartitionFacts ==
  ASSUME NEW D \in SUBSET Int, NEW V, NEW c \in [D -> V], NEW low \in Int, NEW high \in Int,
         low .. high \subseteq D, low <= high
  PROVE  LET r == DArray_fucked_qsort_partition(c, low, high)
         IN  /\ r.c \in [D -> V] /\ Moved(r.c, c, low .. high) /\ r.p \in low .. high
             /\ Numeric(c, low .. high) =>
                  /\ \A j \in low .. r.p - 1 : r.c[j] <= r.c[r.p]
                  /\ \A j \in r.p + 1 .. high : r.c[r.p] <= r.c[j]
  <1> DEFINE
        start == [c |-> c, i |-> low - 1]
        All == [c : [D -> V], i : Int]
        step == [j \in low .. high |-> [s \in All |-> PartitionStep(c, high, j, s)]]
        T == [j \in low .. high |-> Partitioned(c, V, low, high, j)]
        IsP(f) == f = [j \in low .. high |->
                         IF j = low THEN [c |-> c, i |-> low - 1]
                         ELSE LET s == f[j - 1]
                              IN  IF s.c[j - 1] < c[high]
                                    THEN [c |-> Swap(s.c, j - 1, s.i + 1), i |-> s.i + 1] ELSE s]
        Goes(f) == f = [j \in low .. high |-> IF j = low THEN start ELSE PartitionStep(c, high, j, f[j - 1])]
  <1>0. \A f : IsP(f) <=> Goes(f)
    BY DEF PartitionStep
  <1>1. start \in Partitioned(c, V, low, high, low)
    <2>1. Moved(c, c, low .. high)
      BY MovedNot
    <2>2. start \in [c : [D -> V], i : Int] /\ start.c = c /\ start.i = low - 1
      OBVIOUS
    <2>3. low .. start.i = {} /\ start.i + 1 .. low - 1 = {}
      BY <2>2
    <2>4. low - 1 <= start.i /\ start.i <= low - 1
      BY <2>2
    <2> HIDE DEF start
    <2> QED BY <2>1, <2>2, <2>3, <2>4 DEF Partitioned
  <1>2. \A j \in low .. high : T[j] \subseteq All
    BY DEF Partitioned
  <1>3. ASSUME NEW j \in low + 1 .. high, NEW s \in T[j - 1]
        PROVE  step[j][s] \in T[j] /\ step[j][s] = PartitionStep(c, high, j, s)
    <2>1. j \in low .. high /\ j - 1 \in low .. high
      OBVIOUS
    <2>2. s \in Partitioned(c, V, low, high, j - 1) /\ s \in All
      BY <1>2, <2>1
    <2>3. PartitionStep(c, high, j, s) \in Partitioned(c, V, low, high, j)
      BY <2>2, PartitionStepKeeps
    <2> HIDE DEF All
    <2> QED BY <2>1, <2>2, <2>3
  <1>4. \E f : Goes(f)
    <2>1. start \in T[low]
      BY <1>1
    <2>2. PICK f : Loops(f, low, high, start, step) /\ \A j \in low .. high : f[j] \in T[j]
      <3> HIDE DEF start, All, step, T
      <3> QED BY <1>2, <1>3, <2>1, LoopExists
    <2>3. ASSUME NEW j \in low .. high, j # low
          PROVE  step[j][f[j - 1]] = PartitionStep(c, high, j, f[j - 1])
      <3>1. j \in low + 1 .. high /\ j - 1 \in low .. high
        BY <2>3
      <3> HIDE DEF start, All, step, T
      <3> QED BY <1>3, <2>2, <3>1
    <2>4. Goes(f)
      <3> HIDE DEF start, All, step, T
      <3> QED BY <2>2, <2>3 DEF Loops
    <2> QED BY <2>4
  <1>5. PICK P : P = CHOOSE f : IsP(f)
    OBVIOUS
  <1>6. IsP(P)
    <2>1. \E f : IsP(f)
      BY <1>0, <1>4
    <2> HIDE DEF IsP
    <2> QED BY <1>5, <2>1
  <1>7. Goes(P)
    BY <1>0, <1>6
  <1>8. \A j \in low .. high : P[j] \in T[j]
    <2>1. P[low] \in T[low]
      BY <1>1, <1>7
    <2>2. ASSUME NEW j \in low + 1 .. high, P[j - 1] \in T[j - 1] PROVE P[j] \in T[j]
      <3>1. P[j] = PartitionStep(c, high, j, P[j - 1])
        BY <1>7
      <3>2. PartitionStep(c, high, j, P[j - 1]) \in T[j]
        <4> HIDE DEF T, step, Goes, IsP
        <4> QED BY <1>3, <2>2
      <3> HIDE DEF T, step, Goes, IsP
      <3> QED BY <3>1, <3>2
    <2> HIDE DEF T
    <2> QED BY <2>1, <2>2, LoopKeeps
  <1>9. PICK s : s = P[high] /\ s \in Partitioned(c, V, low, high, high)
    BY <1>8
  <1>10. PICK p : p = s.i + 1
    OBVIOUS
  <1>11. PICK d : d = s.c
    OBVIOUS
  <1>12. /\ d \in [D -> V] /\ DOMAIN d = D /\ p \in low .. high /\ p \in Int /\ high \in low .. high
         /\ Moved(d, c, low .. high) /\ d[high] = c[high]
         /\ Numeric(c, low .. high) => /\ \A k \in low .. p - 1 : d[k] < c[high]
                                       /\ \A k \in p .. high - 1 : d[k] >= c[high]
    BY <1>9, <1>10, <1>11 DEF Partitioned
  <1>13. PICK e : e = IF d[high] < d[p] THEN Swap(d, high, p) ELSE d
    OBVIOUS
  <1>14. DArray_fucked_qsort_partition(c, low, high) = [c |-> e, p |-> p]
    <2>1. DArray_fucked_qsort_partition(c, low, high) =
            LET Q == CHOOSE f : IsP(f)
            IN  [c |-> IF Q[high].c[high] < Q[high].c[Q[high].i + 1]
                         THEN Swap(Q[high].c, high, Q[high].i + 1) ELSE Q[high].c,
                 p |-> Q[high].i + 1]
      BY DEF DArray_fucked_qsort_partition
    <2> HIDE DEF IsP
    <2> QED BY <1>5, <1>9, <1>10, <1>11, <1>13, <2>1
  <1> HIDE DEF IsP, Goes, T, step, start
  <1>15. e \in [D -> V] /\ Moved(e, c, low .. high)
    <2>1. Swap(d, high, p) \in [D -> V] /\ Moved(Swap(d, high, p), d, low .. high)
      BY <1>12, SwapType, SwapMoves
    <2>2. Moved(Swap(d, high, p), c, low .. high)
      BY <1>12, <2>1, MovedTwice
    <2> QED BY <1>12, <1>13, <2>1, <2>2
  <1>16. ASSUME Numeric(c, low .. high)
         PROVE  /\ \A j \in low .. p - 1 : e[j] <= e[p]
                /\ \A j \in p + 1 .. high : e[p] <= e[j]
    <2>1. \A j \in low .. high : d[j] \in Int
      BY <1>12, <1>16, MovedIsNumeric DEF Numeric
    <2>2. \A j \in low .. p - 1 : j \in D /\ j \in low .. high /\ j # p /\ j # high /\ d[j] < d[high]
      BY <1>12, <1>16
    <2>3. \A j \in p + 1 .. high : j \in D /\ j \in low .. high /\ j # p /\ (j # high => d[j] >= d[high])
      BY <1>12, <1>16
    <2>4. CASE d[high] < d[p]
      <3>1. e = Swap(d, high, p)
        BY <1>13, <2>4
      <3>3. high \in DOMAIN d /\ p \in DOMAIN d /\ DOMAIN d = D
        BY <1>12
      <3>2. e[high] = d[p] /\ e[p] = d[high] /\ \A j \in D \ {high, p} : e[j] = d[j]
        BY ONLY <3>1, <3>3, SwapValues
      <3> QED BY <1>12, <2>1, <2>2, <2>3, <2>4, <3>2
    <2>5. CASE ~(d[high] < d[p])
      <3>1. e = d /\ d[p] \in Int /\ d[high] \in Int
        BY <1>12, <1>13, <2>1, <2>5
      <3>2. d[p] = d[high]
        <4>1. p # high => d[p] >= d[high]
          BY <1>12, <1>16
        <4> QED BY <2>5, <3>1, <4>1
      <3> QED BY <2>1, <2>2, <2>3, <3>1, <3>2
    <2> QED BY <2>4, <2>5
  <1> QED BY <1>12, <1>14, <1>15, <1>16

(* From low to high each is at least as large as those before it. *)
Ordered(c, low, high) == \A j, k \in low .. high : j < k => c[j] <= c[k]

(* The two sides of a pivot, each in order. *)
LEMMA SidesInOrder ==
  ASSUME NEW D \in SUBSET Int, NEW low \in Int, NEW high \in Int, low .. high \subseteq D,
         NEW p \in low .. high, NEW c, NEW d, NEW e, DOMAIN c = D,
         Numeric(c, low .. high),
         \A j \in low .. p - 1 : c[j] <= c[p],
         \A j \in p + 1 .. high : c[p] <= c[j],
         Moved(d, c, low .. p - 1), Ordered(d, low, p - 1),
         Moved(e, d, p + 1 .. high), Ordered(e, p + 1, high)
  PROVE  Ordered(e, low, high)
  <1>1. DOMAIN d = D
    BY DEF Moved
  <1>2. p \in Int /\ \A j \in low .. high : j \in D /\ (j < p => j \in low .. p - 1) /\ (j > p => j \in p + 1 .. high)
    OBVIOUS
  <1>3. \A j \in low .. p - 1 : j \in D /\ j \notin p + 1 .. high
    OBVIOUS
  <1>4. \A j \in p + 1 .. high : j \in D /\ j \notin low .. p - 1
    OBVIOUS
  <1>5. p \in D /\ p \notin low .. p - 1 /\ p \notin p + 1 .. high
    OBVIOUS
  <1>6. e[p] = c[p] /\ c[p] \in Int
    BY <1>1, <1>5 DEF Moved, Numeric
  <1>7. ASSUME NEW j \in low .. p - 1 PROVE e[j] = d[j] /\ e[j] <= e[p] /\ e[j] \in Int
    <2>1. e[j] = d[j]
      BY <1>1, <1>3 DEF Moved
    <2>2. PICK k \in low .. p - 1 : d[j] = c[k]
      BY DEF Moved
    <2>3. c[k] <= c[p] /\ c[k] \in Int
      BY DEF Numeric
    <2> QED BY <1>6, <2>1, <2>2, <2>3
  <1>8. ASSUME NEW j \in p + 1 .. high PROVE e[p] <= e[j] /\ e[j] \in Int
    <2>1. PICK k \in p + 1 .. high : e[j] = d[k]
      BY DEF Moved
    <2>2. d[k] = c[k]
      BY <1>4 DEF Moved
    <2>3. c[p] <= c[k] /\ c[k] \in Int
      BY DEF Numeric
    <2> QED BY <1>6, <2>1, <2>2, <2>3
  <1> SUFFICES ASSUME NEW j \in low .. high, NEW k \in low .. high, j < k PROVE e[j] <= e[k]
    BY DEF Ordered
  <1>9. CASE k < p
    BY <1>2, <1>7, <1>9 DEF Ordered
  <1>10. CASE k = p
    BY <1>2, <1>7, <1>10
  <1>11. CASE k > p /\ j > p
    BY <1>2, <1>11 DEF Ordered
  <1>12. CASE k > p /\ j = p
    BY <1>2, <1>8, <1>12
  <1>13. CASE k > p /\ j < p
    <2>1. e[j] <= e[p] /\ e[p] <= e[k] /\ e[j] \in Int /\ e[k] \in Int
      BY <1>2, <1>7, <1>8, <1>13
    <2> QED BY <1>6, <2>1
  <1> QED BY <1>2, <1>9, <1>10, <1>11, <1>12, <1>13

(* The calls of the recursion. *)
QsortCalls(A, low, high) == A \X (low .. high + 1) \X (low - 1 .. high)

(* The recursion by its cases. *)
Qsorts(Q, A, low, high) ==
  \A s \in QsortCalls(A, low, high) :
    LET r == DArray_fucked_qsort_partition(s[1], s[2], s[3])
    IN  Q[s] = IF s[2] >= s[3] THEN s[1] ELSE Q[<<Q[<<r.c, s[2], r.p - 1>>], r.p + 1, s[3]>>]

(* The recursion ends: it goes on with less than it was given. *)
LEMMA QsortExists ==
  ASSUME NEW c, NEW low \in Int, NEW high \in Int, low <= high + 1, DOMAIN c \subseteq Int,
         low .. high \subseteq DOMAIN c, c \in Arrangements(c)
  PROVE  \E Q : /\ Qsorts(Q, Arrangements(c), low, high)
                /\ DArray_fucked_qsort_recurse(c, low, high) = Q[<<c, low, high>>]
  <1> DEFINE
        A == Arrangements(c)
        D == QsortCalls(A, low, high)
        r(s) == DArray_fucked_qsort_partition(s[1], s[2], s[3])
        measure == [s \in D |-> IF s[2] > s[3] THEN 0 ELSE s[3] - s[2] + 1]
        value(f, s) == IF s[2] >= s[3] THEN s[1] ELSE f[<<f[<<r(s).c, s[2], r(s).p - 1>>], r(s).p + 1, s[3]>>]
        body == [f \in [D -> A] |-> [s \in D |-> value(f, s)]]
        IsQ(f) == f = [s \in A \X (low .. high + 1) \X (low - 1 .. high) |->
                        LET q == DArray_fucked_qsort_partition(s[1], s[2], s[3])
                        IN  IF s[2] >= s[3] THEN s[1]
                            ELSE f[<<f[<<q.c, s[2], q.p - 1>>], q.p + 1, s[3]>>]]
  <1>1. \A s \in D : s[1] \in A /\ s[2] \in low .. high + 1 /\ s[3] \in low - 1 .. high
    BY DEF QsortCalls
  <1>2. \A d \in A, l \in low .. high + 1, h \in low - 1 .. high :
          <<d, l, h>> \in D /\ <<d, l, h>>[1] = d /\ <<d, l, h>>[2] = l /\ <<d, l, h>>[3] = h
    BY DEF QsortCalls
  <1>3. \A s \in D : measure[s] = IF s[2] > s[3] THEN 0 ELSE s[3] - s[2] + 1
    OBVIOUS
  <1> HIDE DEF D, measure
  <1>4. ASSUME NEW s \in D, ~(s[2] >= s[3])
        PROVE  /\ r(s).c \in A /\ r(s).p \in Int
               /\ <<r(s).c, s[2], r(s).p - 1>> \in D
               /\ measure[<<r(s).c, s[2], r(s).p - 1>>] < measure[s]
               /\ \A d \in A : /\ <<d, r(s).p + 1, s[3]>> \in D
                               /\ measure[<<d, r(s).p + 1, s[3]>>] < measure[s]
    <2>1. PICK l, h, d : l = s[2] /\ h = s[3] /\ d = s[1]
      OBVIOUS
    <2>2. d \in A /\ l \in low .. high + 1 /\ h \in low - 1 .. high /\ l < h
      BY <1>1, <1>4, <2>1
    <2>3. l .. h \subseteq DOMAIN c /\ l \in Int /\ h \in Int /\ l <= h
      BY <2>2
    <2>4. PICK q : q = r(s)
      OBVIOUS
    <2>5. q.c \in A /\ q.p \in l .. h
      <3>1. d \in [DOMAIN c -> {c[j] : j \in DOMAIN c}]
        BY <2>2 DEF Arrangements
      <3>2. q = DArray_fucked_qsort_partition(d, l, h)
        BY <2>1, <2>4
      <3> QED BY <2>3, <3>1, <3>2, PartitionFacts DEF Arrangements
    <2>6. q.p - 1 \in low - 1 .. high /\ q.p + 1 \in low .. high + 1 /\ q.p \in Int
      BY <2>2, <2>5
    <2>7. <<q.c, l, q.p - 1>> \in D /\ measure[<<q.c, l, q.p - 1>>] < measure[s]
      <3>1. <<q.c, l, q.p - 1>> \in D
        BY <1>2, <2>2, <2>5, <2>6
      <3>2. measure[<<q.c, l, q.p - 1>>] = IF l > q.p - 1 THEN 0 ELSE (q.p - 1) - l + 1
        BY <1>2, <1>3, <2>2, <2>5, <2>6
      <3>3. measure[s] = h - l + 1
        BY <1>3, <2>1, <2>2
      <3> QED BY <2>2, <2>5, <2>6, <3>1, <3>2, <3>3
    <2>8. ASSUME NEW g \in A
          PROVE  <<g, q.p + 1, h>> \in D /\ measure[<<g, q.p + 1, h>>] < measure[s]
      <3>1. <<g, q.p + 1, h>> \in D
        BY <1>2, <2>2, <2>5, <2>6
      <3>2. measure[<<g, q.p + 1, h>>] = IF q.p + 1 > h THEN 0 ELSE h - (q.p + 1) + 1
        BY <1>2, <1>3, <2>2, <2>5, <2>6
      <3>3. measure[s] = h - l + 1
        BY <1>3, <2>1, <2>2
      <3> QED BY <2>2, <2>5, <2>6, <3>1, <3>2, <3>3
    <2> HIDE DEF r
    <2> QED BY <2>1, <2>4, <2>5, <2>6, <2>7, <2>8
  <1>5. measure \in [D -> Nat]
    BY <1>1 DEF measure
  <1> HIDE DEF r
  <1>6. ASSUME NEW f \in [D -> A], NEW s \in D PROVE value(f, s) \in A
    BY <1>1, <1>4
  <1>7. body \in [[D -> A] -> [D -> A]]
    <2>1. \A f \in [D -> A] : [s \in D |-> value(f, s)] \in [D -> A]
      <3> HIDE DEF value, A
      <3> QED BY <1>6
    <2> HIDE DEF value, A
    <2> QED BY <2>1
  <1>8. ASSUME NEW f \in [D -> A], NEW g \in [D -> A], NEW s \in D,
               \A q \in D : measure[q] < measure[s] => f[q] = g[q]
        PROVE  body[f][s] = body[g][s]
    <2>1. body[f][s] = value(f, s) /\ body[g][s] = value(g, s)
      <3> HIDE DEF value, A
      <3> QED OBVIOUS
    <2>2. ASSUME ~(s[2] >= s[3])
          PROVE  f[<<f[<<r(s).c, s[2], r(s).p - 1>>], r(s).p + 1, s[3]>>]
                   = g[<<g[<<r(s).c, s[2], r(s).p - 1>>], r(s).p + 1, s[3]>>]
      <3>1. PICK t : t = <<r(s).c, s[2], r(s).p - 1>>
        OBVIOUS
      <3>2. t \in D /\ measure[t] < measure[s]
        BY <1>4, <2>2, <3>1
      <3>3. f[t] = g[t] /\ f[t] \in A
        BY <1>8, <3>2
      <3>4. <<f[t], r(s).p + 1, s[3]>> \in D /\ measure[<<f[t], r(s).p + 1, s[3]>>] < measure[s]
        BY <1>4, <2>2, <3>3
      <3>5. f[<<f[t], r(s).p + 1, s[3]>>] = g[<<f[t], r(s).p + 1, s[3]>>]
        BY <1>8, <3>4
      <3> QED BY <3>1, <3>3, <3>5
    <2> HIDE DEF body
    <2> QED BY <2>1, <2>2
  <1>9. PICK f : IsFixed(f, D, A, body)
    <2>1. GoesDown(D, A, measure, body)
      <3> HIDE DEF body, A
      <3> QED BY <1>8 DEF GoesDown
    <2>2. measure \in Measures(D) /\ body \in Bodies(D, A) /\ c \in A
      <3> HIDE DEF body
      <3> QED BY <1>5, <1>7 DEF Measures, Bodies
    <2> HIDE DEF body, A
    <2> QED BY <2>1, <2>2, MeasuredRecursion
  <1>10. \A g : IsQ(g) <=> g = [s \in D |-> value(g, s)]
    BY DEF D, QsortCalls, r
  <1>11. IsQ(f)
    <2>1. f \in [D -> A] /\ f = body[f]
      BY <1>9 DEF IsFixed
    <2>2. f = [s \in D |-> value(f, s)]
      <3> HIDE DEF value, A
      <3> QED BY <2>1
    <2> HIDE DEF value, A, IsQ
    <2> QED BY <1>10, <2>2
  <1>12. PICK Q : Q = CHOOSE g : IsQ(g)
    OBVIOUS
  <1>13. IsQ(Q)
    <2> HIDE DEF IsQ
    <2> QED BY <1>11, <1>12
  <1>14. Q = [s \in D |-> value(Q, s)]
    BY <1>10, <1>13
  <1>15. DArray_fucked_qsort_recurse(c, low, high) = (CHOOSE g : IsQ(g))[<<c, low, high>>]
    BY DEF DArray_fucked_qsort_recurse
  <1>16. Qsorts(Q, A, low, high)
    <2>1. \A s \in D : Q[s] = value(Q, s)
      <3> HIDE DEF value
      <3> QED BY <1>14
    <2> QED BY <2>1 DEF Qsorts, D, r
  <1> HIDE DEF IsQ, value
  <1> QED BY <1>12, <1>15, <1>16

(* What a call of the recursion does, by induction on how much it is given. *)
LEMMA QsortSorts ==
  ASSUME NEW D \in SUBSET Int, NEW V, NEW low \in Int, NEW high \in Int,
         low .. high \subseteq D, NEW Q, Qsorts(Q, [D -> V], low, high),
         NEW c \in [D -> V], Numeric(c, low .. high), low <= high + 1
  PROVE  LET d == Q[<<c, low, high>>]
         IN  d \in [D -> V] /\ Moved(d, c, low .. high) /\ Ordered(d, low, high)
  <1> DEFINE
        Done(e, l, h) == LET d == Q[<<e, l, h>>]
                          IN  d \in [D -> V] /\ Moved(d, e, l .. h) /\ Ordered(d, l, h)
        Call(e, l, h) == /\ e \in [D -> V] /\ l \in low .. high + 1 /\ h \in low - 1 .. high
                         /\ Numeric(e, l .. h)
        S == {w \in Nat : \A e \in [D -> V], l \in low .. high + 1, h \in low - 1 .. high :
                            Numeric(e, l .. h) /\ h - l + 1 <= w => Done(e, l, h)}
  <1>1. ASSUME NEW e, NEW l, NEW h, Call(e, l, h)
        PROVE  LET r == DArray_fucked_qsort_partition(e, l, h)
               IN  Q[<<e, l, h>>] = IF l >= h THEN e ELSE Q[<<Q[<<r.c, l, r.p - 1>>], r.p + 1, h>>]
    <2>1. PICK s : s = <<e, l, h>>
      OBVIOUS
    <2>2. s \in QsortCalls([D -> V], low, high) /\ s[1] = e /\ s[2] = l /\ s[3] = h
      BY <1>1, <2>1 DEF QsortCalls
    <2> QED BY <2>1, <2>2 DEF Qsorts
  <1>2. ASSUME NEW e, NEW l, NEW h, Call(e, l, h), l >= h PROVE Done(e, l, h)
    <2>1. Q[<<e, l, h>>] = e
      BY <1>1, <1>2
    <2>2. Ordered(e, l, h)
      BY <1>2 DEF Ordered
    <2> QED BY <1>2, <2>1, <2>2, MovedNot
  <1>3. 0 \in S
    <2>1. \A l \in low .. high + 1, h \in low - 1 .. high : h - l + 1 <= 0 => l >= h
      OBVIOUS
    <2> HIDE DEF Done
    <2> QED BY <1>2, <2>1
  <1>4. ASSUME NEW w \in Nat, w \in S,
               NEW e, NEW l, NEW h, Call(e, l, h), h - l + 1 <= w + 1, ~(l >= h)
        PROVE  Done(e, l, h)
    <2>1. PICK r : r = DArray_fucked_qsort_partition(e, l, h)
      OBVIOUS
    <2>2. /\ l \in Int /\ h \in Int /\ l < h /\ l .. h \subseteq low .. high /\ l .. h \subseteq D
          /\ low <= l /\ h <= high
      BY <1>4
    <2>3. /\ r.c \in [D -> V] /\ Moved(r.c, e, l .. h) /\ r.p \in l .. h
          /\ \A j \in l .. r.p - 1 : r.c[j] <= r.c[r.p]
          /\ \A j \in r.p + 1 .. h : r.c[r.p] <= r.c[j]
      <3>1. e \in [D -> V] /\ Numeric(e, l .. h) /\ l <= h
        BY <1>4, <2>2
      <3> HIDE DEF Done, Call, S
      <3> QED BY <2>1, <2>2, <3>1, PartitionFacts
    <2>4. PICK c1, p : c1 = r.c /\ p = r.p
      OBVIOUS
    <2>18. p \in Int /\ p \in l .. h
      BY <2>2, <2>3, <2>4
    <2>5. /\ p \in Int /\ p \in l .. h /\ p - 1 \in low - 1 .. high /\ p + 1 \in low .. high + 1
          /\ l .. p - 1 \subseteq l .. h /\ p + 1 .. h \subseteq l .. h
          /\ (p - 1) - l + 1 <= w /\ h - (p + 1) + 1 <= w
      BY <1>4, <2>2, <2>18
    <2>6. Numeric(c1, l .. h)
      BY <1>4, <2>3, <2>4, MovedIsNumeric
    <2>7. Numeric(c1, l .. p - 1)
      BY <2>5, <2>6 DEF Numeric
    <2>8. PICK d : d = Q[<<c1, l, p - 1>>]
      OBVIOUS
    <2>9. d \in [D -> V] /\ Moved(d, c1, l .. p - 1) /\ Ordered(d, l, p - 1)
      <3>1. c1 \in [D -> V] /\ l \in low .. high + 1
        BY <1>4, <2>3, <2>4
      <3>2. Done(c1, l, p - 1)
        <4> HIDE DEF Done
        <4> QED BY <1>4, <2>5, <2>7, <3>1
      <3> QED BY <2>8, <3>2
    <2>10. Moved(d, c1, l .. h) /\ DOMAIN c1 = D /\ DOMAIN d = D
      <3>1. DOMAIN c1 = D /\ DOMAIN d = D
        BY <2>3, <2>4, <2>9
      <3> QED BY <2>2, <2>5, <2>9, <3>1, MovedWithin
    <2>11. Numeric(d, l .. h)
      BY <2>6, <2>10, MovedIsNumeric
    <2>12. Numeric(d, p + 1 .. h)
      BY <2>5, <2>11 DEF Numeric
    <2>13. PICK f : f = Q[<<d, p + 1, h>>]
      OBVIOUS
    <2>14. f \in [D -> V] /\ Moved(f, d, p + 1 .. h) /\ Ordered(f, p + 1, h)
      <3>1. h \in low - 1 .. high
        BY <1>4
      <3>2. Done(d, p + 1, h)
        <4> HIDE DEF Done
        <4> QED BY <1>4, <2>5, <2>9, <2>12, <3>1
      <3> QED BY <2>13, <3>2
    <2>15. Moved(f, e, l .. h)
      <3>1. Moved(f, d, l .. h)
        BY <2>2, <2>5, <2>10, <2>14, MovedWithin
      <3> QED BY <2>3, <2>4, <2>10, <3>1, MovedTwice
    <2>16. Ordered(f, l, h)
      <3>1. /\ \A j \in l .. p - 1 : c1[j] <= c1[p]
            /\ \A j \in p + 1 .. h : c1[p] <= c1[j]
        BY <2>3, <2>4
      <3> QED BY <2>2, <2>5, <2>6, <2>9, <2>10, <2>14, <3>1, SidesInOrder
    <2>17. Q[<<e, l, h>>] = f
      BY <1>1, <1>4, <2>1, <2>4, <2>8, <2>13
    <2> QED BY <2>14, <2>15, <2>16, <2>17
  <1>5. ASSUME NEW w \in Nat, w \in S PROVE w + 1 \in S
    <2> HIDE DEF Done
    <2> SUFFICES ASSUME NEW e \in [D -> V], NEW l \in low .. high + 1, NEW h \in low - 1 .. high,
                        Numeric(e, l .. h), h - l + 1 <= w + 1
                 PROVE  Done(e, l, h)
      OBVIOUS
    <2>1. Call(e, l, h)
      OBVIOUS
    <2> HIDE DEF S
    <2> QED BY <1>2, <1>4, <1>5, <2>1
  <1>6. Nat \subseteq S
    <2> HIDE DEF S
    <2> QED BY <1>3, <1>5, Induction
  <1>7. Done(c, low, high)
    <2> HIDE DEF Done
    <2>1. PICK w \in Nat : w = high - low + 1
      OBVIOUS
    <2>2. low \in low .. high + 1 /\ high \in low - 1 .. high
      OBVIOUS
    <2>3. w \in S
      BY <1>6
    <2>4. high - low + 1 <= w
      BY <2>1
    <2> QED BY <2>2, <2>3, <2>4
  <1> QED BY <1>7

(* What a sort does with an array of n elements. *)
Sorts(d, c, n) == Moved(d, c, 0 .. n - 1) /\ Ordered(d, 0, n - 1)

(* DArray_fucked_qsort sorts. *)
LEMMA QsortFacts ==
  ASSUME NEW D \in SUBSET Int, NEW V, NEW c \in [D -> V], NEW n \in Nat, 0 .. n - 1 \subseteq D,
         Numeric(c, 0 .. n - 1)
  PROVE  Sorts(DArray_fucked_qsort_recurse(c, 0, n - 1), c, n)
  <1>1. DOMAIN c = D /\ 0 \in Int /\ n - 1 \in Int /\ 0 <= (n - 1) + 1
    OBVIOUS
  <1>2. c \in Arrangements(c)
    BY DEF Arrangements
  <1>3. PICK Q : /\ Qsorts(Q, Arrangements(c), 0, n - 1)
                 /\ DArray_fucked_qsort_recurse(c, 0, n - 1) = Q[<<c, 0, n - 1>>]
    BY <1>1, <1>2, QsortExists
  <1>4. PICK W : W = {c[j] : j \in DOMAIN c}
    OBVIOUS
  <1>5. Arrangements(c) = [D -> W]
    BY <1>1, <1>4 DEF Arrangements
  <1>6. c \in [D -> W]
    BY <1>2, <1>5
  <1>7. Qsorts(Q, [D -> W], 0, n - 1)
    BY <1>3, <1>5
  <1>8. PICK high : high = n - 1
    OBVIOUS
  <1>9. LET d == Q[<<c, 0, high>>] IN Moved(d, c, 0 .. high) /\ Ordered(d, 0, high)
    <2>1. high \in Int /\ 0 <= high + 1 /\ 0 .. high \subseteq D /\ Numeric(c, 0 .. high) /\ 0 \in Int
          /\ Qsorts(Q, [D -> W], 0, high)
      BY <1>1, <1>7, <1>8
    <2> QED BY ONLY <1>6, <2>1, D \in SUBSET Int, QsortSorts
  <1> QED BY <1>3, <1>8, <1>9 DEF Sorts

----------------------------------------------------------------------------
(* DArray_fucked_heapsort. *)

Child(k, j) == k = 2 * j + 1 \/ k = 2 * j + 2

(* No child is greater than its parent, between low and high, ... *)
Heap(c, low, high) == \A j, k \in low .. high : Child(k, j) => c[k] <= c[j]

(* ... but for the children of top, which are not greater than its parent. *)
HeapBut(c, low, high, top) ==
  /\ \A j, k \in low .. high : j # top /\ Child(k, j) => c[k] <= c[j]
  /\ \A j, k \in low .. high : Child(top, j) /\ Child(k, top) => c[k] <= c[j]

(* The larger child, or the element itself, is at least as large as the other. *)
LEMMA LargerFacts ==
  ASSUME NEW c, NEW top \in Nat, NEW end \in Int, 2 * top + 1 <= end
  PROVE  LET g == Larger(c, top, end)
         IN  /\ g \in top .. end /\ (g # top => Child(g, top) /\ g > top)
             /\ Numeric(c, top .. end) =>
                  c[top] <= c[g] /\ \A k \in top .. end : Child(k, top) => c[k] <= c[g]
  <1>1. PICK child : child = 2 * top + 1
    OBVIOUS
  <1>2. PICK left : left = IF c[top] < c[child] THEN child ELSE top
    OBVIOUS
  <1>3. PICK g : g = IF child + 1 <= end /\ c[left] < c[child + 1] THEN child + 1 ELSE left
    OBVIOUS
  <1>4. g = Larger(c, top, end)
    BY <1>1, <1>2, <1>3 DEF Larger
  <1>5. child \in Int /\ child \in top .. end /\ top \in top .. end /\ child > top /\ child <= end
    BY <1>1
  <1>6. left \in top .. end /\ (left # top => left = child)
    BY <1>2, <1>5
  <1>7. g \in top .. end /\ (g # top => g = child \/ g = child + 1)
    BY <1>3, <1>5, <1>6
  <1>8. g # top => Child(g, top) /\ g > top
    BY <1>1, <1>5, <1>7 DEF Child
  <1>9. ASSUME Numeric(c, top .. end)
        PROVE  c[top] <= c[g] /\ \A k \in top .. end : Child(k, top) => c[k] <= c[g]
    <2>1. \A k \in top .. end : c[k] \in Int
      BY <1>9 DEF Numeric
    <2>2. c[top] <= c[left] /\ c[child] <= c[left] /\ c[left] \in Int
      BY <1>2, <1>5, <1>6, <2>1
    <2>3. c[left] <= c[g] /\ c[g] \in Int
      BY <1>3, <1>5, <1>6, <1>7, <2>1
    <2>4. child + 1 <= end => c[child + 1] <= c[g]
      <3>1. ASSUME child + 1 <= end PROVE c[child + 1] <= c[g]
        <4>1. c[child + 1] \in Int
          BY <1>5, <2>1, <3>1
        <4> QED BY <1>3, <2>2, <3>1, <4>1
      <3> QED BY <3>1
    <2>5. c[top] \in Int /\ c[child] \in Int
      BY <1>5, <2>1
    <2>6. \A k \in top .. end : Child(k, top) => k = child \/ (k = child + 1 /\ child + 1 <= end)
      BY <1>1 DEF Child
    <2>7. c[top] <= c[g] /\ c[child] <= c[g]
      BY <2>2, <2>3, <2>5
    <2> QED BY <2>4, <2>6, <2>7
  <1> QED BY <1>4, <1>7, <1>8, <1>9

(* A round of the loop: what is wrong moves to the child. *)
LEMMA SiftStep ==
  ASSUME NEW D \in SUBSET Int, NEW c, DOMAIN c = D, NEW low \in Nat, NEW high \in Int,
         low .. high \subseteq D, NEW top \in low .. high, NEW g \in low .. high,
         Child(g, top), Numeric(c, low .. high), c[top] <= c[g],
         \A k \in low .. high : Child(k, top) => c[k] <= c[g],
         HeapBut(c, low, high, top)
  PROVE  HeapBut(Swap(c, top, g), low, high, g)
  <1>1. PICK d : d = Swap(c, top, g)
    OBVIOUS
  <1>2. d[top] = c[g] /\ d[g] = c[top] /\ \A i \in D \ {top, g} : d[i] = c[i]
    <2>1. top \in DOMAIN c /\ g \in DOMAIN c
      OBVIOUS
    <2> QED BY ONLY <2>1, <1>1, DOMAIN c = D, SwapValues
  <1>3. \A i \in low .. high : i \in D /\ i \in Nat
    OBVIOUS
  <1>4. g # top /\ \A j \in low .. high : Child(g, j) => j = top
    BY <1>3 DEF Child
  <1>5. ASSUME NEW j \in low .. high, NEW k \in low .. high, j # g, Child(k, j)
        PROVE  d[k] <= d[j]
    <2>0. k # j /\ k \in D /\ j \in D
      BY <1>3, <1>5 DEF Child
    <2>1. CASE j = top
      <3>1. CASE k = g
        BY <1>2, <2>1, <3>1
      <3>2. CASE k # g
        <4>1. d[k] = c[k]
          BY <1>2, <2>0, <2>1, <3>2
        <4> QED BY <1>2, <1>5, <2>1, <4>1
      <3> QED BY <3>1, <3>2
    <2>2. CASE j # top
      <3>1. d[j] = c[j] /\ k # g
        BY <1>2, <1>4, <1>5, <2>0, <2>2
      <3>2. CASE k = top
        <4>1. c[g] <= c[j]
          BY <1>5, <3>2 DEF HeapBut
        <4> QED BY <1>2, <3>1, <3>2, <4>1
      <3>3. CASE k # top
        <4>1. d[k] = c[k]
          BY <1>2, <2>0, <3>1, <3>3
        <4> QED BY <1>5, <2>2, <3>1, <4>1 DEF HeapBut
      <3> QED BY <3>2, <3>3
    <2> QED BY <2>1, <2>2
  <1>6. ASSUME NEW j \in low .. high, NEW k \in low .. high, Child(g, j), Child(k, g)
        PROVE  d[k] <= d[j]
    <2>1. j = top
      BY <1>4, <1>6
    <2>2. k # g /\ k # top /\ k \in D
      BY <1>3, <1>6 DEF Child
    <2>3. d[k] = c[k]
      BY <1>2, <2>2
    <2>4. c[k] <= c[g]
      BY <1>4, <1>6 DEF HeapBut
    <2> QED BY <1>2, <2>1, <2>3, <2>4
  <1> QED BY <1>1, <1>5, <1>6 DEF HeapBut

(* The loop by its rounds. *)
Sifts(F, A, top, end) ==
  \A s \in A \X (top .. end) :
    F[s] = IF 2 * s[2] + 1 > end \/ Larger(s[1], s[2], end) = s[2] THEN s[1]
           ELSE F[<<Swap(s[1], s[2], Larger(s[1], s[2], end)), Larger(s[1], s[2], end)>>]

(* The sift ends: its root goes up. *)
LEMMA SiftExists ==
  ASSUME NEW c, NEW top \in Nat, NEW end \in Int, DOMAIN c \subseteq Int,
         top .. end \subseteq DOMAIN c, c \in Arrangements(c)
  PROVE  \E F : /\ Sifts(F, Arrangements(c), top, end)
                /\ DArray_fucked_heapsort_sift_down(c, top, end) = F[<<c, top>>]
  <1> DEFINE
        A == Arrangements(c)
        D == A \X (top .. end)
        g(s) == Larger(s[1], s[2], end)
        measure == [s \in D |-> end - s[2]]
        value(f, s) == IF 2 * s[2] + 1 > end \/ g(s) = s[2] THEN s[1]
                       ELSE f[<<Swap(s[1], s[2], g(s)), g(s)>>]
        body == [f \in [D -> A] |-> [s \in D |-> value(f, s)]]
        IsF(f) == f = [s \in A \X (top .. end) |->
                        LET larger == Larger(s[1], s[2], end)
                        IN  IF 2 * s[2] + 1 > end \/ larger = s[2] THEN s[1]
                            ELSE f[<<Swap(s[1], s[2], larger), larger>>]]
  <1>1. \A s \in D : s[1] \in A /\ s[2] \in top .. end
    OBVIOUS
  <1>2. \A d \in A, j \in top .. end : <<d, j>> \in D /\ <<d, j>>[1] = d /\ <<d, j>>[2] = j
    OBVIOUS
  <1>3. \A s \in D : measure[s] = end - s[2]
    OBVIOUS
  <1>4. measure \in [D -> Nat]
    BY <1>1
  <1> HIDE DEF D, measure
  <1>5. ASSUME NEW s \in D, ~(2 * s[2] + 1 > end), g(s) # s[2]
        PROVE  LET t == <<Swap(s[1], s[2], g(s)), g(s)>>
               IN  t \in D /\ measure[t] < measure[s]
    <2>1. PICK d, j : d = s[1] /\ j = s[2]
      OBVIOUS
    <2>2. PICK h : h = g(s)
      OBVIOUS
    <2>3. d \in A /\ j \in top .. end /\ j \in Nat /\ j \in DOMAIN c /\ 2 * j + 1 <= end
      BY <1>1, <1>5, <2>1
    <2>4. h = Larger(d, j, end)
      BY <2>1, <2>2
    <2>5. h \in j .. end /\ h > j
      <3>1. h \in j .. end /\ (h # j => h > j)
        BY <2>3, <2>4, LargerFacts
      <3> QED BY <1>5, <2>1, <2>2, <3>1
    <2>6. h \in top .. end /\ h \in DOMAIN c
      BY <2>3, <2>5
    <2>7. Swap(d, j, h) \in A
      BY <2>3, <2>6, SwapType DEF Arrangements
    <2>8. <<Swap(d, j, h), h>> \in D /\ measure[<<Swap(d, j, h), h>>] = end - h
      BY <1>2, <1>3, <2>6, <2>7
    <2>9. measure[s] = end - j
      BY <1>3, <2>1
    <2>10. end - h < end - j
      BY <2>3, <2>5
    <2> HIDE DEF g
    <2> QED BY <2>1, <2>2, <2>8, <2>9, <2>10
  <1> HIDE DEF g
  <1>6. ASSUME NEW f \in [D -> A], NEW s \in D PROVE value(f, s) \in A
    BY <1>1, <1>5
  <1>7. body \in [[D -> A] -> [D -> A]]
    <2>1. \A f \in [D -> A] : [s \in D |-> value(f, s)] \in [D -> A]
      <3> HIDE DEF value, A
      <3> QED BY <1>6
    <2> HIDE DEF value, A
    <2> QED BY <2>1
  <1>8. ASSUME NEW f \in [D -> A], NEW h \in [D -> A], NEW s \in D,
               \A q \in D : measure[q] < measure[s] => f[q] = h[q]
        PROVE  body[f][s] = body[h][s]
    <2>1. body[f][s] = value(f, s) /\ body[h][s] = value(h, s)
      <3> HIDE DEF value, A
      <3> QED OBVIOUS
    <2>2. ~(2 * s[2] + 1 > end) /\ g(s) # s[2] =>
            f[<<Swap(s[1], s[2], g(s)), g(s)>>] = h[<<Swap(s[1], s[2], g(s)), g(s)>>]
      BY <1>5, <1>8
    <2> HIDE DEF body
    <2> QED BY <2>1, <2>2
  <1>9. PICK f : IsFixed(f, D, A, body)
    <2>1. GoesDown(D, A, measure, body)
      <3> HIDE DEF body, A
      <3> QED BY <1>8 DEF GoesDown
    <2>2. measure \in Measures(D) /\ body \in Bodies(D, A) /\ c \in A
      <3> HIDE DEF body
      <3> QED BY <1>4, <1>7 DEF Measures, Bodies
    <2> HIDE DEF body, A
    <2> QED BY <2>1, <2>2, MeasuredRecursion
  <1>10. \A h : IsF(h) <=> h = [s \in D |-> value(h, s)]
    BY DEF D, g
  <1>11. IsF(f)
    <2>1. f \in [D -> A] /\ f = body[f]
      BY <1>9 DEF IsFixed
    <2>2. f = [s \in D |-> value(f, s)]
      <3> HIDE DEF value, A
      <3> QED BY <2>1
    <2> HIDE DEF value, A, IsF
    <2> QED BY <1>10, <2>2
  <1>12. PICK F : F = CHOOSE h : IsF(h)
    OBVIOUS
  <1>13. IsF(F)
    <2> HIDE DEF IsF
    <2> QED BY <1>11, <1>12
  <1>14. F = [s \in D |-> value(F, s)]
    BY <1>10, <1>13
  <1>15. DArray_fucked_heapsort_sift_down(c, top, end) = (CHOOSE h : IsF(h))[<<c, top>>]
    BY DEF DArray_fucked_heapsort_sift_down
  <1>16. Sifts(F, A, top, end)
    <2>1. \A s \in D : F[s] = value(F, s)
      <3> HIDE DEF value
      <3> QED BY <1>14
    <2> QED BY <2>1 DEF Sifts, D, g
  <1> HIDE DEF IsF, value
  <1> QED BY <1>12, <1>15, <1>16

(* What a round of the loop and those after it do. *)
LEMMA SiftSorts ==
  ASSUME NEW D \in SUBSET Int, NEW V, NEW low \in Nat, NEW high \in Int, low .. high \subseteq D,
         NEW top \in low .. high, NEW F, Sifts(F, [D -> V], top, high),
         NEW c \in [D -> V], Numeric(c, low .. high), HeapBut(c, low, high, top)
  PROVE  LET d == F[<<c, top>>]
         IN  d \in [D -> V] /\ Moved(d, c, low .. high) /\ Heap(d, low, high)
  <1> DEFINE
        Done(e, j) == LET d == F[<<e, j>>]
                       IN  d \in [D -> V] /\ Moved(d, e, low .. high) /\ Heap(d, low, high)
        Ready(e, j) == Numeric(e, low .. high) /\ HeapBut(e, low, high, j)
        S == {w \in Nat : \A e \in [D -> V], j \in top .. high :
                            Ready(e, j) /\ high - j <= w => Done(e, j)}
  <1>1. ASSUME NEW e \in [D -> V], NEW j \in top .. high
        PROVE  F[<<e, j>>] = IF 2 * j + 1 > high \/ Larger(e, j, high) = j THEN e
                             ELSE F[<<Swap(e, j, Larger(e, j, high)), Larger(e, j, high)>>]
    <2>1. PICK s : s = <<e, j>>
      OBVIOUS
    <2>2. s \in [D -> V] \X (top .. high) /\ s[1] = e /\ s[2] = j
      BY <2>1
    <2> QED BY <2>1, <2>2 DEF Sifts
  <1>2. \A j \in top .. high : j \in low .. high /\ j \in Nat /\ j \in D
    OBVIOUS
  <1>3. ASSUME NEW e \in [D -> V], NEW j \in top .. high, Ready(e, j),
               2 * j + 1 > high \/ Larger(e, j, high) = j
        PROVE  Done(e, j)
    <2>1. F[<<e, j>>] = e
      BY <1>1, <1>3
    <2>2. ASSUME NEW k \in low .. high, Child(k, j) PROVE e[k] <= e[j]
      <3>1. CASE 2 * j + 1 > high
        BY <1>2, <2>2, <3>1 DEF Child
      <3>2. CASE ~(2 * j + 1 > high) /\ Larger(e, j, high) = j
        <4>1. 2 * j + 1 <= high /\ j \in Nat /\ k \in j .. high
          BY <1>2, <2>2, <3>2 DEF Child
        <4>2. Numeric(e, j .. high)
          BY <1>2, <1>3 DEF Numeric
        <4> QED BY <2>2, <3>2, <4>1, <4>2, LargerFacts
      <3> QED BY <1>3, <3>1, <3>2
    <2>3. Heap(e, low, high)
      BY <1>3, <2>2 DEF Heap, HeapBut
    <2> QED BY <2>1, <2>3, MovedNot
  <1>4. 0 \in S
    <2>1. \A j \in top .. high : high - j <= 0 => 2 * j + 1 > high
      BY <1>2
    <2> HIDE DEF Done, Ready
    <2> QED BY <1>3, <2>1
  <1>5. ASSUME NEW w \in Nat, w \in S,
               NEW e \in [D -> V], NEW j \in top .. high, Ready(e, j), high - j <= w + 1,
               ~(2 * j + 1 > high), Larger(e, j, high) # j
        PROVE  Done(e, j)
    <2>1. PICK g : g = Larger(e, j, high)
      OBVIOUS
    <2>2. Numeric(e, low .. high) /\ HeapBut(e, low, high, j) /\ DOMAIN e = D
      BY <1>5
    <2>3. Numeric(e, j .. high)
      BY <1>2, <2>2 DEF Numeric
    <2>4. 2 * j + 1 <= high /\ j \in Nat /\ j \in low .. high /\ g # j
      BY <1>2, <1>5, <2>1
    <2>5. /\ g \in j .. high /\ Child(g, j) /\ g > j /\ e[j] <= e[g]
          /\ \A k \in j .. high : Child(k, j) => e[k] <= e[g]
      BY ONLY <2>1, <2>3, <2>4, high \in Int, LargerFacts
    <2>6. g \in top .. high /\ g \in low .. high /\ g \in D /\ high - g <= w
      BY <1>2, <1>5, <2>4, <2>5
    <2>7. \A k \in low .. high : Child(k, j) => e[k] <= e[g]
      <3>1. \A k \in low .. high : Child(k, j) => k \in j .. high
        BY <2>4 DEF Child
      <3> QED BY <2>5, <3>1
    <2>8. PICK d : d = Swap(e, j, g)
      OBVIOUS
    <2>9. HeapBut(d, low, high, g)
      <3> HIDE DEF Done, Ready, S
      <3> QED BY <2>2, <2>4, <2>5, <2>6, <2>7, <2>8, SiftStep
    <2>10. d \in [D -> V] /\ Moved(d, e, low .. high)
      <3>1. d \in [D -> V]
        BY <1>2, <2>6, <2>8, SwapType
      <3>2. Moved(d, e, low .. high)
        BY <2>2, <2>4, <2>6, <2>8, SwapMoves
      <3> QED BY <3>1, <3>2
    <2>11. Ready(d, g)
      BY <2>2, <2>9, <2>10, MovedIsNumeric
    <2>12. Done(d, g)
      <3> HIDE DEF Done, Ready
      <3> QED BY <1>5, <2>6, <2>10, <2>11
    <2>13. F[<<e, j>>] = F[<<d, g>>]
      BY <1>1, <1>5, <2>1, <2>8
    <2>14. Moved(F[<<d, g>>], e, low .. high)
      BY <2>10, <2>12, MovedTwice
    <2> QED BY <2>12, <2>13, <2>14
  <1>6. ASSUME NEW w \in Nat, w \in S PROVE w + 1 \in S
    <2> HIDE DEF Done, Ready
    <2> SUFFICES ASSUME NEW e \in [D -> V], NEW j \in top .. high, Ready(e, j), high - j <= w + 1
                 PROVE  Done(e, j)
      OBVIOUS
    <2> HIDE DEF S
    <2> QED BY <1>3, <1>5, <1>6
  <1>7. Nat \subseteq S
    <2> HIDE DEF S
    <2> QED BY <1>4, <1>6, Induction
  <1>8. Done(c, top)
    <2> HIDE DEF Done
    <2>1. PICK w \in Nat : w = high - top
      OBVIOUS
    <2>2. Ready(c, top) /\ top \in top .. high /\ high - top <= w
      BY <2>1
    <2> HIDE DEF Ready
    <2>3. w \in S
      BY <1>7
    <2> QED BY <2>2, <2>3
  <1> QED BY <1>8

(* A heap but for its root is a heap after the sift. *)
LEMMA SiftFacts ==
  ASSUME NEW D \in SUBSET Int, NEW V, NEW low \in Nat, NEW high \in Int, low .. high \subseteq D,
         NEW top \in low .. high,
         NEW c \in [D -> V], Numeric(c, low .. high), HeapBut(c, low, high, top)
  PROVE  LET d == DArray_fucked_heapsort_sift_down(c, top, high)
         IN  d \in [D -> V] /\ Moved(d, c, low .. high) /\ Heap(d, low, high)
  <1>1. DOMAIN c = D /\ top \in Nat /\ top .. high \subseteq D
    OBVIOUS
  <1>2. c \in Arrangements(c)
    BY DEF Arrangements
  <1>3. PICK F : /\ Sifts(F, Arrangements(c), top, high)
                 /\ DArray_fucked_heapsort_sift_down(c, top, high) = F[<<c, top>>]
    BY <1>1, <1>2, SiftExists
  <1>4. PICK W : W = {c[j] : j \in D}
    OBVIOUS
  <1>5. Arrangements(c) = [D -> W] /\ W \subseteq V
    BY <1>1, <1>4 DEF Arrangements
  <1>6. c \in [D -> W] /\ Sifts(F, [D -> W], top, high)
    BY <1>2, <1>3, <1>5
  <1>7. LET d == F[<<c, top>>]
        IN  d \in [D -> W] /\ Moved(d, c, low .. high) /\ Heap(d, low, high)
    BY <1>6, SiftSorts
  <1>8. F[<<c, top>>] \in [D -> V]
    BY <1>5, <1>7
  <1> QED BY <1>3, <1>7, <1>8

(* The first is the greatest of a heap. *)
LEMMA HeapTop ==
  ASSUME NEW c, NEW high \in Nat, Numeric(c, 0 .. high), Heap(c, 0, high)
  PROVE  \A k \in 0 .. high : c[k] <= c[0]
  <1> DEFINE S == {n \in Nat : \A k \in 0 .. high : k <= n => c[k] <= c[0]}
  <1>1. \A k \in 0 .. high : c[k] \in Int
    BY DEF Numeric
  <1>2. 0 \in S
    <2>1. 0 \in 0 .. high
      OBVIOUS
    <2> QED BY <1>1, <2>1
  <1>3. ASSUME NEW n \in Nat, n \in S PROVE n + 1 \in S
    <2> SUFFICES ASSUME NEW k \in 0 .. high, k = n + 1 PROVE c[k] <= c[0]
      BY <1>3
    <2>1. PICK j : j = (k - 1) \div 2
      OBVIOUS
    <2>2. j \in 0 .. high /\ j <= n /\ Child(k, j)
      BY <2>1 DEF Child
    <2>3. c[k] <= c[j] /\ c[j] <= c[0]
      BY <1>3, <2>2 DEF Heap
    <2>4. 0 \in 0 .. high
      OBVIOUS
    <2> QED BY <1>1, <2>2, <2>3, <2>4
  <1>4. Nat \subseteq S
    <2> HIDE DEF S
    <2> QED BY <1>2, <1>3, Induction
  <1>5. high \in S
    BY <1>4
  <1> QED BY <1>5

(* Afterwards no child is greater than its parent. *)
LEMMA HeapifyFacts ==
  ASSUME NEW D \in SUBSET Int, NEW V, NEW count \in Nat \ {0}, 0 .. count - 1 \subseteq D,
         NEW c \in [D -> V], Numeric(c, 0 .. count - 1)
  PROVE  LET d == DArray_fucked_heapsort_heapify(c, count)
         IN  d \in [D -> V] /\ Moved(d, c, 0 .. count - 1) /\ Heap(d, 0, count - 1)
  <1>1. PICK first : first = IF count = 1 THEN 0 ELSE (count - 2) \div 2
    OBVIOUS
  <1>2. first \in Nat /\ first <= count - 1 /\ 2 * (first + 1) + 1 > count - 1
    BY <1>1
  <1> DEFINE
        A == [D -> V]
        sift(n, x) == DArray_fucked_heapsort_sift_down(x, first + 1 - n, count - 1)
        step == [n \in 0 .. first + 1 |-> [x \in A |-> sift(n, x)]]
        T == [n \in 0 .. first + 1 |->
                {x \in A : Moved(x, c, 0 .. count - 1) /\ Heap(x, first + 1 - n, count - 1)}]
        IsH(f) == f = [n \in 0 .. first + 1 |-> IF n = 0 THEN c ELSE sift(n, f[n - 1])]
  <1>3. c \in T[0]
    <2>1. Heap(c, first + 1, count - 1)
      BY <1>2 DEF Heap, Child
    <2>2. Moved(c, c, 0 .. count - 1) /\ first + 1 - 0 = first + 1 /\ 0 \in 0 .. first + 1
      BY <1>2, MovedNot
    <2> QED BY <2>1, <2>2
  <1>4. ASSUME NEW n \in 0 + 1 .. first + 1, NEW x \in T[n - 1]
        PROVE  step[n][x] \in T[n] /\ step[n][x] = sift(n, x)
    <2>1. PICK low : low = first + 1 - n
      OBVIOUS
    <2>2. /\ n \in 0 .. first + 1 /\ n - 1 \in 0 .. first + 1 /\ low \in Nat /\ low <= count - 1
          /\ first + 1 - (n - 1) = low + 1 /\ low \in low .. count - 1
          /\ low .. count - 1 \subseteq 0 .. count - 1
      BY <1>2, <2>1
    <2>3. x \in A /\ Moved(x, c, 0 .. count - 1) /\ Heap(x, low + 1, count - 1)
      BY <2>2
    <2>4. HeapBut(x, low, count - 1, low)
      <3>1. \A j, k \in low .. count - 1 : j # low /\ Child(k, j) => j \in low + 1 .. count - 1 /\ k \in low + 1 .. count - 1
        BY <2>2 DEF Child
      <3>2. \A j \in low .. count - 1 : ~Child(low, j)
        BY <2>2 DEF Child
      <3> QED BY <2>3, <3>1, <3>2 DEF Heap, HeapBut
    <2>5. Numeric(x, 0 .. count - 1)
      BY <2>3, MovedIsNumeric
    <2>6. Numeric(x, low .. count - 1)
      BY <2>2, <2>5 DEF Numeric
    <2>7. PICK d : d = sift(n, x)
      OBVIOUS
    <2>8. d \in A /\ Moved(d, x, low .. count - 1) /\ Heap(d, low, count - 1)
      <3>1. d = DArray_fucked_heapsort_sift_down(x, low, count - 1)
        BY <2>1, <2>7
      <3>2. low .. count - 1 \subseteq D /\ count - 1 \in Int
        BY <2>2
      <3> HIDE DEF T, step, sift
      <3> QED BY <2>2, <2>3, <2>4, <2>6, <3>1, <3>2, SiftFacts
    <2>9. Moved(d, c, 0 .. count - 1)
      <3>1. Moved(d, x, 0 .. count - 1)
        <4>1. DOMAIN x = D
          BY <2>3
        <4> QED BY <2>2, <2>8, <4>1, MovedWithin
      <3> QED BY <2>3, <3>1, MovedTwice
    <2>10. d \in T[n]
      BY <2>1, <2>2, <2>8, <2>9
    <2>11. step[n][x] = sift(n, x)
      <3> HIDE DEF sift
      <3> QED BY <2>2, <2>3
    <2> QED BY <2>7, <2>10, <2>11
  <1>5. \A n \in 0 .. first + 1 : T[n] \subseteq A
    OBVIOUS
  <1>6. 0 <= first + 1 /\ first + 1 \in Int /\ 0 \in Int /\ first + 1 \in 0 .. first + 1 /\ 0 \in 0 .. first + 1
    BY <1>2
  <1>7. \E f : IsH(f)
    <2>1. PICK f : Loops(f, 0, first + 1, c, step) /\ \A j \in 0 .. first + 1 : f[j] \in T[j]
      <3> HIDE DEF A, step, T, sift
      <3> QED BY <1>3, <1>4, <1>5, <1>6, LoopExists
    <2>2. ASSUME NEW j \in 0 .. first + 1, j # 0 PROVE step[j][f[j - 1]] = sift(j, f[j - 1])
      <3>1. j \in 0 + 1 .. first + 1 /\ j - 1 \in 0 .. first + 1
        BY <1>2, <2>2
      <3> HIDE DEF A, step, T, sift
      <3> QED BY <1>4, <2>1, <3>1
    <2>3. IsH(f)
      <3> HIDE DEF A, step, T, sift
      <3> QED BY <2>1, <2>2 DEF Loops
    <2> QED BY <2>3
  <1>8. PICK H : H = CHOOSE f : IsH(f)
    OBVIOUS
  <1>9. IsH(H)
    <2> HIDE DEF IsH
    <2> QED BY <1>7, <1>8
  <1>10. \A n \in 0 .. first + 1 : H[n] \in T[n]
    <2>1. H[0] \in T[0]
      <3>1. H[0] = c
        BY <1>6, <1>9
      <3> QED BY <1>3, <3>1
    <2>2. ASSUME NEW n \in 0 + 1 .. first + 1, H[n - 1] \in T[n - 1] PROVE H[n] \in T[n]
      <3>1. n \in 0 .. first + 1 /\ n # 0
        BY <1>6
      <3>2. H[n] = sift(n, H[n - 1])
        <4> HIDE DEF sift
        <4> QED BY <1>9, <3>1
      <3> HIDE DEF T, step, sift
      <3> QED BY <1>4, <2>2, <3>2
    <2> HIDE DEF T
    <2> QED BY <1>6, <2>1, <2>2, LoopKeeps
  <1>11. H[first + 1] \in A /\ Moved(H[first + 1], c, 0 .. count - 1) /\ Heap(H[first + 1], 0, count - 1)
    <2>1. first + 1 - (first + 1) = 0
      BY <1>2
    <2>2. H[first + 1] \in T[first + 1]
      BY <1>6, <1>10
    <2> QED BY <1>6, <2>1, <2>2
  <1>12. DArray_fucked_heapsort_heapify(c, count) = H[first + 1]
    <2>1. DArray_fucked_heapsort_heapify(c, count) = (CHOOSE f : IsH(f))[first + 1]
      BY <1>1 DEF DArray_fucked_heapsort_heapify
    <2> HIDE DEF IsH
    <2> QED BY <1>8, <2>1
  <1> QED BY <1>11, <1>12

(* What the heap is after n of its greatest have gone to the end. *)
Drained(c, V, count, n) ==
  {x \in [DOMAIN c -> V] :
     /\ Moved(x, c, 0 .. count - 1)
     /\ Heap(x, 0, count - n - 1) /\ Ordered(x, count - n, count - 1)
     /\ \A j \in 0 .. count - n - 1, k \in count - n .. count - 1 : x[j] <= x[k]}

(* One more of the greatest has gone to the end. *)
LEMMA DrainStep ==
  ASSUME NEW D \in SUBSET Int, NEW V, NEW count \in Nat \ {0}, 0 .. count - 1 \subseteq D,
         NEW c \in [D -> V], Numeric(c, 0 .. count - 1),
         NEW n \in 1 .. count - 1, NEW x \in Drained(c, V, count, n - 1)
  PROVE  DArray_fucked_heapsort_sift_down(Swap(x, count - n, 0), 0, count - n - 1)
           \in Drained(c, V, count, n)
  <1>1. PICK m : m = count - n
    OBVIOUS
  <1>2. /\ m \in Nat /\ m >= 1 /\ m <= count - 1 /\ count - (n - 1) = m + 1
        /\ count - (n - 1) - 1 = m /\ 0 \in 0 .. m - 1
        /\ 0 .. m - 1 \subseteq 0 .. count - 1 /\ 0 .. m \subseteq 0 .. count - 1
        /\ m \in 0 .. count - 1 /\ 0 \in 0 .. count - 1
    BY <1>1
  <1>3. /\ x \in [D -> V] /\ DOMAIN x = D /\ Moved(x, c, 0 .. count - 1)
        /\ Heap(x, 0, m) /\ Ordered(x, m + 1, count - 1)
        /\ \A j \in 0 .. m, k \in m + 1 .. count - 1 : x[j] <= x[k]
    BY <1>2 DEF Drained
  <1>4. Numeric(x, 0 .. count - 1)
    BY <1>3, MovedIsNumeric
  <1>5. \A j \in 0 .. m : x[j] <= x[0]
    <2>1. Numeric(x, 0 .. m)
      BY <1>2, <1>4 DEF Numeric
    <2> QED BY <1>2, <1>3, <2>1, HeapTop
  <1>6. PICK y : y = Swap(x, m, 0)
    OBVIOUS
  <1>7. y[m] = x[0] /\ y[0] = x[m] /\ \A i \in D \ {m, 0} : y[i] = x[i]
    <2>1. m \in DOMAIN x /\ 0 \in DOMAIN x
      BY <1>2, <1>3
    <2> QED BY ONLY <2>1, <1>3, <1>6, SwapValues
  <1>8. y \in [D -> V] /\ DOMAIN y = D /\ Moved(y, x, 0 .. count - 1)
    <2>1. m \in D /\ 0 \in D
      BY <1>2
    <2>2. y \in [D -> V]
      BY <1>3, <1>6, <2>1, SwapType
    <2>3. Moved(y, x, 0 .. count - 1)
      BY <1>2, <1>3, <1>6, SwapMoves
    <2> QED BY <2>2, <2>3
  <1>9. Moved(y, c, 0 .. count - 1)
    BY <1>3, <1>8, MovedTwice
  <1>10. Numeric(y, 0 .. count - 1)
    BY <1>4, <1>8, MovedIsNumeric
  <1>11. Numeric(y, 0 .. m - 1)
    BY <1>2, <1>10 DEF Numeric
  <1>12. HeapBut(y, 0, m - 1, 0)
    <2>1. \A j \in 0 .. m - 1 : ~Child(0, j)
      BY DEF Child
    <2>2. ASSUME NEW j \in 0 .. m - 1, NEW k \in 0 .. m - 1, j # 0, Child(k, j) PROVE y[k] <= y[j]
      <3>1. j \in 0 .. m /\ k \in 0 .. m /\ k # 0 /\ k # m /\ j # m /\ k \in D /\ j \in D
        BY <1>2, <2>2 DEF Child
      <3>2. y[k] = x[k] /\ y[j] = x[j]
        BY <1>7, <2>2, <3>1
      <3> QED BY <1>3, <2>2, <3>1, <3>2 DEF Heap
    <2> QED BY <2>1, <2>2 DEF HeapBut
  <1>13. PICK z : z = DArray_fucked_heapsort_sift_down(y, 0, m - 1)
    OBVIOUS
  <1>14. z \in [D -> V] /\ Moved(z, y, 0 .. m - 1) /\ Heap(z, 0, m - 1)
    <2>1. 0 .. m - 1 \subseteq D /\ m - 1 \in Int /\ 0 \in Nat
      BY <1>2
    <2> QED BY <1>2, <1>8, <1>11, <1>12, <1>13, <2>1, SiftFacts
  <1>15. Moved(z, c, 0 .. count - 1)
    <2>1. Moved(z, y, 0 .. count - 1)
      BY <1>2, <1>8, <1>14, MovedWithin
    <2> QED BY <1>9, <2>1, MovedTwice
  <1>16. /\ z[m] = x[0]
         /\ \A k \in m + 1 .. count - 1 : z[k] = x[k]
    <2>1. \A k \in m .. count - 1 : k \in D /\ k \notin 0 .. m - 1
      BY <1>2
    <2>2. \A k \in m .. count - 1 : z[k] = y[k]
      BY <1>8, <1>14, <2>1 DEF Moved
    <2>3. \A k \in m + 1 .. count - 1 : k \in m .. count - 1 /\ k \in D /\ k # m /\ k # 0
      BY <1>2
    <2>4. m \in m .. count - 1
      BY <1>2
    <2> QED BY <1>7, <2>2, <2>3, <2>4
  <1>17. \A j \in 0 .. m - 1 : \E i \in 0 .. m : z[j] = x[i]
    <2> SUFFICES ASSUME NEW j \in 0 .. m - 1 PROVE \E i \in 0 .. m : z[j] = x[i]
      OBVIOUS
    <2>1. PICK k \in 0 .. m - 1 : z[j] = y[k]
      BY <1>14 DEF Moved
    <2>2. CASE k = 0
      <3>1. m \in 0 .. m
        BY <1>2
      <3> QED BY <1>7, <2>1, <2>2, <3>1
    <2>3. CASE k # 0
      <3>1. k \in D /\ k # m /\ k \in 0 .. m
        BY <1>2
      <3> QED BY <1>7, <2>1, <2>3, <3>1
    <2> QED BY <2>2, <2>3
  <1>18. \A k \in m .. count - 1 : k = m \/ k \in m + 1 .. count - 1
    BY <1>2
  <1>19. \A i \in 0 .. m : \A k \in m .. count - 1 : x[i] <= z[k]
    BY <1>3, <1>5, <1>16, <1>18
  <1>20. Ordered(z, m, count - 1)
    <2> SUFFICES ASSUME NEW j \in m .. count - 1, NEW k \in m .. count - 1, j < k PROVE z[j] <= z[k]
      BY DEF Ordered
    <2>1. k \in m + 1 .. count - 1 /\ 0 \in 0 .. m
      BY <1>2
    <2>2. CASE j = m
      BY <1>16, <1>19, <2>1, <2>2
    <2>3. CASE j # m
      <3>1. j \in m + 1 .. count - 1
        BY <1>18, <2>3
      <3> QED BY <1>3, <1>16, <2>1, <3>1 DEF Ordered
    <2> QED BY <2>2, <2>3
  <1>21. z \in Drained(c, V, count, n)
    <2>1. DOMAIN c = D
      OBVIOUS
    <2>2. \A j \in 0 .. m - 1, k \in m .. count - 1 : z[j] <= z[k]
      BY <1>17, <1>19
    <2> QED BY <1>1, <1>14, <1>15, <1>20, <2>1, <2>2 DEF Drained
  <1> QED BY <1>1, <1>6, <1>13, <1>21

(* DArray_fucked_heapsort sorts. *)
LEMMA FuckedHeapsortFacts ==
  ASSUME NEW D \in SUBSET Int, NEW V, NEW a, a.end \in Nat, 0 .. a.end - 1 \subseteq D,
         a.contents \in [D -> V], Numeric(a.contents, 0 .. a.end - 1)
  PROVE  Sorts(DArray_fucked_heapsort(a), a.contents, a.end)
  <1>1. CASE a.end = 0
    <2>1. DArray_fucked_heapsort(a) = a.contents
      BY <1>1 DEF DArray_fucked_heapsort
    <2>2. Ordered(a.contents, 0, a.end - 1)
      BY <1>1 DEF Ordered
    <2> QED BY <2>1, <2>2, MovedNot DEF Sorts
  <1>2. CASE a.end # 0
    <2>1. PICK c, e : c = a.contents /\ e = a.end
      OBVIOUS
    <2> DEFINE
          A == [D -> V]
          start == DArray_fucked_heapsort_heapify(c, e)
          drain(n, x) == DArray_fucked_heapsort_sift_down(Swap(x, e - n, 0), 0, e - n - 1)
          step == [n \in 0 .. e - 1 |-> [x \in A |-> drain(n, x)]]
          T == [n \in 0 .. e - 1 |-> Drained(c, V, e, n)]
          IsS(f) == f = [n \in 0 .. a.end - 1 |->
                          IF n = 0 THEN DArray_fucked_heapsort_heapify(a.contents, a.end)
                          ELSE DArray_fucked_heapsort_sift_down(Swap(f[n - 1], a.end - n, 0), 0, a.end - n - 1)]
          Goes(f) == f = [n \in 0 .. e - 1 |-> IF n = 0 THEN start ELSE drain(n, f[n - 1])]
    <2>0. \A f : IsS(f) <=> Goes(f)
      BY <2>1
    <2>2. e \in Nat \ {0} /\ 0 .. e - 1 \subseteq D /\ c \in A /\ Numeric(c, 0 .. e - 1) /\ DOMAIN c = D
      BY <1>2, <2>1
    <2>3. start \in Drained(c, V, e, 0)
      <3>1. start \in A /\ Moved(start, c, 0 .. e - 1) /\ Heap(start, 0, e - 1)
        BY <2>2, HeapifyFacts
      <3>2. e - 0 .. e - 1 = {} /\ e - 0 - 1 = e - 1
        BY <2>2
      <3> HIDE DEF start
      <3> QED BY <2>2, <3>1, <3>2 DEF Drained, Ordered
    <2>4. \A n \in 0 .. e - 1 : T[n] \subseteq A
      BY <2>2 DEF Drained
    <2>5. ASSUME NEW n \in 0 + 1 .. e - 1, NEW x \in T[n - 1]
          PROVE  step[n][x] \in T[n] /\ step[n][x] = drain(n, x)
      <3>1. n \in 0 .. e - 1 /\ n - 1 \in 0 .. e - 1 /\ n \in 1 .. e - 1
        BY <2>2
      <3>2. x \in Drained(c, V, e, n - 1) /\ x \in A
        BY <2>4, <3>1
      <3>3. drain(n, x) \in Drained(c, V, e, n)
        BY <2>2, <3>1, <3>2, DrainStep
      <3> HIDE DEF drain, A
      <3> QED BY <3>1, <3>2, <3>3
    <2>6. 0 <= e - 1 /\ e - 1 \in Int /\ 0 \in Int /\ 0 \in 0 .. e - 1 /\ e - 1 \in 0 .. e - 1
      BY <2>2
    <2>7. start \in T[0]
      BY <2>3, <2>6
    <2>8. \E f : Goes(f)
      <3>1. PICK f : Loops(f, 0, e - 1, start, step) /\ \A j \in 0 .. e - 1 : f[j] \in T[j]
        <4> HIDE DEF A, step, T, drain, start
        <4>1. \A j \in 0 + 1 .. e - 1 : \A x \in T[j - 1] : step[j][x] \in T[j]
          BY <2>5
        <4>2. PICK high : high = e - 1
          OBVIOUS
        <4>3. /\ high \in Int /\ 0 \in Int /\ 0 <= high /\ start \in T[0]
              /\ \A j \in 0 .. high : T[j] \subseteq A
              /\ \A j \in 0 + 1 .. high : \A x \in T[j - 1] : step[j][x] \in T[j]
          BY <2>4, <2>6, <2>7, <4>1, <4>2
        <4>4. \E f : Loops(f, 0, high, start, step) /\ \A j \in 0 .. high : f[j] \in T[j]
          BY ONLY <4>3, LoopExists
        <4> QED BY <4>2, <4>4
      <3>2. ASSUME NEW j \in 0 .. e - 1, j # 0 PROVE step[j][f[j - 1]] = drain(j, f[j - 1])
        <4>1. j \in 0 + 1 .. e - 1 /\ j - 1 \in 0 .. e - 1
          BY <2>2, <3>2
        <4> HIDE DEF A, step, T, drain, start
        <4> QED BY <2>5, <3>1, <4>1
      <3>3. Goes(f)
        <4> HIDE DEF A, step, T, drain, start
        <4> QED BY <3>1, <3>2 DEF Loops
      <3> QED BY <3>3
    <2>9. PICK S : S = CHOOSE f : IsS(f)
      OBVIOUS
    <2>10. Goes(S)
      <3>1. \E f : IsS(f)
        BY <2>0, <2>8
      <3>2. IsS(S)
        <4> HIDE DEF IsS
        <4> QED BY <2>9, <3>1
      <3> HIDE DEF IsS, Goes
      <3> QED BY <2>0, <3>2
    <2>11. \A n \in 0 .. e - 1 : S[n] \in T[n]
      <3>1. S[0] \in T[0]
        <4>1. S[0] = start
          BY <2>6, <2>10
        <4> HIDE DEF start, T
        <4> QED BY <2>7, <4>1
      <3>2. ASSUME NEW n \in 0 + 1 .. e - 1, S[n - 1] \in T[n - 1] PROVE S[n] \in T[n]
        <4>1. n \in 0 .. e - 1 /\ n # 0
          BY <2>6
        <4>2. S[n] = drain(n, S[n - 1])
          <5> HIDE DEF drain, start
          <5> QED BY <2>10, <4>1
        <4> HIDE DEF T, step, drain
        <4> QED BY <2>5, <3>2, <4>2
      <3> HIDE DEF T
      <3> QED BY <2>6, <3>1, <3>2, LoopKeeps
    <2>12. PICK z : z = S[e - 1]
      OBVIOUS
    <2>13. z \in Drained(c, V, e, e - 1)
      BY <2>6, <2>11, <2>12
    <2>14. /\ Moved(z, c, 0 .. e - 1) /\ Ordered(z, 1, e - 1)
           /\ \A k \in 1 .. e - 1 : z[0] <= z[k]
      <3>1. e - (e - 1) = 1 /\ e - (e - 1) - 1 = 0 /\ 0 \in 0 .. 0
        BY <2>2
      <3> QED BY <2>13, <3>1 DEF Drained
    <2>15. Ordered(z, 0, e - 1)
      <3>1. \A j \in 0 .. e - 1 : j = 0 \/ j \in 1 .. e - 1
        OBVIOUS
      <3>2. \A j, k \in 0 .. e - 1 : j < k => k \in 1 .. e - 1
        OBVIOUS
      <3> QED BY <2>14, <3>1, <3>2 DEF Ordered
    <2>16. DArray_fucked_heapsort(a) = z
      <3>1. DArray_fucked_heapsort(a) = IF a.end = 0 THEN a.contents ELSE (CHOOSE f : IsS(f))[a.end - 1]
        BY DEF DArray_fucked_heapsort
      <3> HIDE DEF IsS
      <3> QED BY <1>2, <2>1, <2>9, <2>12, <3>1
    <2> QED BY <2>1, <2>14, <2>15, <2>16 DEF Sorts
  <1> QED BY <1>1, <1>2

----------------------------------------------------------------------------
(* DArray_fucked_mergesort. *)

(* Two halves of numbers that are in order, each. *)
Halves(a, begin, middle, end) ==
  Numeric(a, begin .. end - 1) /\ Ordered(a, begin, middle - 1) /\ Ordered(a, middle, end - 1)

(* What d has in the places P comes from those of a in R, each taken once. *)
Taken(d, P, a, R) == \E q \in [P -> R] : OneToOneOn(q, P) /\ \A x \in P : d[x] = a[q[x]]

(* The k-th element is the next of the first half or that of the second. *)
MergeStep(a, middle, end, k, m) ==
  IF m.i < middle /\ (m.j >= end \/ a[m.i] < a[m.j])
    THEN [b |-> [m.b EXCEPT ![k - 1] = a[m.i]], i |-> m.i + 1, j |-> m.j]
    ELSE [b |-> [m.b EXCEPT ![k - 1] = a[m.j]], i |-> m.i, j |-> m.j + 1]

(* Before the k-th element is chosen. *)
Merged(a, b, V, begin, middle, end, k) ==
  {m \in [b : [DOMAIN b -> V], i : Int, j : Int] :
     /\ begin <= m.i /\ m.i <= middle /\ middle <= m.j /\ m.j <= end
     /\ (m.i - begin) + (m.j - middle) = k - begin
     /\ \A x \in DOMAIN b \ (begin .. k - 1) : m.b[x] = b[x]
     /\ Taken(m.b, begin .. k - 1, a, (begin .. m.i - 1) \cup (middle .. m.j - 1))
     /\ Halves(a, begin, middle, end) =>
          /\ Ordered(m.b, begin, k - 1)
          /\ \A x \in begin .. k - 1, y \in (m.i .. middle - 1) \cup (m.j .. end - 1) : m.b[x] <= a[y]}

(* One more is taken, from place z. *)
LEMMA TakeOne ==
  ASSUME NEW c, NEW d, NEW a, NEW P, NEW p, NEW R, NEW z, p \notin P, z \notin R,
         Taken(c, P, a, R), \A x \in P : d[x] = c[x], d[p] = a[z]
  PROVE  Taken(d, P \cup {p}, a, R \cup {z})
  <1>1. PICK q \in [P -> R] : OneToOneOn(q, P) /\ \A x \in P : c[x] = a[q[x]]
    BY DEF Taken
  <1> DEFINE r == [x \in P \cup {p} |-> IF x = p THEN z ELSE q[x]]
  <1>2. r \in [P \cup {p} -> R \cup {z}] /\ r[p] = z /\ \A x \in P : r[x] = q[x] /\ q[x] \in R
    OBVIOUS
  <1> HIDE DEF r
  <1>3. OneToOneOn(r, P \cup {p})
    BY <1>1, <1>2 DEF OneToOneOn
  <1>4. \A x \in P \cup {p} : d[x] = a[r[x]]
    BY <1>1, <1>2
  <1> QED BY <1>2, <1>3, <1>4 DEF Taken

(* What is taken from R is taken from what R is part of. *)
LEMMA TakenInto ==
  ASSUME NEW d, NEW a, NEW P, NEW R, NEW S, R \subseteq S, Taken(d, P, a, R)
  PROVE  Taken(d, P, a, S)
  <1>1. PICK q \in [P -> R] : OneToOneOn(q, P) /\ \A x \in P : d[x] = a[q[x]]
    BY DEF Taken
  <1>2. q \in [P -> S]
    OBVIOUS
  <1> QED BY <1>1, <1>2 DEF Taken

(* The step writes the element of place z, which is the least that is left. *)
LEMMA MergeWrites ==
  ASSUME NEW E \in SUBSET Int, NEW D \in SUBSET Int, NEW V, NEW a \in [E -> V], NEW b \in [D -> V],
         NEW begin \in Int, NEW middle \in Int, NEW end \in Int, begin <= middle, middle <= end,
         begin .. end - 1 \subseteq E, begin .. end - 1 \subseteq D,
         NEW k \in begin + 1 .. end, NEW m \in Merged(a, b, V, begin, middle, end, k - 1),
         NEW z \in begin .. end - 1, NEW i \in Int, NEW j \in Int,
         \/ z = m.i /\ m.i < middle /\ i = m.i + 1 /\ j = m.j
         \/ z = m.j /\ m.j < end /\ i = m.i /\ j = m.j + 1,
         Halves(a, begin, middle, end) =>
           \A y \in (m.i .. middle - 1) \cup (m.j .. end - 1) : a[z] <= a[y],
         NEW n, n = [b |-> [m.b EXCEPT ![k - 1] = a[z]], i |-> i, j |-> j]
  PROVE  n \in Merged(a, b, V, begin, middle, end, k)
  <1>1. PICK c, mi, mj : c = m.b /\ mi = m.i /\ mj = m.j
    OBVIOUS
  <1>2. /\ c \in [D -> V] /\ mi \in Int /\ mj \in Int /\ DOMAIN b = D
        /\ begin <= mi /\ mi <= middle /\ middle <= mj /\ mj <= end
        /\ (mi - begin) + (mj - middle) = (k - 1) - begin
        /\ \A x \in D \ (begin .. (k - 1) - 1) : c[x] = b[x]
        /\ Taken(c, begin .. (k - 1) - 1, a, (begin .. mi - 1) \cup (middle .. mj - 1))
        /\ Halves(a, begin, middle, end) =>
             /\ Ordered(c, begin, (k - 1) - 1)
             /\ \A x \in begin .. (k - 1) - 1, y \in (mi .. middle - 1) \cup (mj .. end - 1) : c[x] <= a[y]
    BY <1>1 DEF Merged
  <1>3. \/ z = mi /\ mi < middle /\ i = mi + 1 /\ j = mj
        \/ z = mj /\ mj < end /\ i = mi /\ j = mj + 1
    BY <1>1
  <1>4. PICK p : p = k - 1
    OBVIOUS
  <1>5. p \in Int /\ p \in D /\ p \in begin .. end - 1 /\ k - 1 = p /\ (k - 1) - 1 = p - 1 /\ a[z] \in V
    BY <1>4
  <1>6. PICK d : d = [c EXCEPT ![p] = a[z]]
    OBVIOUS
  <1>7. d \in [D -> V] /\ d[p] = a[z] /\ \A x \in D \ {p} : d[x] = c[x]
    BY <1>2, <1>5, <1>6
  <1>8. n = [b |-> d, i |-> i, j |-> j]
    BY <1>1, <1>4, <1>6
  <1>9. n \in [b : [D -> V], i : Int, j : Int] /\ n.b = d /\ n.i = i /\ n.j = j
    BY ONLY <1>7, <1>8, i \in Int, j \in Int
  <1>15. /\ mi \in Int /\ mj \in Int /\ begin \in Int /\ middle \in Int /\ end \in Int
         /\ begin <= mi /\ mi <= middle /\ middle <= mj /\ mj <= end
         /\ i \in Int /\ j \in Int /\ k \in Int /\ z \in Int
         /\ (mi - begin) + (mj - middle) = (k - 1) - begin
    BY <1>2
  <1>10. /\ begin <= i /\ i <= middle /\ middle <= j /\ j <= end
         /\ (i - begin) + (j - middle) = k - begin
    BY ONLY <1>3, <1>15
  <1>11. \A x \in begin .. p - 1 : x \in D \ {p} /\ x \in begin .. (k - 1) - 1
    BY <1>5
  <1>12. \A x \in D \ (begin .. k - 1) : d[x] = b[x]
    <2>1. \A x \in D \ (begin .. k - 1) : x \in D \ {p} /\ x \notin begin .. (k - 1) - 1
      BY <1>5
    <2> QED BY <1>2, <1>7, <2>1
  <1>13. Taken(d, begin .. k - 1, a, (begin .. i - 1) \cup (middle .. j - 1))
    <2>1. begin .. k - 1 = (begin .. p - 1) \cup {p} /\ p \notin begin .. p - 1
      BY <1>5
    <2>2. z \notin (begin .. mi - 1) \cup (middle .. mj - 1)
      BY ONLY <1>3, <1>15
    <2>3. (begin .. i - 1) \cup (middle .. j - 1) = ((begin .. mi - 1) \cup (middle .. mj - 1)) \cup {z}
      BY ONLY <1>3, <1>15
    <2>4. Taken(c, begin .. p - 1, a, (begin .. mi - 1) \cup (middle .. mj - 1))
      BY <1>2, <1>5
    <2>5. \A x \in begin .. p - 1 : d[x] = c[x]
      BY <1>7, <1>11
    <2>6. Taken(d, (begin .. p - 1) \cup {p}, a, ((begin .. mi - 1) \cup (middle .. mj - 1)) \cup {z})
      BY <1>7, <2>1, <2>2, <2>4, <2>5, TakeOne
    <2> QED BY <2>1, <2>3, <2>6
  <1>14. ASSUME Halves(a, begin, middle, end)
         PROVE  /\ Ordered(d, begin, k - 1)
                /\ \A x \in begin .. k - 1, y \in (i .. middle - 1) \cup (j .. end - 1) : d[x] <= a[y]
    <2>1. z \in (mi .. middle - 1) \cup (mj .. end - 1)
      BY ONLY <1>3, <1>15
    <2>2. \A y \in (mi .. middle - 1) \cup (mj .. end - 1) : a[z] <= a[y]
      BY <1>1, <1>14
    <2>3. \A x \in begin .. p - 1 : d[x] = c[x]
      BY <1>7, <1>11
    <2>4. \A x \in begin .. p - 1 : \A y \in (mi .. middle - 1) \cup (mj .. end - 1) : d[x] <= a[y]
      BY <1>2, <1>5, <1>14, <2>3
    <2>5. \A y \in (i .. middle - 1) \cup (j .. end - 1) : y \in (mi .. middle - 1) \cup (mj .. end - 1)
      BY ONLY <1>3, <1>15
    <2>6. \A x \in begin .. k - 1 : x = p \/ x \in begin .. p - 1
      BY <1>5
    <2>7. \A x \in begin .. k - 1, y \in (i .. middle - 1) \cup (j .. end - 1) : d[x] <= a[y]
      BY <1>7, <2>2, <2>4, <2>5, <2>6
    <2>8. Ordered(d, begin, k - 1)
      <3> SUFFICES ASSUME NEW x \in begin .. k - 1, NEW y \in begin .. k - 1, x < y PROVE d[x] <= d[y]
        BY DEF Ordered
      <3>1. x \in begin .. p - 1
        BY <1>5
      <3>2. CASE y = p
        BY <1>7, <2>1, <2>4, <3>1, <3>2
      <3>3. CASE y \in begin .. p - 1
        <4>1. Ordered(c, begin, p - 1)
          BY <1>2, <1>5, <1>14
        <4> QED BY <2>3, <3>1, <3>3, <4>1 DEF Ordered
      <3> QED BY <2>6, <3>2, <3>3
    <2> QED BY <2>7, <2>8
  <1> QED BY <1>2, <1>9, <1>10, <1>12, <1>13, <1>14 DEF Merged

(* It is the less of the first ones that are left of both halves. *)
LEMMA MergeStepKeeps ==
  ASSUME NEW E \in SUBSET Int, NEW D \in SUBSET Int, NEW V, NEW a \in [E -> V], NEW b \in [D -> V],
         NEW begin \in Int, NEW middle \in Int, NEW end \in Int, begin <= middle, middle <= end,
         begin .. end - 1 \subseteq E, begin .. end - 1 \subseteq D,
         NEW k \in begin + 1 .. end, NEW m \in Merged(a, b, V, begin, middle, end, k - 1)
  PROVE  MergeStep(a, middle, end, k, m) \in Merged(a, b, V, begin, middle, end, k)
  <1>1. PICK mi, mj : mi = m.i /\ mj = m.j
    OBVIOUS
  <1>2. /\ mi \in Int /\ mj \in Int
        /\ begin <= mi /\ mi <= middle /\ middle <= mj /\ mj <= end
        /\ (mi - begin) + (mj - middle) = (k - 1) - begin
    BY <1>1 DEF Merged
  <1>3. Halves(a, begin, middle, end) =>
          /\ \A x \in begin .. end - 1 : a[x] \in Int
          /\ \A x, y \in begin .. middle - 1 : x <= y => a[x] <= a[y]
          /\ \A x, y \in middle .. end - 1 : x <= y => a[x] <= a[y]
    <2> SUFFICES ASSUME Halves(a, begin, middle, end)
                 PROVE  /\ \A x \in begin .. end - 1 : a[x] \in Int
                        /\ \A x, y \in begin .. middle - 1 : x <= y => a[x] <= a[y]
                        /\ \A x, y \in middle .. end - 1 : x <= y => a[x] <= a[y]
      OBVIOUS
    <2>1. \A x \in begin .. end - 1 : a[x] \in Int
      BY DEF Halves, Numeric
    <2>2. ASSUME NEW x, NEW y, x \in begin .. middle - 1, y \in begin .. middle - 1, x <= y PROVE a[x] <= a[y]
      <3>1. x \in begin .. end - 1
        BY <2>2
      <3>2. x = y \/ x < y
        BY <2>2
      <3> QED BY <2>1, <2>2, <3>1, <3>2 DEF Halves, Ordered
    <2>3. ASSUME NEW x, NEW y, x \in middle .. end - 1, y \in middle .. end - 1, x <= y PROVE a[x] <= a[y]
      <3>1. x \in begin .. end - 1
        BY <2>3
      <3>2. x = y \/ x < y
        BY <2>3
      <3> QED BY <2>1, <2>3, <3>1, <3>2 DEF Halves, Ordered
    <2> QED BY <2>1, <2>2, <2>3
  <1>4. CASE mi < middle /\ (mj >= end \/ a[mi] < a[mj])
    <2>1. mi \in begin .. end - 1 /\ mi + 1 \in Int
      BY <1>2, <1>4
    <2>2. ASSUME Halves(a, begin, middle, end),
                 NEW y \in (mi .. middle - 1) \cup (mj .. end - 1)
          PROVE  a[mi] <= a[y]
      <3>1. CASE y \in mi .. middle - 1
        <4>1. y \in begin .. middle - 1 /\ mi \in begin .. middle - 1 /\ mi <= y
          BY <1>2, <1>4, <3>1
        <4> QED BY <1>3, <2>2, <4>1
      <3>2. CASE y \in mj .. end - 1
        <4>1. y \in middle .. end - 1 /\ mj \in middle .. end - 1 /\ mj <= y /\ ~(mj >= end)
          BY <1>2, <3>2
        <4>2. a[mj] <= a[y] /\ a[mi] < a[mj]
          BY <1>3, <1>4, <2>2, <4>1
        <4>3. y \in begin .. end - 1 /\ mj \in begin .. end - 1
          BY <1>2, <4>1
        <4>4. a[mi] \in Int /\ a[mj] \in Int /\ a[y] \in Int
          BY <1>3, <2>1, <2>2, <4>3
        <4> QED BY <4>2, <4>4
      <3> QED BY <3>1, <3>2
    <2>3. PICK n : n = [b |-> [m.b EXCEPT ![k - 1] = a[mi]], i |-> mi + 1, j |-> mj]
      OBVIOUS
    <2>4. n \in Merged(a, b, V, begin, middle, end, k)
      <3>1. \/ mi = m.i /\ m.i < middle /\ mi + 1 = m.i + 1 /\ mj = m.j
            \/ mi = m.j /\ m.j < end /\ mi + 1 = m.i /\ mj = m.j + 1
        BY <1>1, <1>4
      <3>2. Halves(a, begin, middle, end) =>
              \A y \in (m.i .. middle - 1) \cup (m.j .. end - 1) : a[mi] <= a[y]
        BY <1>1, <2>2
      <3> QED BY <1>2, <2>1, <2>3, <3>1, <3>2, MergeWrites
    <2>5. MergeStep(a, middle, end, k, m) = n
      BY <1>1, <1>4, <2>3 DEF MergeStep
    <2> QED BY <2>4, <2>5
  <1>5. CASE ~(mi < middle /\ (mj >= end \/ a[mi] < a[mj]))
    <2>0. mj < end
      BY <1>2, <1>5
    <2>1. mj \in begin .. end - 1 /\ mj + 1 \in Int
      BY <1>2, <2>0
    <2>2. ASSUME Halves(a, begin, middle, end),
                 NEW y \in (mi .. middle - 1) \cup (mj .. end - 1)
          PROVE  a[mj] <= a[y]
      <3>1. CASE y \in mj .. end - 1
        <4>1. y \in middle .. end - 1 /\ mj \in middle .. end - 1 /\ mj <= y
          BY <1>2, <2>0, <3>1
        <4> QED BY <1>3, <2>2, <4>1
      <3>2. CASE y \in mi .. middle - 1
        <4>1. y \in begin .. middle - 1 /\ mi \in begin .. middle - 1 /\ mi <= y /\ mi < middle
          BY <1>2, <3>2
        <4>2. a[mi] <= a[y] /\ ~(a[mi] < a[mj])
          BY <1>3, <1>5, <2>2, <4>1
        <4>3. y \in begin .. end - 1 /\ mi \in begin .. end - 1
          BY <1>2, <4>1
        <4>4. a[mi] \in Int /\ a[mj] \in Int /\ a[y] \in Int
          BY <1>3, <2>1, <2>2, <4>3
        <4> QED BY <4>2, <4>4
      <3> QED BY <3>1, <3>2
    <2>3. PICK n : n = [b |-> [m.b EXCEPT ![k - 1] = a[mj]], i |-> mi, j |-> mj + 1]
      OBVIOUS
    <2>4. n \in Merged(a, b, V, begin, middle, end, k)
      <3>1. \/ mj = m.i /\ m.i < middle /\ mi = m.i + 1 /\ mj + 1 = m.j
            \/ mj = m.j /\ m.j < end /\ mi = m.i /\ mj + 1 = m.j + 1
        BY <1>1, <2>0
      <3>2. Halves(a, begin, middle, end) =>
              \A y \in (m.i .. middle - 1) \cup (m.j .. end - 1) : a[mj] <= a[y]
        BY <1>1, <2>2
      <3> QED BY <1>2, <2>1, <2>3, <3>1, <3>2, MergeWrites
    <2>5. MergeStep(a, middle, end, k, m) = n
      BY <1>1, <1>5, <2>3 DEF MergeStep
    <2> QED BY <2>4, <2>5
  <1> QED BY <1>4, <1>5

(* The merge takes every element once, and the halves being in order, in order. *)
LEMMA MergeFacts ==
  ASSUME NEW E \in SUBSET Int, NEW D \in SUBSET Int, NEW V, NEW a \in [E -> V], NEW b \in [D -> V],
         NEW begin \in Int, NEW middle \in Int, NEW end \in Int, begin <= middle, middle <= end,
         begin .. end - 1 \subseteq E, begin .. end - 1 \subseteq D
  PROVE  LET d == DArray_fucked_topdown_merge(a, b, begin, middle, end)
         IN  /\ d \in [D -> V]
             /\ \A x \in D \ (begin .. end - 1) : d[x] = b[x]
             /\ Taken(d, begin .. end - 1, a, begin .. end - 1)
             /\ Halves(a, begin, middle, end) => Ordered(d, begin, end - 1)
  <1> DEFINE
        start == [b |-> b, i |-> begin, j |-> middle]
        All == [b : [D -> V], i : Int, j : Int]
        step == [k \in begin .. end |-> [m \in All |-> MergeStep(a, middle, end, k, m)]]
        T == [k \in begin .. end |-> Merged(a, b, V, begin, middle, end, k)]
        IsM(f) == f = [k \in begin .. end |->
                        IF k = begin THEN [b |-> b, i |-> begin, j |-> middle]
                        ELSE LET m == f[k - 1]
                             IN  IF m.i < middle /\ (m.j >= end \/ a[m.i] < a[m.j])
                                   THEN [b |-> [m.b EXCEPT ![k - 1] = a[m.i]], i |-> m.i + 1, j |-> m.j]
                                   ELSE [b |-> [m.b EXCEPT ![k - 1] = a[m.j]], i |-> m.i, j |-> m.j + 1]]
        Goes(f) == f = [k \in begin .. end |-> IF k = begin THEN start ELSE MergeStep(a, middle, end, k, f[k - 1])]
  <1>0. \A f : IsM(f) <=> Goes(f)
    BY DEF MergeStep
  <1>1. start \in Merged(a, b, V, begin, middle, end, begin)
    <2>1. start \in All /\ start.b = b /\ start.i = begin /\ start.j = middle
      OBVIOUS
    <2>2. begin .. begin - 1 = {} /\ middle .. middle - 1 = {} /\ DOMAIN b = D
      OBVIOUS
    <2>3. Taken(b, {}, a, {})
      <3>1. [x \in {} |-> x] \in [{} -> {}]
        OBVIOUS
      <3> QED BY <3>1 DEF Taken, OneToOneOn
    <2>4. Ordered(b, begin, begin - 1)
      BY DEF Ordered
    <2> HIDE DEF start
    <2>5. Taken(start.b, begin .. begin - 1, a, (begin .. start.i - 1) \cup (middle .. start.j - 1))
      BY <2>1, <2>2, <2>3
    <2>6. /\ begin <= start.i /\ start.i <= middle /\ middle <= start.j /\ start.j <= end
          /\ (start.i - begin) + (start.j - middle) = begin - begin
      BY <2>1
    <2> QED BY <2>1, <2>2, <2>4, <2>5, <2>6 DEF Merged
  <1>2. \A k \in begin .. end : T[k] \subseteq All
    BY DEF Merged
  <1>3. ASSUME NEW k \in begin + 1 .. end, NEW m \in T[k - 1]
        PROVE  step[k][m] \in T[k] /\ step[k][m] = MergeStep(a, middle, end, k, m)
    <2>1. k \in begin .. end /\ k - 1 \in begin .. end
      OBVIOUS
    <2>2. m \in Merged(a, b, V, begin, middle, end, k - 1) /\ m \in All
      BY <1>2, <2>1
    <2>3. MergeStep(a, middle, end, k, m) \in Merged(a, b, V, begin, middle, end, k)
      BY <2>2, MergeStepKeeps
    <2> HIDE DEF All
    <2> QED BY <2>1, <2>2, <2>3
  <1>4. begin <= end /\ begin \in begin .. end /\ end \in begin .. end
    OBVIOUS
  <1>5. start \in T[begin]
    BY <1>1, <1>4
  <1>6. \E f : Goes(f)
    <2>1. PICK f : Loops(f, begin, end, start, step) /\ \A k \in begin .. end : f[k] \in T[k]
      <3> HIDE DEF start, All, step, T
      <3>1. \A k \in begin + 1 .. end : \A m \in T[k - 1] : step[k][m] \in T[k]
        BY <1>3
      <3> QED BY ONLY <1>2, <1>4, <1>5, <3>1, begin \in Int, end \in Int, LoopExists
    <2>2. ASSUME NEW k \in begin .. end, k # begin
          PROVE  step[k][f[k - 1]] = MergeStep(a, middle, end, k, f[k - 1])
      <3>1. k \in begin + 1 .. end /\ k - 1 \in begin .. end
        BY <2>2
      <3> HIDE DEF start, All, step, T
      <3> QED BY <1>3, <2>1, <3>1
    <2>3. Goes(f)
      <3> HIDE DEF start, All, step, T
      <3> QED BY <2>1, <2>2 DEF Loops
    <2> QED BY <2>3
  <1>7. PICK M : M = CHOOSE f : IsM(f)
    OBVIOUS
  <1>8. Goes(M)
    <2>1. \E f : IsM(f)
      BY <1>0, <1>6
    <2>2. IsM(M)
      <3> HIDE DEF IsM
      <3> QED BY <1>7, <2>1
    <2> HIDE DEF IsM, Goes
    <2> QED BY <1>0, <2>2
  <1>9. \A k \in begin .. end : M[k] \in T[k]
    <2>1. M[begin] \in T[begin]
      <3>1. M[begin] = start
        BY <1>4, <1>8
      <3> HIDE DEF start, T
      <3> QED BY <1>5, <3>1
    <2>2. ASSUME NEW k \in begin + 1 .. end, M[k - 1] \in T[k - 1] PROVE M[k] \in T[k]
      <3>1. M[k] = MergeStep(a, middle, end, k, M[k - 1])
        BY <1>8
      <3> HIDE DEF T, step, Goes, IsM
      <3> QED BY <1>3, <2>2, <3>1
    <2> HIDE DEF T
    <2> QED BY <2>1, <2>2, LoopKeeps
  <1>10. PICK m : m = M[end]
    OBVIOUS
  <1>11. m \in Merged(a, b, V, begin, middle, end, end)
    BY <1>4, <1>9, <1>10
  <1>12. DArray_fucked_topdown_merge(a, b, begin, middle, end) = m.b
    <2>1. DArray_fucked_topdown_merge(a, b, begin, middle, end) = (CHOOSE f : IsM(f))[end].b
      BY DEF DArray_fucked_topdown_merge
    <2> HIDE DEF IsM
    <2> QED BY <1>7, <1>10, <2>1
  <1>13. m.i = middle /\ m.j = end
    BY <1>11 DEF Merged
  <1>14. (begin .. m.i - 1) \cup (middle .. m.j - 1) = begin .. end - 1
    BY <1>13
  <1> HIDE DEF IsM, Goes, T, step, start
  <1> QED BY <1>11, <1>12, <1>14 DEF Merged

(* There is a place for each from l to before h. *)
Covers(X, l, h) == X \subseteq Int /\ l .. h - 1 \subseteq X

(* Two arrays of the recursion may be of either length. *)
Either(D, E, V) == [D -> V] \cup [E -> V]

SplitCalls(C, begin, end) == C \X C \X (begin .. end) \X (begin .. end)

(* The recursion by its cases. *)
Splits(M, C, begin, end) ==
  \A s \in SplitCalls(C, begin, end) :
    LET middle == (s[4] + s[3]) \div 2
        left == M[<<s[2], s[1], s[3], middle>>]
        right == M[<<left[1], left[2], middle, s[4]>>]
    IN  M[s] = IF s[4] - s[3] < 2 THEN <<s[1], s[2]>>
               ELSE <<right[2], DArray_fucked_topdown_merge(right[2], right[1], s[3], middle, s[4])>>

(* M is the recursion of the call with b and a. *)
SplitOf(M, C, b, a, begin, end) ==
  /\ Splits(M, C, begin, end)
  /\ DArray_fucked_topdown_split_merge(b, a, begin, end) = M[<<b, a, begin, end>>]

(* The recursion ends: each half is less than the whole. *)
LEMMA SplitExists ==
  ASSUME NEW b, NEW a, NEW D, NEW E, NEW V,
         NEW C, C = Either(D, E, V), C = Copied(b, a), b \in C, a \in C,
         NEW begin \in Int, NEW end \in Int, begin <= end,
         Covers(D, begin, end), Covers(E, begin, end)
  PROVE  \E M : SplitOf(M, C, b, a, begin, end)
  <1> DEFINE
        A == SplitCalls(C, begin, end)
        R == C \X C
        middle(s) == (s[4] + s[3]) \div 2
        measure == [s \in A |-> IF s[3] > s[4] THEN 0 ELSE s[4] - s[3]]
        left(f, s) == f[<<s[2], s[1], s[3], middle(s)>>]
        right(f, s) == f[<<left(f, s)[1], left(f, s)[2], middle(s), s[4]>>]
        merge(r, s) == DArray_fucked_topdown_merge(r[2], r[1], s[3], middle(s), s[4])
        value(f, s) == IF s[4] - s[3] < 2 THEN <<s[1], s[2]>>
                       ELSE <<right(f, s)[2], merge(right(f, s), s)>>
        body == [f \in [A -> R] |-> [s \in A |-> value(f, s)]]
        IsM(f) == f = [s \in Copied(b, a) \X Copied(b, a) \X (begin .. end) \X (begin .. end) |->
                        LET mid == (s[4] + s[3]) \div 2
                            l == f[<<s[2], s[1], s[3], mid>>]
                            r == f[<<l[1], l[2], mid, s[4]>>]
                        IN  IF s[4] - s[3] < 2 THEN <<s[1], s[2]>>
                            ELSE <<r[2], DArray_fucked_topdown_merge(r[2], r[1], s[3], mid, s[4])>>]
  <1>0. C = [D -> V] \cup [E -> V]
    BY DEF Either
  <1>1. \A s \in A : s[1] \in C /\ s[2] \in C /\ s[3] \in begin .. end /\ s[4] \in begin .. end
    BY DEF SplitCalls
  <1>2. \A c, d \in C, l, h \in begin .. end :
          LET t == <<c, d, l, h>> IN t \in A /\ t[3] = l /\ t[4] = h
    BY DEF SplitCalls
  <1>3. \A s \in A : measure[s] = IF s[3] > s[4] THEN 0 ELSE s[4] - s[3]
    OBVIOUS
  <1>4. measure \in [A -> Nat]
    <2> HIDE DEF A
    <2>1. ASSUME NEW s \in A PROVE (IF s[3] > s[4] THEN 0 ELSE s[4] - s[3]) \in Nat
      <3>1. PICK l, h : l = s[3] /\ h = s[4]
        OBVIOUS
      <3>2. l \in Int /\ h \in Int
        BY <1>1, <2>1, <3>1
      <3> QED BY <3>1, <3>2
    <2> QED BY <2>1
  <1>5. \A r \in R : r[1] \in C /\ r[2] \in C
    OBVIOUS
  <1>6. \A c, d \in C : <<c, d>> \in R
    OBVIOUS
  <1> HIDE DEF A, measure, R
  <1>7. ASSUME NEW s \in A, ~(s[4] - s[3] < 2)
        PROVE  /\ middle(s) \in begin .. end /\ s[3] < middle(s) /\ middle(s) < s[4]
               /\ <<s[2], s[1], s[3], middle(s)>> \in A
               /\ measure[<<s[2], s[1], s[3], middle(s)>>] < measure[s]
               /\ \A c, d \in C : /\ <<c, d, middle(s), s[4]>> \in A
                                  /\ measure[<<c, d, middle(s), s[4]>>] < measure[s]
    <2>1. PICK l, h, m : l = s[3] /\ h = s[4] /\ m = middle(s)
      OBVIOUS
    <2>2. l \in begin .. end /\ h \in begin .. end /\ h - l >= 2 /\ m = (h + l) \div 2
      BY <1>1, <1>7, <2>1
    <2>3. l < m /\ m < h /\ m \in begin .. end /\ l \in Int /\ h \in Int /\ m \in Int
      BY <2>2
    <2>4. measure[s] = h - l
      BY <1>3, <2>1, <2>3
    <2>5. <<s[2], s[1], l, m>> \in A /\ measure[<<s[2], s[1], l, m>>] < measure[s]
      <3>1. s[1] \in C /\ s[2] \in C
        BY <1>1
      <3>2. PICK t : t = <<s[2], s[1], l, m>>
        OBVIOUS
      <3>3. t \in A /\ t[3] = l /\ t[4] = m
        BY <1>2, <2>2, <2>3, <3>1, <3>2
      <3>4. measure[t] = m - l
        BY <1>3, <2>3, <3>3
      <3> QED BY <2>3, <2>4, <3>2, <3>3, <3>4
    <2>6. ASSUME NEW c \in C, NEW d \in C
          PROVE  <<c, d, m, h>> \in A /\ measure[<<c, d, m, h>>] < measure[s]
      <3>1. PICK t : t = <<c, d, m, h>>
        OBVIOUS
      <3>2. t \in A /\ t[3] = m /\ t[4] = h
        BY <1>2, <2>2, <2>3, <3>1
      <3>3. measure[t] = h - m
        BY <1>3, <2>3, <3>2
      <3> QED BY <2>3, <2>4, <3>1, <3>2, <3>3
    <2> HIDE DEF middle
    <2> QED BY <2>1, <2>3, <2>5, <2>6
  <1>8. ASSUME NEW s \in A, ~(s[4] - s[3] < 2), NEW r \in R
        PROVE  merge(r, s) \in C
    <2>1. PICK l, h, m : l = s[3] /\ h = s[4] /\ m = middle(s)
      OBVIOUS
    <2>2. l \in Int /\ h \in Int /\ m \in Int /\ l <= m /\ m <= h /\ l .. h - 1 \subseteq begin .. end - 1
      <3>1. l \in begin .. end /\ h \in begin .. end /\ m \in begin .. end /\ l < m /\ m < h
        BY <1>1, <1>7, <1>8, <2>1
      <3> QED BY <3>1
    <2>3. PICK X \in {D, E} : r[2] \in [X -> V]
      BY <1>0, <1>5
    <2>4. PICK Y \in {D, E} : r[1] \in [Y -> V]
      BY <1>0, <1>5
    <2>5. X \in SUBSET Int /\ Y \in SUBSET Int /\ l .. h - 1 \subseteq X /\ l .. h - 1 \subseteq Y
      BY <2>2 DEF Covers
    <2>6. DArray_fucked_topdown_merge(r[2], r[1], l, m, h) \in [Y -> V]
      <3>1. PICK src, dst : src = r[2] /\ dst = r[1]
        OBVIOUS
      <3>2. src \in [X -> V] /\ dst \in [Y -> V]
        BY <2>3, <2>4, <3>1
      <3>3. DArray_fucked_topdown_merge(src, dst, l, m, h) \in [Y -> V]
        BY ONLY <2>2, <2>5, <3>2, MergeFacts
      <3> QED BY <3>1, <3>3
    <2> HIDE DEF middle
    <2> QED BY <1>0, <2>1, <2>6
  <1> HIDE DEF middle, merge
  <1>9. ASSUME NEW f \in [A -> R], NEW s \in A, ~(s[4] - s[3] < 2)
        PROVE  left(f, s) \in R /\ right(f, s) \in R
    <2>1. left(f, s) \in R
      BY <1>7, <1>9
    <2>2. left(f, s)[1] \in C /\ left(f, s)[2] \in C
      BY <1>5, <2>1
    <2> HIDE DEF left
    <2>3. <<left(f, s)[1], left(f, s)[2], middle(s), s[4]>> \in A
      BY <1>7, <1>9, <2>2
    <2> QED BY <2>1, <2>3
  <1>10. ASSUME NEW f \in [A -> R], NEW s \in A PROVE value(f, s) \in R
    <2>1. CASE s[4] - s[3] < 2
      BY <1>1, <1>6, <2>1
    <2>2. CASE ~(s[4] - s[3] < 2)
      <3>1. right(f, s) \in R
        BY <1>9, <2>2
      <3>2. right(f, s)[2] \in C /\ merge(right(f, s), s) \in C
        <4> HIDE DEF right
        <4> QED BY <1>5, <1>8, <2>2, <3>1
      <3> HIDE DEF right
      <3> QED BY <1>6, <2>2, <3>2
    <2> HIDE DEF value
    <2> QED BY <2>1, <2>2
  <1>11. body \in [[A -> R] -> [A -> R]]
    <2>1. \A f \in [A -> R] : [s \in A |-> value(f, s)] \in [A -> R]
      <3> HIDE DEF value
      <3> QED BY <1>10
    <2> HIDE DEF value
    <2> QED BY <2>1
  <1>12. ASSUME NEW f \in [A -> R], NEW g \in [A -> R], NEW s \in A,
               \A q \in A : measure[q] < measure[s] => f[q] = g[q]
        PROVE  body[f][s] = body[g][s]
    <2>1. body[f][s] = value(f, s) /\ body[g][s] = value(g, s)
      <3> HIDE DEF value
      <3> QED OBVIOUS
    <2>2. ASSUME ~(s[4] - s[3] < 2) PROVE right(f, s) = right(g, s)
      <3>1. left(f, s) = left(g, s)
        BY <1>7, <1>12, <2>2
      <3>2. left(f, s) \in R
        BY <1>9, <2>2
      <3>3. left(f, s)[1] \in C /\ left(f, s)[2] \in C
        BY <1>5, <3>2
      <3> HIDE DEF left
      <3>4. LET t == <<left(f, s)[1], left(f, s)[2], middle(s), s[4]>> IN t \in A /\ measure[t] < measure[s]
        BY <1>7, <2>2, <3>3
      <3> QED BY <1>12, <3>1, <3>4
    <2> HIDE DEF body, right
    <2> QED BY <2>1, <2>2
  <1>13. PICK f : IsFixed(f, A, R, body)
    <2>1. GoesDown(A, R, measure, body)
      <3> HIDE DEF body
      <3> QED BY <1>12 DEF GoesDown
    <2>2. measure \in Measures(A) /\ body \in Bodies(A, R) /\ <<b, a>> \in R
      <3> HIDE DEF body
      <3> QED BY <1>4, <1>6, <1>11 DEF Measures, Bodies
    <2> HIDE DEF body
    <2> QED BY <2>1, <2>2, MeasuredRecursion
  <1>14. \A g : IsM(g) <=> g = [s \in A |-> value(g, s)]
    BY DEF A, SplitCalls, middle, merge
  <1>15. IsM(f)
    <2>1. f \in [A -> R] /\ f = body[f]
      BY <1>13 DEF IsFixed
    <2>2. f = [s \in A |-> value(f, s)]
      <3> HIDE DEF value
      <3> QED BY <2>1
    <2> HIDE DEF value, IsM
    <2> QED BY <1>14, <2>2
  <1>16. PICK M : M = CHOOSE g : IsM(g)
    OBVIOUS
  <1>17. IsM(M)
    <2> HIDE DEF IsM
    <2> QED BY <1>15, <1>16
  <1>18. M = [s \in A |-> value(M, s)]
    BY <1>14, <1>17
  <1>19. DArray_fucked_topdown_split_merge(b, a, begin, end) = (CHOOSE g : IsM(g))[<<b, a, begin, end>>]
    BY DEF DArray_fucked_topdown_split_merge
  <1>20. Splits(M, C, begin, end)
    <2>1. \A s \in A : M[s] = value(M, s)
      <3> HIDE DEF value
      <3> QED BY <1>18
    <2> QED BY <2>1 DEF Splits, A, middle, merge
  <1> HIDE DEF IsM, value
  <1> QED BY <1>16, <1>19, <1>20 DEF SplitOf

(* d is c outside R. *)
Kept(d, c, R) == DOMAIN d = DOMAIN c /\ \A j \in DOMAIN c \ R : d[j] = c[j]

(* b and a have the same in R. *)
Agree(b, a, R) == \A j \in R : b[j] = a[j]

(* Two arrays with the same numbers between l and h. *)
Twins(b, a, Y, X, V, l, h) ==
  /\ Covers(X, l, h) /\ Covers(Y, l, h)
  /\ a \in [X -> V] /\ b \in [Y -> V]
  /\ Agree(b, a, l .. h - 1) /\ Numeric(a, l .. h - 1)

(* A call has sorted a into a1, with b, now b1, for what it needs besides. *)
Split(b1, a1, b, a, l, h) ==
  Kept(b1, b, l .. h - 1) /\ Moved(a1, a, l .. h - 1) /\ Ordered(a1, l, h - 1)

(* The second half of the arrays is as before when the first half is sorted. *)
LEMMA OtherHalf ==
  ASSUME NEW X \in SUBSET Int, NEW Y \in SUBSET Int, NEW a, NEW b, DOMAIN a = X, DOMAIN b = Y,
         NEW l \in Int, NEW m \in Int, NEW h \in Int, l <= m, m <= h,
         l .. h - 1 \subseteq X, l .. h - 1 \subseteq Y,
         Agree(b, a, l .. h - 1), Numeric(a, l .. h - 1),
         NEW a1, NEW b1, Kept(a1, a, l .. m - 1), Moved(b1, b, l .. m - 1)
  PROVE  Agree(a1, b1, m .. h - 1) /\ Numeric(b1, m .. h - 1)
  <1>1. ASSUME NEW j \in m .. h - 1 PROVE a1[j] = a[j] /\ b1[j] = b[j] /\ b[j] = a[j] /\ a[j] \in Int
    <2>1. j \in l .. h - 1 /\ j \notin l .. m - 1
      OBVIOUS
    <2>2. j \in X \ (l .. m - 1) /\ j \in Y \ (l .. m - 1)
      BY <2>1
    <2> QED BY <2>1, <2>2 DEF Kept, Moved, Agree, Numeric
  <1> QED BY <1>1 DEF Agree, Numeric

(* Sorted halves of one array, merged into the other. *)
LEMMA HalvesMerge ==
  ASSUME NEW X, NEW Y, NEW V, NEW a, NEW b,
         NEW l \in Int, NEW m \in Int, NEW h \in Int, l <= m, m <= h, Twins(b, a, Y, X, V, l, h),
         NEW a1, NEW b1, Split(a1, b1, a, b, l, m),
         NEW a2 \in [X -> V], NEW b2 \in [Y -> V], Split(a2, b2, a1, b1, m, h)
  PROVE  LET d == DArray_fucked_topdown_merge(b2, a2, l, m, h)
         IN  d \in [X -> V] /\ Split(b2, d, b, a, l, h)
  <1>0. /\ X \in SUBSET Int /\ Y \in SUBSET Int /\ a \in [X -> V] /\ b \in [Y -> V]
        /\ l .. h - 1 \subseteq X /\ l .. h - 1 \subseteq Y
        /\ Agree(b, a, l .. h - 1) /\ Numeric(a, l .. h - 1)
        /\ Kept(a1, a, l .. m - 1) /\ Moved(b1, b, l .. m - 1) /\ Ordered(b1, l, m - 1)
        /\ Kept(a2, a1, m .. h - 1) /\ Moved(b2, b1, m .. h - 1) /\ Ordered(b2, m, h - 1)
    BY DEF Twins, Split, Covers
  <1> DEFINE R == l .. h - 1
  <1>1. l .. m - 1 \subseteq R /\ m .. h - 1 \subseteq R /\ R \subseteq X /\ R \subseteq Y
    BY <1>0
  <1>2. DOMAIN a = X /\ DOMAIN b = Y /\ DOMAIN b1 = Y /\ DOMAIN a1 = X
    BY <1>0 DEF Moved, Kept
  <1> HIDE DEF R
  <1>3. Moved(b2, b, R)
    <2>1. Moved(b1, b, R) /\ Moved(b2, b1, R)
      BY <1>0, <1>1, <1>2, MovedWithin
    <2> QED BY <2>1, MovedTwice
  <1>4. Numeric(b, R)
    BY <1>0 DEF Numeric, Agree, R
  <1>5. Halves(b2, l, m, h)
    <2>1. Numeric(b2, l .. h - 1)
      BY <1>3, <1>4, MovedIsNumeric DEF R
    <2>2. Ordered(b2, l, m - 1)
      <3>1. ASSUME NEW j \in l .. m - 1 PROVE b2[j] = b1[j]
        <4>1. j \in R /\ j \notin m .. h - 1
          BY <1>1
        <4>2. j \in Y \ (m .. h - 1)
          BY <1>1, <4>1
        <4> QED BY <1>0, <1>2, <4>2 DEF Moved
      <3> QED BY <1>0, <3>1 DEF Ordered
    <2> QED BY <1>0, <2>1, <2>2 DEF Halves
  <1>6. PICK d : d = DArray_fucked_topdown_merge(b2, a2, l, m, h)
    OBVIOUS
  <1>7. /\ d \in [X -> V] /\ \A x \in X \ R : d[x] = a2[x]
        /\ Taken(d, R, b2, R) /\ Ordered(d, l, h - 1)
    <2>1. LET e == DArray_fucked_topdown_merge(b2, a2, l, m, h)
          IN  /\ e \in [X -> V]
              /\ \A x \in X \ (l .. h - 1) : e[x] = a2[x]
              /\ Taken(e, l .. h - 1, b2, l .. h - 1)
              /\ Halves(b2, l, m, h) => Ordered(e, l, h - 1)
      BY <1>0, MergeFacts
    <2> QED BY <1>5, <1>6, <2>1 DEF R
  <1>8. \A x \in X \ R : d[x] = a[x]
    <2>1. \A x \in X \ R : a2[x] = a1[x] /\ a1[x] = a[x]
      BY <1>0, <1>1, <1>2 DEF Kept
    <2> QED BY <1>7, <2>1
  <1>9. PICK q \in [R -> R] : OneToOneOn(q, R) /\ \A x \in R : d[x] = b2[q[x]]
    BY <1>7 DEF Taken
  <1>10. PICK p \in [R -> R] : OneToOneOn(p, R) /\ \A x \in R : b2[x] = b[p[x]]
    BY <1>3 DEF Moved
  <1> DEFINE r == [x \in R |-> p[q[x]]]
  <1>11. \A x \in R : q[x] \in R /\ p[x] \in R
    OBVIOUS
  <1>12. r \in [R -> R] /\ \A x \in R : r[x] = p[q[x]]
    BY <1>11
  <1> HIDE DEF r
  <1>13. OneToOneOn(r, R)
    BY <1>9, <1>10, <1>11, <1>12 DEF OneToOneOn
  <1>14. \A x \in R : d[x] = a[r[x]]
    <2>1. \A x \in R : b[x] = a[x]
      BY <1>0 DEF Agree, R
    <2> QED BY <1>9, <1>10, <1>11, <1>12, <2>1
  <1>15. Moved(d, a, R)
    BY <1>2, <1>7, <1>8, <1>12, <1>13, <1>14 DEF Moved
  <1>16. Kept(b2, b, R)
    BY <1>3 DEF Kept, Moved
  <1> QED BY <1>6, <1>7, <1>15, <1>16 DEF R, Split

(* What a call of the recursion does to b and a, by induction on how much it is given. *)
LEMMA SplitSorts ==
  ASSUME NEW D, NEW E, NEW V, NEW C, C = Either(D, E, V),
         NEW begin \in Int, NEW end \in Int, begin <= end,
         Covers(D, begin, end), Covers(E, begin, end),
         NEW M, Splits(M, C, begin, end),
         NEW b \in C, NEW a \in C, Agree(b, a, begin .. end - 1), Numeric(a, begin .. end - 1)
  PROVE  LET d == M[<<b, a, begin, end>>][2]
         IN  Moved(d, a, begin .. end - 1) /\ Ordered(d, begin, end - 1)
  <1> DEFINE
        R(c, e, l, h) == M[<<c, e, l, h>>]
        Done(c, e, l, h) ==
          LET r == R(c, e, l, h)
          IN  r[1] \in C /\ r[2] \in C /\ Split(r[1], r[2], c, e, l, h)
        Call(c, e, l, h) == /\ c \in C /\ e \in C /\ l \in begin .. end /\ h \in begin .. end
                            /\ Agree(c, e, l .. h - 1) /\ Numeric(e, l .. h - 1)
        S == {w \in Nat : \A c \in C, e \in C, l \in begin .. end, h \in begin .. end :
                            Agree(c, e, l .. h - 1) /\ Numeric(e, l .. h - 1) /\ h - l <= w => Done(c, e, l, h)}
  <1>0. C = [D -> V] \cup [E -> V]
    BY DEF Either
  <1>1. ASSUME NEW c, NEW e, NEW l, NEW h, Call(c, e, l, h)
        PROVE  \A middle, left, right :
                 middle = (h + l) \div 2 /\ left = R(e, c, l, middle) /\ right = R(left[1], left[2], middle, h) =>
                 R(c, e, l, h) = IF h - l < 2 THEN <<c, e>>
                   ELSE <<right[2], DArray_fucked_topdown_merge(right[2], right[1], l, middle, h)>>
    <2>1. PICK s : s = <<c, e, l, h>>
      OBVIOUS
    <2>2. s \in SplitCalls(C, begin, end) /\ s[1] = c /\ s[2] = e /\ s[3] = l /\ s[4] = h
      BY <1>1, <2>1 DEF SplitCalls
    <2>3. LET x == (s[4] + s[3]) \div 2
              y == M[<<s[2], s[1], s[3], x>>]
              z == M[<<y[1], y[2], x, s[4]>>]
          IN  M[s] = IF s[4] - s[3] < 2 THEN <<s[1], s[2]>>
                       ELSE <<z[2], DArray_fucked_topdown_merge(z[2], z[1], s[3], x, s[4])>>
      BY <2>2 DEF Splits
    <2> SUFFICES ASSUME NEW middle, NEW left, NEW right, middle = (h + l) \div 2,
                        left = M[<<e, c, l, middle>>], right = M[<<left[1], left[2], middle, h>>]
                 PROVE  M[<<c, e, l, h>>] = IF h - l < 2 THEN <<c, e>>
                          ELSE <<right[2], DArray_fucked_topdown_merge(right[2], right[1], l, middle, h)>>
      OBVIOUS
    <2> QED BY <2>1, <2>2, <2>3
  <1>2. ASSUME NEW c, NEW e, NEW l, NEW h, Call(c, e, l, h), h - l < 2 PROVE Done(c, e, l, h)
    <2>1. R(c, e, l, h) = <<c, e>>
      <3> HIDE DEF R
      <3> QED BY <1>1, <1>2
    <2>2. Ordered(e, l, h - 1)
      BY <1>2 DEF Ordered
    <2>3. Kept(c, c, l .. h - 1)
      BY DEF Kept
    <2> QED BY <1>2, <2>1, <2>2, <2>3, MovedNot DEF Split
  <1> HIDE DEF R
  <1>3. 0 \in S
    <2>1. \A l \in begin .. end, h \in begin .. end : h - l <= 0 => h - l < 2
      OBVIOUS
    <2> HIDE DEF Done
    <2> QED BY <1>2, <2>1
  <1>4. ASSUME NEW w \in Nat, w \in S,
               NEW c, NEW e, NEW l, NEW h, Call(c, e, l, h), h - l <= w + 1, ~(h - l < 2)
        PROVE  Done(c, e, l, h)
    <2>1. PICK m : m = (h + l) \div 2
      OBVIOUS
    <2>2. /\ l \in Int /\ h \in Int /\ m \in Int /\ l < m /\ m < h
          /\ m \in begin .. end /\ l \in begin .. end /\ h \in begin .. end
          /\ m - l <= w /\ h - m <= w
      BY <1>4, <2>1
    <2>3. PICK X \in {D, E} : e \in [X -> V]
      BY <1>0, <1>4
    <2>4. PICK Y \in {D, E} : c \in [Y -> V]
      BY <1>0, <1>4
    <2>5. /\ X \in SUBSET Int /\ Y \in SUBSET Int /\ l .. h - 1 \subseteq X /\ l .. h - 1 \subseteq Y
          /\ DOMAIN e = X /\ DOMAIN c = Y /\ l <= m /\ m <= h
      BY <2>2, <2>3, <2>4 DEF Covers
    <2>6. Agree(c, e, l .. h - 1) /\ Numeric(e, l .. h - 1) /\ c \in C /\ e \in C
      BY <1>4
    <2>7. Agree(e, c, l .. m - 1) /\ Numeric(c, l .. m - 1)
      <3>1. \A j \in l .. m - 1 : j \in l .. h - 1
        BY <2>2
      <3> QED BY <2>6, <3>1 DEF Agree, Numeric
    <2>8. PICK a1, b1 : a1 = R(e, c, l, m)[1] /\ b1 = R(e, c, l, m)[2]
      OBVIOUS
    <2>9. a1 \in C /\ b1 \in C /\ Split(a1, b1, e, c, l, m)
      <3>1. Done(e, c, l, m)
        <4> HIDE DEF Done
        <4> QED BY <1>4, <2>2, <2>6, <2>7
      <3> QED BY <2>8, <3>1
    <2>10. Agree(a1, b1, m .. h - 1) /\ Numeric(b1, m .. h - 1)
      BY ONLY <2>2, <2>5, <2>6, <2>9, OtherHalf DEF Split
    <2>11. PICK a2, b2 : a2 = R(a1, b1, m, h)[1] /\ b2 = R(a1, b1, m, h)[2]
      OBVIOUS
    <2>12. a2 \in C /\ b2 \in C /\ Split(a2, b2, a1, b1, m, h)
      <3>1. Done(a1, b1, m, h)
        <4> HIDE DEF Done
        <4> QED BY <1>4, <2>2, <2>9, <2>10
      <3> QED BY <2>11, <3>1
    <2>13. a2 \in [X -> V] /\ b2 \in [Y -> V]
      <3>1. DOMAIN a2 = X /\ DOMAIN b2 = Y
        BY <2>5, <2>9, <2>12 DEF Split, Kept, Moved
      <3> QED BY <1>0, <2>12, <3>1
    <2>14. PICK f : f = DArray_fucked_topdown_merge(b2, a2, l, m, h)
      OBVIOUS
    <2>15. f \in [X -> V] /\ Split(b2, f, c, e, l, h)
      <3>1. l \in Int /\ m \in Int /\ h \in Int /\ l <= m /\ m <= h
        BY <2>2
      <3>2. Twins(c, e, Y, X, V, l, h)
        BY <2>3, <2>4, <2>5, <2>6 DEF Twins, Covers
      <3> HIDE DEF Done, S, Call
      <3>3. LET g == DArray_fucked_topdown_merge(b2, a2, l, m, h)
            IN  g \in [X -> V] /\ Split(b2, g, c, e, l, h)
        BY ONLY <2>9, <2>12, <2>13, <3>1, <3>2, HalvesMerge
      <3> QED BY <2>14, <3>3
    <2>16. R(c, e, l, h) = <<b2, f>>
      <3> HIDE DEF Done, S, Call
      <3>1. PICK p, q : p = R(e, c, l, m) /\ q = R(p[1], p[2], m, h)
        OBVIOUS
      <3>2. R(c, e, l, h) = IF h - l < 2 THEN <<c, e>>
                   ELSE <<q[2], DArray_fucked_topdown_merge(q[2], q[1], l, m, h)>>
        BY <1>1, <1>4, <2>1, <3>1
      <3> QED BY <1>4, <2>8, <2>11, <2>14, <3>1, <3>2
    <2>17. f \in C
      BY <1>0, <2>3, <2>15
    <2> QED BY <2>12, <2>15, <2>16, <2>17
  <1>5. ASSUME NEW w \in Nat, w \in S PROVE w + 1 \in S
    <2> HIDE DEF Done
    <2> SUFFICES ASSUME NEW c \in C, NEW e \in C, NEW l \in begin .. end, NEW h \in begin .. end,
                        Agree(c, e, l .. h - 1), Numeric(e, l .. h - 1), h - l <= w + 1
                 PROVE  Done(c, e, l, h)
      OBVIOUS
    <2>1. Call(c, e, l, h)
      OBVIOUS
    <2> HIDE DEF S, Call
    <2> QED BY <1>2, <1>4, <1>5, <2>1
  <1>6. Nat \subseteq S
    <2> HIDE DEF S
    <2> QED BY <1>3, <1>5, Induction
  <1>7. Done(b, a, begin, end)
    <2> HIDE DEF Done
    <2>1. PICK w \in Nat : w = end - begin
      OBVIOUS
    <2>2. begin \in begin .. end /\ end \in begin .. end /\ end - begin <= w
      BY <2>1
    <2>3. w \in S
      BY <1>6
    <2> QED BY <2>2, <2>3
  <1> QED BY <1>7 DEF Split, R

----------------------------------------------------------------------------
(* The array after each sort. *)

(* Of what has changed places there is as much of every element as before. *)
LEMMA MovedIsRearranged ==
  ASSUME NEW n \in Nat, NEW c, NEW d, Moved(d, c, Slots(n))
  PROVE  Rearranged(d, c, n)
  <1>1. PICK q \in [Slots(n) -> Slots(n)] : OneToOneOn(q, Slots(n)) /\ \A j \in Slots(n) : d[j] = c[q[j]]
    BY DEF Moved
  <1>2. \A k \in Slots(n) : \E j \in Slots(n) : q[j] = k
    BY <1>1, OneToOneIsOnto DEF OneToOneOn
  <1> SUFFICES ASSUME NEW x
               PROVE  Cardinality({j \in Slots(n) : d[j] = x}) = Cardinality({j \in Slots(n) : c[j] = x})
    BY DEF Rearranged
  <1> DEFINE P == {j \in Slots(n) : d[j] = x}
             N == {j \in Slots(n) : c[j] = x}
             f == [j \in P |-> q[j]]
  <1>3. IsFiniteSet(P)
    <2>1. IsFiniteSet(Slots(n))
      BY FS_Interval DEF Slots
    <2>2. P \in SUBSET Slots(n)
      OBVIOUS
    <2> HIDE DEF P
    <2> QED BY <2>1, <2>2, FS_Subset
  <1>4. f \in [P -> N] /\ \A i, j \in P : f[i] = f[j] => i = j
    BY <1>1 DEF OneToOneOn
  <1>5. \A k \in N : \E j \in P : f[j] = k
    BY <1>1, <1>2
  <1> HIDE DEF f, P, N
  <1>6. f \in Bijection(P, N)
    BY <1>4, <1>5, Fun_IsBij
  <1>7. ExistsBijection(P, N)
    BY <1>6, Fun_ExistsBij
  <1>8. Cardinality(N) = Cardinality(P)
    BY <1>3, <1>7, FS_Bijection
  <1> QED BY <1>8 DEF P, N

(* The copy of the array, in which the merge sort sorts the halves, has memory *)
(* for max elements, and the array may have more.                              *)
LEMMA MergesortFacts ==
  ASSUME NEW V, NEW m \in Nat, NEW a \in Arrays(m, V), a.end <= a.max, a.max <= m,
         Numeric(a.contents, 0 .. a.end - 1)
  PROVE  Sorts(DArray_fucked_mergesort(a), a.contents, a.end)
  <1> DEFINE b == DArray_shallow_copy(a).contents
  <1>1. PICK c, n, max : c = a.contents /\ n = a.end /\ max = a.max
    OBVIOUS
  <1>2. c \in [Slots(m) -> V] /\ n \in Nat /\ max \in Nat /\ n <= max /\ max <= m
    BY <1>1 DEF Arrays
  <1>3. b = [j \in Slots(max) |-> c[j]]
    BY <1>1 DEF DArray_shallow_copy, DArray_create, DArray_get
  <1> HIDE DEF b
  <1>4. 0 .. n - 1 \subseteq Slots(m) /\ 0 .. n - 1 \subseteq Slots(max) /\ Slots(max) \subseteq Slots(m)
    BY <1>2 DEF Slots
  <1>5. Agree(b, c, 0 .. n - 1)
    BY <1>3, <1>4 DEF Agree
  <1>6. PICK W : W = {c[j] : j \in DOMAIN c} \cup {b[j] : j \in DOMAIN b}
    OBVIOUS
  <1>7. c \in [Slots(m) -> W] /\ b \in [Slots(max) -> W] /\ DOMAIN c = Slots(m) /\ DOMAIN b = Slots(max)
    BY <1>2, <1>3, <1>6
  <1>8. PICK C : C = Either(Slots(m), Slots(max), W)
    OBVIOUS
  <1>9. C = Copied(b, c) /\ b \in C /\ c \in C
    BY <1>6, <1>7, <1>8 DEF Copied, Either
  <1>10. Slots(m) \in SUBSET Int /\ Slots(max) \in SUBSET Int /\ 0 \in Int /\ n \in Int /\ 0 <= n
    BY <1>2 DEF Slots
  <1>11. Covers(Slots(m), 0, n) /\ Covers(Slots(max), 0, n)
    BY <1>4, <1>10 DEF Covers
  <1>12. PICK M : /\ Splits(M, C, 0, n)
                  /\ DArray_fucked_topdown_split_merge(b, c, 0, n) = M[<<b, c, 0, n>>]
    <2>1. \E M : SplitOf(M, C, b, c, 0, n)
      BY ONLY <1>8, <1>9, <1>10, <1>11, SplitExists
    <2> QED BY <2>1 DEF SplitOf
  <1>13. Numeric(c, 0 .. n - 1)
    BY <1>1
  <1>14. PICK d : d = M[<<b, c, 0, n>>][2]
    OBVIOUS
  <1>15. Moved(d, c, 0 .. n - 1) /\ Ordered(d, 0, n - 1)
    BY ONLY <1>5, <1>8, <1>9, <1>10, <1>11, <1>12, <1>13, <1>14, SplitSorts
  <1>16. DArray_fucked_mergesort(a) = d
    BY <1>1, <1>12, <1>14 DEF DArray_fucked_mergesort, b
  <1> QED BY <1>1, <1>15, <1>16 DEF Sorts

(* What is less goes before what is greater. *)
LEMMA PlacesInOrder ==
  ASSUME NEW n \in Nat, NEW c, \A j \in Slots(n) : c[j] \in Int,
         NEW x \in Slots(n), NEW y \in Slots(n), c[y] < c[x]
  PROVE  Place(c, n, y) <= Place(c, n, x)
  <1> DEFINE Less(j) == {k \in Slots(n) : c[k] < c[j] \/ (c[k] = c[j] /\ k < j)}
  <1>1. \A j \in Slots(n) : Less(j) \subseteq Slots(n) /\ Place(c, n, j) = Cardinality(Less(j))
    BY DEF Place
  <1>2. Less(y) \in SUBSET Less(x)
    OBVIOUS
  <1> HIDE DEF Less
  <1>3. IsFiniteSet(Less(x))
    <2>1. IsFiniteSet(Slots(n))
      BY FS_Interval DEF Slots
    <2>2. Less(x) \in SUBSET Slots(n)
      BY <1>1
    <2> QED BY <2>1, <2>2, FS_Subset
  <1>4. Cardinality(Less(y)) <= Cardinality(Less(x))
    BY <1>2, <1>3, FS_Subset
  <1> QED BY <1>1, <1>4

(* The heapsort of the C library, by what it promises. *)
LEMMA PlacesSort ==
  ASSUME NEW V, NEW m \in Nat, NEW a \in Arrays(m, V), a.end <= m,
         Numeric(a.contents, 0 .. a.end - 1)
  PROVE  Sorts(DArray_heapsort(a).contents, a.contents, a.end)
  <1>1. PICK c, n : c = a.contents /\ n = a.end
    OBVIOUS
  <1>2. c \in [Slots(m) -> V] /\ n \in Nat /\ DOMAIN c = Slots(m) /\ \A j \in Slots(n) : c[j] \in Int
    BY <1>1 DEF Arrays, Numeric, Slots
  <1>3. Slots(n) \subseteq Slots(m) /\ \A j \in Slots(m) : j \in Slots(n) <=> j < n
    BY <1>1, <1>2 DEF Slots
  <1>4. PICK q : q = [j \in Slots(n) |-> CHOOSE k \in Slots(n) : Place(c, n, k) = j]
    OBVIOUS
  <1>5. ASSUME NEW j \in Slots(n) PROVE q[j] \in Slots(n) /\ Place(c, n, q[j]) = j
    <2>1. \E k \in Slots(n) : Place(c, n, k) = j
      BY <1>2, PlaceIsOnto
    <2> QED BY <1>4, <2>1
  <1>6. q \in [Slots(n) -> Slots(n)] /\ OneToOneOn(q, Slots(n))
    <2>1. q = [j \in Slots(n) |-> q[j]]
      BY <1>4
    <2> QED BY <1>5, <2>1 DEF OneToOneOn
  <1>7. PICK d : d = DArray_heapsort(a).contents
    OBVIOUS
  <1>8. DOMAIN d = Slots(m) /\ \A j \in Slots(m) : d[j] = IF j \in Slots(n) THEN c[q[j]] ELSE c[j]
    <2>1. d = [j \in Slots(m) |-> IF j < n THEN c[CHOOSE k \in Slots(n) : Place(c, n, k) = j] ELSE c[j]]
      BY <1>1, <1>2, <1>7 DEF DArray_heapsort, Arrays
    <2> QED BY <1>3, <1>4, <2>1
  <1>9. Moved(d, c, Slots(n))
    BY <1>2, <1>3, <1>6, <1>8 DEF Moved
  <1>10. ASSUME NEW i \in Slots(n), NEW j \in Slots(n), i < j PROVE d[i] <= d[j]
    <2>1. /\ d[i] = c[q[i]] /\ d[j] = c[q[j]] /\ q[i] \in Slots(n) /\ q[j] \in Slots(n)
          /\ Place(c, n, q[i]) = i /\ Place(c, n, q[j]) = j
      BY <1>3, <1>5, <1>8
    <2>2. PICK x, y : x = q[i] /\ y = q[j]
      OBVIOUS
    <2>3. c[x] \in Int /\ c[y] \in Int /\ x \in Slots(n) /\ y \in Slots(n) /\ Place(c, n, x) = i /\ Place(c, n, y) = j
      BY <1>2, <2>1, <2>2
    <2>4. ASSUME c[y] < c[x] PROVE j <= i
      BY <2>3, <2>4, PlacesInOrder, <1>2
    <2>5. i \in Int /\ j \in Int
      BY DEF Slots
    <2> QED BY <1>10, <2>1, <2>2, <2>3, <2>4, <2>5
  <1>11. Ordered(d, 0, n - 1)
    BY <1>10 DEF Ordered, Slots
  <1> QED BY <1>1, <1>7, <1>9, <1>11 DEF Sorts, Slots

(* The quicksort, the heap sorts and the merge sort leave the elements of the   *)
(* array in order, all of them and nothing else, whatever the numbers are, how  *)
(* many and in which order, and what is behind the end where it was.            *)
THEOREM SortsAlwaysSort == Spec => []SortsSort
  <1>1. ArrayInv => SortsSort
    <2> SUFFICES ASSUME ArrayInv, InMemory, Sound,
                        NEW c \in {DArray_fucked_qsort(array), DArray_fucked_heapsort(array),
                                   DArray_fucked_mergesort(array), DArray_heapsort(array).contents}
                 PROVE  /\ InOrder(c, array.end)
                        /\ Rearranged(c, array.contents, array.end)
                        /\ \A j \in DOMAIN array.contents : j >= array.end => c[j] = array.contents[j]
      BY DEF SortsSort
    <2>1. PICK m \in Nat : Usable(m)
      BY InMemoryHolds
    <2>2. /\ array \in Arrays(m, Contents) /\ array.end \in Nat /\ array.end <= array.max
          /\ array.max <= m /\ array.end <= m
      BY <2>1 DEF Usable
    <2>3. Numeric(array.contents, 0 .. array.end - 1)
      BY ElementsAssumption DEF Numeric, Sound, Slots
    <2>4. PICK n, a : n = array.end /\ a = array.contents
      OBVIOUS
    <2>5. /\ a \in [Slots(m) -> Contents] /\ n \in Nat /\ Slots(m) \in SUBSET Int
          /\ 0 .. n - 1 \subseteq Slots(m) /\ Numeric(a, 0 .. n - 1)
      BY <2>2, <2>3, <2>4 DEF Arrays, Slots
    <2>6. Sorts(DArray_fucked_qsort(array), a, n)
      BY <2>4, <2>5, QsortFacts DEF DArray_fucked_qsort
    <2>7. Sorts(DArray_fucked_heapsort(array), a, n)
      BY <2>4, <2>5, FuckedHeapsortFacts
    <2>8. Sorts(DArray_fucked_mergesort(array), a, n)
      BY <2>2, <2>3, <2>4, MergesortFacts
    <2>9. Sorts(DArray_heapsort(array).contents, a, n)
      BY <2>2, <2>3, <2>4, PlacesSort
    <2>10. Sorts(c, a, n)
      BY <2>6, <2>7, <2>8, <2>9
    <2>11. InOrder(c, n)
      BY <2>10 DEF Sorts, Ordered, InOrder, Slots
    <2>12. Rearranged(c, a, n)
      BY <2>5, <2>10, MovedIsRearranged DEF Sorts, Slots
    <2>13. ASSUME NEW j \in DOMAIN a, j >= n PROVE c[j] = a[j]
      <3>1. j \in Int /\ j \notin 0 .. n - 1
        BY <2>5, <2>13 DEF Slots
      <3> QED BY <2>10, <2>13, <3>1 DEF Sorts, Moved
    <2> QED BY <2>4, <2>11, <2>12, <2>13
  <1> QED BY <1>1, ArrayInvariant, PTL

----------------------------------------------------------------------------
(* One bucket. *)

Memory == Nodes \cup {NULL, Junk}

\* An array with a different node in each slot up to its end, and zeros behind.
Tidy(b) ==
  \E m \in Nat :
    /\ b \in Arrays(m, Memory) /\ b.end < b.max /\ b.end <= m
    /\ \A j \in Slots(b.end) : b.contents[j] \in Nodes
    /\ \A i, j \in Slots(b.end) : b.contents[i] = b.contents[j] => i = j
    /\ UnusedNull(b, m)

In(b) == {b.contents[j] : j \in Slots(b.end)}

LEMMA NewBucketIsTidy == Tidy(NewBucket) /\ In(NewBucket) = {}
  <1>1. NewBucket \in Arrays(DEFAULT_NUMBER_OF_BUCKETS, Memory)
    BY BucketsAssumption DEF NewBucket, DArray_create, Arrays, Memory
  <1>2. NewBucket.end = 0 /\ NewBucket.max = DEFAULT_NUMBER_OF_BUCKETS /\ Slots(0) = {}
    BY DEF NewBucket, DArray_create, Slots
  <1>3. UnusedNull(NewBucket, DEFAULT_NUMBER_OF_BUCKETS)
    BY BucketsAssumption DEF NewBucket, DArray_create, UnusedNull, Slots
  <1> QED BY <1>1, <1>2, <1>3, BucketsAssumption DEF Tidy, In

(* A node that is new is pushed, and the bucket gets some order. *)
LEMMA ShuffledPush ==
  ASSUME NEW b, Tidy(b), b.end \in DOMAIN b.contents, NEW node \in Nodes, node \notin In(b),
         NEW r \in DArray_push(b, node), NEW c \in Shuffled(r.array)
  PROVE  Tidy(c) /\ In(c) = In(b) \cup {node}
  <1>1. PICK m \in Nat :
          /\ b \in Arrays(m, Memory) /\ b.end < b.max /\ b.end <= m
          /\ \A j \in Slots(b.end) : b.contents[j] \in Nodes
          /\ \A i, j \in Slots(b.end) : b.contents[i] = b.contents[j] => i = j
          /\ UnusedNull(b, m)
    BY DEF Tidy
  <1>2. b.end \in Nat /\ b.end < m /\ {Junk, NULL} \subseteq Memory /\ node \in Memory
    BY <1>1 DEF Arrays, Slots, Memory
  <1> DEFINE a == r.array
             d == a.contents
  <1>3. /\ a.end = b.end + 1 /\ a.end < a.max
        /\ \A j \in Slots(b.end) : d[j] = b.contents[j]
        /\ d[b.end] = node
    BY <1>1, <1>2, PushFacts
  <1>4. PICK n \in Nat : a \in Arrays(n, Memory) /\ b.end < n /\ UnusedNull(a, n)
    BY <1>1, <1>2, PushFacts
  <1>5. PICK p \in [Slots(a.end) -> Slots(a.end)] :
          /\ \A i, j \in Slots(a.end) : p[i] = p[j] => i = j
          /\ c = [a EXCEPT !.contents = [j \in DOMAIN d |-> IF j < a.end THEN d[p[j]] ELSE d[j]]]
    BY DEF Shuffled
  <1> HIDE DEF a
  <1>6. Slots(a.end) = Slots(b.end) \cup {b.end} /\ b.end \notin Slots(b.end)
    BY <1>2, <1>3 DEF Slots
  <1>7. (\A j \in Slots(a.end) : d[j] \in Nodes) /\ {d[j] : j \in Slots(a.end)} = In(b) \cup {node}
    BY <1>1, <1>3, <1>6 DEF In
  <1>8. \A i, j \in Slots(a.end) : d[i] = d[j] => i = j
    BY <1>1, <1>3, <1>6 DEF In
  <1> DEFINE e == [j \in Slots(n) |-> IF j < a.end THEN d[p[j]] ELSE d[j]]
  <1>9. a.end \in Nat /\ d \in [Slots(n) -> Memory] /\ a.end <= n
    BY <1>2, <1>3, <1>4 DEF Arrays
  <1>10. Slots(a.end) \subseteq Slots(n) /\ \A j \in Slots(n) : j < a.end <=> j \in Slots(a.end)
    BY <1>9 DEF Slots
  <1>11. e \in [Slots(n) -> Memory] /\ \A j \in Slots(a.end) : e[j] = d[p[j]]
    BY <1>9, <1>10
  <1>16. \A j \in a.end .. n - 1 : e[j] = NULL
    BY <1>4, <1>9 DEF UnusedNull, Slots
  <1>12. c = [a EXCEPT !.contents = e]
    BY <1>5, <1>9
  <1> HIDE DEF e
  <1>13. c \in Arrays(n, Memory) /\ c.end = a.end /\ c.max = a.max /\ c.contents = e
    BY <1>4, <1>11, <1>12 DEF Arrays
  <1> HIDE DEF d
  <1>14. Tidy(c)
    <2>1. \A j \in Slots(c.end) : c.contents[j] \in Nodes
      BY <1>7, <1>11, <1>13
    <2>2. \A i, j \in Slots(c.end) : c.contents[i] = c.contents[j] => i = j
      BY <1>5, <1>8, <1>11, <1>13
    <2>3. UnusedNull(c, n)
      BY <1>13, <1>16 DEF UnusedNull
    <2> QED BY <1>3, <1>9, <1>13, <2>1, <2>2, <2>3 DEF Tidy
  <1>15. In(c) = {d[j] : j \in Slots(a.end)}
    <2>1. \A i \in Slots(a.end) : \E j \in Slots(a.end) : p[j] = i
      BY <1>5, <1>9, OneToOneIsOnto
    <2> QED BY <1>11, <1>13, <2>1 DEF In
  <1> QED BY <1>7, <1>14, <1>15

(* The last node of a bucket takes the place of one that is deleted. *)
LEMMA SwapDelete ==
  ASSUME NEW b, Tidy(b), NEW i \in Slots(b.end), b.contents[i] # b.contents[b.end - 1],
         NEW c \in DArray_pop(b), NEW d, d = DArray_set(c, i, b.contents[b.end - 1])
  PROVE  Tidy(d) /\ In(d) = In(b) \ {b.contents[i]}
  <1>1. PICK m \in Nat :
          /\ b \in Arrays(m, Memory) /\ b.end < b.max /\ b.end <= m
          /\ \A j \in Slots(b.end) : b.contents[j] \in Nodes
          /\ \A k, j \in Slots(b.end) : b.contents[k] = b.contents[j] => k = j
          /\ UnusedNull(b, m)
    BY DEF Tidy
  <1> DEFINE last == b.end - 1
             ending == b.contents[last]
  <1>2. /\ b.end \in Nat /\ {Junk, NULL} \subseteq Memory /\ last \in Slots(b.end) /\ b.end # 0
        /\ i \in Slots(last) /\ last \in Nat /\ Slots(b.end) = Slots(last) \cup {last}
        /\ last \notin Slots(last) /\ ~(i > last)
    <2>1. b.end \in Nat /\ {Junk, NULL} \subseteq Memory
      BY <1>1 DEF Arrays, Memory
    <2>2. i \in Int /\ 0 <= i /\ i <= last /\ i # last
      BY <2>1 DEF Slots
    <2> QED BY <2>1, <2>2 DEF Slots
  <1>3. /\ c.end = last /\ c.end < c.max
        /\ \A j \in Slots(last) : c.contents[j] = b.contents[j]
    BY <1>1, <1>2, PopFacts
  <1>4. PICK n \in Nat : c \in Arrays(n, Memory) /\ c.end <= n /\ UnusedNull(c, n)
    BY <1>1, <1>2, PopFacts
  <1>5. ending \in Nodes /\ ending \in Memory /\ ending # b.contents[i]
    BY <1>1, <1>2 DEF Memory
  <1> HIDE DEF last, ending
  <1>6. /\ d \in Arrays(n, Memory) /\ d.end = last /\ d.max = c.max
        /\ d.contents[i] = ending
        /\ \A j \in Slots(last) : j # i => d.contents[j] = b.contents[j]
        /\ UnusedNull(d, n)
    <2> DEFINE e == [c.contents EXCEPT ![i] = ending]
    <2>1. Slots(last) \subseteq Slots(n)
      BY <1>2, <1>3, <1>4 DEF Slots
    <2>2. e \in [Slots(n) -> Memory] /\ e[i] = ending /\ \A j \in Slots(n) : j # i => e[j] = c.contents[j]
      BY <1>2, <1>4, <1>5, <2>1 DEF Arrays
    <2>3. d = [c EXCEPT !.contents = e, !.end = last]
      BY <1>2, <1>3 DEF DArray_set, ending, last
    <2> HIDE DEF e
    <2>4. d = [contents |-> e, end |-> last, max |-> c.max] /\ c.max \in Nat
      BY <1>4, <2>3 DEF Arrays
    <2>5. d \in Arrays(n, Memory)
      BY <1>2, <2>2, <2>4 DEF Arrays
    <2>6. UnusedNull(d, n)
      <3>1. \A j \in last .. n - 1 : j \in Slots(n) /\ j # i
        BY <1>2 DEF Slots
      <3> QED BY <1>3, <1>4, <2>2, <2>4, <3>1 DEF UnusedNull
    <2> QED BY <1>2, <1>3, <2>1, <2>2, <2>4, <2>5, <2>6
  <1>7. b.contents[last] = ending
    BY DEF ending
  <1>8. Tidy(d)
    <2>1. \A j \in Slots(d.end) : d.contents[j] \in Nodes
      BY <1>1, <1>2, <1>5, <1>6
    <2>2. \A k, j \in Slots(d.end) : d.contents[k] = d.contents[j] => k = j
      BY <1>1, <1>2, <1>6, <1>7
    <2> QED BY <1>3, <1>4, <1>6, <2>1, <2>2 DEF Tidy
  <1>9. In(d) = In(b) \ {b.contents[i]}
    <2>1. ASSUME NEW x \in In(d) PROVE x \in In(b) /\ x # b.contents[i]
      <3>1. PICK j \in Slots(last) : x = d.contents[j]
        BY <1>6 DEF In
      <3>2. CASE j = i
        BY <1>2, <1>5, <1>6, <1>7, <3>1, <3>2 DEF In
      <3>3. CASE j # i
        BY <1>1, <1>2, <1>6, <3>1, <3>3 DEF In
      <3> QED BY <3>2, <3>3
    <2>2. ASSUME NEW x \in In(b), x # b.contents[i] PROVE x \in In(d)
      <3>1. PICK j \in Slots(b.end) : x = b.contents[j]
        BY DEF In
      <3>2. CASE j = last
        BY <1>2, <1>6, <1>7, <3>1, <3>2 DEF In
      <3>3. CASE j # last
        BY <1>2, <1>6, <2>2, <3>1, <3>3 DEF In
      <3> QED BY <3>2, <3>3
    <2> QED BY <2>1, <2>2
  <1> QED BY <1>8, <1>9

(* DArray_clear of a bucket that has lost its last node frees all the others,   *)
(* even if the memory is not what max says.                                    *)
LEMMA ClearedFacts ==
  ASSUME NEW b, Tidy(b), b.end # 0, NEW c \in DArray_pop(b)
  PROVE  {b.contents[b.end - 1]} \cup Cleared(c) = In(b)
  <1>1. PICK m \in Nat :
          /\ b \in Arrays(m, Memory) /\ b.end < b.max /\ b.end <= m
          /\ \A j \in Slots(b.end) : b.contents[j] \in Nodes
          /\ UnusedNull(b, m)
    BY DEF Tidy
  <1> DEFINE last == b.end - 1
  <1>2. /\ last \in Nat /\ {Junk, NULL} \subseteq Memory
        /\ Slots(b.end) = Slots(last) \cup {last}
    BY <1>1 DEF Arrays, Memory, Slots
  <1>3. /\ c.end = last /\ c.end < c.max
        /\ \A j \in Slots(last) : c.contents[j] = b.contents[j]
    BY <1>1, <1>2, PopFacts
  <1>4. PICK n \in Nat : c \in Arrays(n, Memory) /\ c.end <= n /\ UnusedNull(c, n)
    BY <1>1, <1>2, PopFacts
  <1> HIDE DEF last
  <1>5. DOMAIN c.contents = Slots(n) /\ c.max \in Nat
    BY <1>4 DEF Arrays
  <1> DEFINE M == Slots(c.max) \cap Slots(n)
  <1>6. Slots(last) \subseteq M /\ \A j \in M : j \in Slots(last) \/ c.contents[j] = NULL
    BY <1>2, <1>3, <1>4, <1>5 DEF Slots, UnusedNull
  <1>7. \A j \in Slots(last) : c.contents[j] = b.contents[j] /\ b.contents[j] # NULL
    BY <1>1, <1>2, <1>3, NodesAssumption
  <1>8. Cleared(c) = {c.contents[j] : j \in M} \ {NULL}
    BY <1>5 DEF Cleared
  <1> HIDE DEF M
  <1>9. Cleared(c) = {b.contents[j] : j \in Slots(last)}
    BY <1>6, <1>7, <1>8
  <1> QED BY <1>2, <1>9 DEF In, last

----------------------------------------------------------------------------
(* The map. *)

(* Each node is in the bucket of its key, and each that is allocated in one. *)
Allocated == {n \in Nodes : key[n] # NULL}

MapInv ==
  /\ salt \in Numbers \cup {NULL}
  /\ salt = NULL => buckets = NoBuckets
  /\ key \in [Nodes -> Keys \cup {NULL}]
  /\ DOMAIN buckets \subseteq Numbers
  /\ \A n \in DOMAIN buckets :
       /\ Tidy(buckets[n])
       /\ \A node \in In(buckets[n]) : key[node] \in Keys /\ BucketOf(key[node]) = n
  /\ \A node \in Allocated : \E n \in DOMAIN buckets : node \in In(buckets[n])

LEMMA NumbersAreNat == Numbers \subseteq Nat
  BY DEF Numbers, Slots

LEMMA TidyFacts ==
  ASSUME NEW b, Tidy(b)
  PROVE  b.end \in Nat /\ Slots(b.end) \subseteq Nat /\ In(b) \subseteq Nodes
  BY DEF Tidy, In, Arrays, Slots

LEMMA BucketNumber ==
  ASSUME MapInv, salt # NULL, NEW k \in Keys
  PROVE  BucketOf(k) \in Numbers
  <1>1. salt \in Nat /\ Hash[k] \in Nat /\ DEFAULT_NUMBER_OF_BUCKETS \in Nat \ {0}
    BY HashAssumption, BucketsAssumption DEF MapInv, Numbers, Slots
  <1> QED BY <1>1 DEF BucketOf, Numbers, Slots

(* Hashmap_get_node gives the place of a node with the key, if there is one. *)
LEMMA GetNodeFacts ==
  ASSUME NEW b, Tidy(b), NEW k
  PROVE  LET i == Hashmap_get_node(b, k)
         IN  \/ i \in Slots(b.end) /\ key[b.contents[i]] = k
             \/ i = -1 /\ \A node \in In(b) : key[node] # k
  <1> DEFINE hits == {j \in Slots(b.end) :
                        Hash[key[DArray_get(b, j)]] = Hash[k] /\ key[DArray_get(b, j)] = k}
  <1>1. hits \in SUBSET Nat
    BY TidyFacts
  <1>2. Hashmap_get_node(b, k) = IF hits = {} THEN -1 ELSE CHOOSE j \in hits : \A i \in hits : j <= i
    BY DEF Hashmap_get_node
  <1>3. \A j \in hits : j \in Slots(b.end) /\ key[b.contents[j]] = k
    BY DEF DArray_get
  <1>4. CASE hits = {}
    <2>1. \A node \in In(b) : key[node] # k
      BY <1>4 DEF In, DArray_get
    <2> HIDE DEF hits
    <2> QED BY <1>2, <1>4, <2>1
  <1>5. CASE hits # {}
    <2> HIDE DEF hits
    <2>1. (CHOOSE j \in hits : \A i \in hits : j <= i) \in hits
      BY <1>1, <1>5, Least
    <2> QED BY <1>2, <1>3, <1>5, <2>1
  <1> QED BY <1>4, <1>5

(* What Hashmap_get gives is NULL or a node with the key, and never NULL when *)
(* there is one.                                                              *)
LEMMA GetFacts ==
  ASSUME MapInv, salt # NULL, NEW k \in Keys
  PROVE  LET n == BucketOf(k)
             i == Hashmap_get_node(buckets[n], k)
             b == buckets[n]
         IN  \/ /\ n \in DOMAIN buckets /\ Tidy(b) /\ i \in Slots(b.end)
                /\ Hashmap_get(k) = b.contents[i] /\ b.contents[i] \in In(b)
                /\ key[b.contents[i]] = k /\ b.contents[i] \in Allocated
             \/ /\ Hashmap_get(k) = NULL
                /\ \A node \in Allocated : key[node] # k
  <1> DEFINE n == BucketOf(k)
             b == buckets[n]
             i == Hashmap_get_node(b, k)
  <1>1. Hashmap_get(k) = IF n \notin DOMAIN buckets \/ i = -1 THEN NULL ELSE b.contents[i]
    BY DEF Hashmap_get, DArray_get
  <1>2. \A node \in Allocated : key[node] = k => n \in DOMAIN buckets /\ node \in In(b)
    BY DEF MapInv
  <1>3. CASE n \notin DOMAIN buckets
    BY <1>1, <1>2, <1>3
  <1>4. CASE n \in DOMAIN buckets
    <2>1. Tidy(b)
      BY <1>4 DEF MapInv
    <2>2. \/ i \in Slots(b.end) /\ key[b.contents[i]] = k
          \/ i = -1 /\ \A node \in In(b) : key[node] # k
      BY <2>1, GetNodeFacts
    <2>3. CASE i \in Slots(b.end) /\ key[b.contents[i]] = k
      <3>1. i # -1
        BY <2>1, <2>3, TidyFacts
      <3>2. b.contents[i] \in In(b) /\ b.contents[i] \in Nodes
        BY <2>1, <2>3, TidyFacts DEF In
      <3>3. k # NULL
        BY NodesAssumption
      <3> QED BY <1>1, <1>4, <2>1, <2>3, <3>1, <3>2, <3>3 DEF Allocated
    <2>4. CASE i = -1 /\ \A node \in In(b) : key[node] # k
      BY <1>1, <1>2, <2>4
    <2> QED BY <2>2, <2>3, <2>4
  <1> QED BY <1>3, <1>4

(* A node goes into the bucket of its key. *)
LEMMA InsertKeeps ==
  ASSUME MapInv, salt # NULL, NEW k \in Keys, Insert(k)
  PROVE  MapInv'
  <1> DEFINE n == BucketOf(k)
             b == Found(n)
  <1>1. PICK node \in Calloc : \E r \in DArray_push(b, node) :
          /\ buckets' \in {With(n, c) : c \in Shuffled(r.array)}
          /\ key' = [key EXCEPT ![node] = k]
    BY DEF Insert
  <1>2. PICK r \in DArray_push(b, node) : \E c \in Shuffled(r.array) : buckets' = With(n, c)
    BY <1>1
  <1>3. PICK c \in Shuffled(r.array) : buckets' = With(n, c)
    BY <1>2
  <1>4. b.end \in DOMAIN b.contents /\ salt' = salt /\ n \in Numbers
    BY BucketNumber DEF Insert
  <1>5. node \in Nodes /\ key[node] = NULL /\ k # NULL /\ NULL \notin Keys
    BY NodesAssumption DEF Calloc
  <1>6. Tidy(b) /\ \A x \in In(b) : key[x] \in Keys /\ BucketOf(key[x]) = n
    BY NewBucketIsTidy DEF Found, MapInv
  <1>7. node \notin In(b)
    BY <1>5, <1>6
  <1> HIDE DEF b
  <1>8. Tidy(c) /\ In(c) = In(b) \cup {node}
    BY <1>4, <1>5, <1>6, <1>7, ShuffledPush
  <1>9. /\ DOMAIN buckets' = DOMAIN buckets \cup {n} /\ buckets'[n] = c
        /\ \A m \in DOMAIN buckets : m # n => buckets'[m] = buckets[m]
    BY <1>3 DEF With
  <1>10. n \in DOMAIN buckets => b = buckets[n]
    BY DEF b, Found
  <1>11. /\ key' \in [Nodes -> Keys \cup {NULL}] /\ key'[node] = k
         /\ \A x \in Nodes : x # node => key'[x] = key[x]
    BY <1>1, <1>5 DEF MapInv
  <1>12. Allocated' = Allocated \cup {node}
    BY <1>5, <1>11 DEF Allocated
  <1>13. BucketOf(k)' = n /\ \A x : BucketOf(x)' = BucketOf(x)
    BY <1>4 DEF BucketOf
  <1> HIDE DEF n
  <1>14. ASSUME NEW m \in DOMAIN buckets'
         PROVE  /\ Tidy(buckets'[m])
                /\ \A x \in In(buckets'[m]) : key'[x] \in Keys /\ (BucketOf(key[x]))' = m
    <2>1. CASE m = n
      <3>1. \A x \in In(b) : x \in Nodes /\ x # node /\ key'[x] = key[x]
        BY <1>6, <1>7, <1>11, TidyFacts
      <3> QED BY <1>4, <1>6, <1>8, <1>9, <1>11, <2>1, <3>1 DEF BucketOf, n
    <2>2. CASE m # n
      <3>1. m \in DOMAIN buckets /\ buckets'[m] = buckets[m] /\ Tidy(buckets[m])
        BY <1>9, <2>2 DEF MapInv
      <3>2. \A x \in In(buckets[m]) : x \in Nodes /\ key[x] \in Keys /\ BucketOf(key[x]) = m
        BY <3>1, TidyFacts DEF MapInv
      <3>3. \A x \in In(buckets[m]) : x # node /\ key'[x] = key[x]
        BY <1>5, <1>11, <3>2
      <3> QED BY <1>4, <3>1, <3>2, <3>3 DEF BucketOf
    <2> QED BY <2>1, <2>2
  <1>15. ASSUME NEW x \in Allocated'
         PROVE  \E m \in DOMAIN buckets' : x \in In(buckets'[m])
    <2>1. CASE x = node
      BY <1>8, <1>9, <2>1
    <2>2. CASE x \in Allocated
      <3>1. PICK m \in DOMAIN buckets : x \in In(buckets[m])
        BY <2>2 DEF MapInv
      <3>2. CASE m = n
        BY <1>8, <1>9, <1>10, <3>1, <3>2
      <3>3. CASE m # n
        BY <1>9, <3>1, <3>3
      <3> QED BY <3>2, <3>3
    <2> QED BY <1>12, <2>1, <2>2
  <1>17. salt' \in Numbers \cup {NULL} /\ salt' # NULL /\ DOMAIN buckets' \subseteq Numbers
    BY <1>4, <1>9 DEF MapInv
  <1> QED BY <1>11, <1>14, <1>15, <1>17 DEF MapInv, Tidy, In, UnusedNull

LEMMA Insert_NoMemoryKeeps ==
  ASSUME MapInv, salt # NULL, NEW k \in Keys, Insert_NoMemory(k)
  PROVE  MapInv'
  <1> DEFINE n == BucketOf(k)
  <1>1. /\ salt' = salt /\ key' = key /\ n \in Numbers
        /\ Tidy(NewBucket) /\ In(NewBucket) = {}
    BY BucketNumber, NewBucketIsTidy DEF Insert_NoMemory
  <1>2. buckets' = buckets \/ buckets' = With(n, Found(n))
    BY DEF Insert_NoMemory
  <1>3. /\ DOMAIN buckets \subseteq DOMAIN buckets' /\ DOMAIN buckets' \subseteq DOMAIN buckets \cup {n}
        /\ \A m \in DOMAIN buckets : buckets'[m] = buckets[m]
        /\ \A m \in DOMAIN buckets' : m \notin DOMAIN buckets => buckets'[m] = NewBucket
    BY <1>2 DEF With, Found
  <1>4. Allocated' = Allocated /\ \A x : BucketOf(x)' = BucketOf(x)
    BY <1>1 DEF Allocated, BucketOf
  <1> HIDE DEF n
  <1>5. ASSUME NEW m \in DOMAIN buckets'
        PROVE  /\ Tidy(buckets'[m])
               /\ \A x \in In(buckets'[m]) : key'[x] \in Keys /\ (BucketOf(key[x]))' = m
    <2>1. CASE m \in DOMAIN buckets
      BY <1>1, <1>3, <2>1 DEF MapInv, BucketOf
    <2>2. CASE m \notin DOMAIN buckets
      BY <1>1, <1>3, <2>2
    <2> QED BY <2>1, <2>2
  <1>6. ASSUME NEW x \in Allocated'
        PROVE  \E m \in DOMAIN buckets' : x \in In(buckets'[m])
    BY <1>3, <1>4 DEF MapInv
  <1>7. salt' \in Numbers \cup {NULL} /\ salt' # NULL /\ DOMAIN buckets' \subseteq Numbers
    BY <1>1, <1>3 DEF MapInv
  <1> QED BY <1>1, <1>4, <1>5, <1>6, <1>7 DEF MapInv, Tidy, In, UnusedNull

LEMMA FreedFacts ==
  ASSUME NEW N \in SUBSET Nodes, MapInv, Freed(N)
  PROVE  /\ key' \in [Nodes -> Keys \cup {NULL}]
         /\ \A x \in Nodes : x \notin N => key'[x] = key[x]
         /\ Allocated' = Allocated \ N
  <1>1. /\ key' \in [Nodes -> Keys \cup {NULL}]
        /\ \A x \in Nodes : key'[x] = IF x \in N THEN NULL ELSE key[x]
    BY DEF Freed, MapInv
  <1>2. Allocated' = Allocated \ N
    BY <1>1 DEF Allocated
  <1> QED BY <1>1, <1>2 DEF Freed, MapInv

(* A deletion frees one node, or its bucket with all the nodes that are in it, *)
(* or the process ends.                                                       *)
LEMMA DeleteFacts ==
  ASSUME MapInv, NEW k \in Keys, Hashmap_delete(k)
  PROVE  LET n == BucketOf(k)
             b == buckets[n]
             i == Hashmap_get_node(b, k)
             last == b.contents[b.end - 1]
         IN  /\ salt # NULL /\ n \in Numbers /\ n \in DOMAIN buckets /\ Tidy(b) /\ i \in Slots(b.end)
             /\ b.contents[i] \in In(b) /\ b.contents[i] \in Nodes /\ key[b.contents[i]] = k
             /\ \/ /\ b.contents[i] # last /\ Freed({b.contents[i]})
                   /\ \E c \in DArray_pop(b) : buckets' = With(n, DArray_set(c, i, last))
                   /\ Forgotten(k) /\ salt' = salt
                \/ /\ b.contents[i] = last /\ Freed(In(b)) /\ buckets' = Without(n)
                   /\ Forgotten(k) /\ salt' = salt
                \/ Dies
  <1> DEFINE n == BucketOf(k)
             b == buckets[n]
             i == Hashmap_get_node(b, k)
             node == Hashmap_get(k)
             ending == DArray_get(b, b.end - 1)
  <1>1. salt # NULL /\ Hashmap_get(k) # NULL /\ n \in Numbers
    BY BucketNumber DEF Hashmap_delete
  <1>2. /\ n \in DOMAIN buckets /\ Tidy(b) /\ i \in Slots(b.end) /\ node = b.contents[i]
        /\ b.contents[i] \in In(b) /\ b.contents[i] \in Nodes /\ key[b.contents[i]] = k
    BY <1>1, GetFacts DEF Allocated
  <1>3. b.end # 0 /\ ending = b.contents[b.end - 1]
    BY <1>2 DEF Slots, DArray_get
  <1>4. PICK c \in DArray_pop(b) :
          \/ /\ ending # node
             /\ buckets' = With(n, DArray_set(c, i, ending))
             /\ Freed({node}) /\ Forgotten(k) /\ UNCHANGED salt
          \/ /\ ending = node
             /\ buckets' = Without(n)
             /\ Freed({node} \cup Cleared(c)) /\ Forgotten(k) /\ UNCHANGED salt
          \/ ending = node /\ IsTorn(c) /\ Dies
    BY DEF Hashmap_delete
  <1>5. {b.contents[b.end - 1]} \cup Cleared(c) = In(b)
    <2> HIDE DEF b
    <2> QED BY <1>2, <1>3, ClearedFacts
  <1> HIDE DEF n, b, i, node, ending
  <1>6. /\ salt # NULL /\ n \in Numbers /\ n \in DOMAIN buckets /\ Tidy(b) /\ i \in Slots(b.end)
        /\ b.contents[i] \in In(b) /\ b.contents[i] \in Nodes /\ key[b.contents[i]] = k
        /\ \/ /\ b.contents[i] # b.contents[b.end - 1] /\ Freed({b.contents[i]})
              /\ \E d \in DArray_pop(b) : buckets' = With(n, DArray_set(d, i, b.contents[b.end - 1]))
              /\ Forgotten(k) /\ salt' = salt
           \/ /\ b.contents[i] = b.contents[b.end - 1] /\ Freed(In(b)) /\ buckets' = Without(n)
              /\ Forgotten(k) /\ salt' = salt
           \/ Dies
    BY <1>1, <1>2, <1>3, <1>4, <1>5
  <1> QED BY <1>6 DEF n, b, i

LEMMA DiesKeeps ==
  ASSUME MapInv, Dies
  PROVE  MapInv'
  BY DEF Dies, MapInv, NoBuckets, Allocated

(* Either way the map stays in order. *)
LEMMA DeleteKeeps ==
  ASSUME MapInv, NEW k \in Keys, Hashmap_delete(k)
  PROVE  MapInv'
  <1> DEFINE n == BucketOf(k)
             b == buckets[n]
             i == Hashmap_get_node(b, k)
  <1>0. CASE Dies
    BY <1>0, DiesKeeps
  <1> SUFFICES ASSUME ~Dies PROVE MapInv'
    BY <1>0
  <1>1. salt # NULL /\ salt' = salt /\ n \in Numbers
    BY DeleteFacts
  <1>2. /\ n \in DOMAIN buckets /\ Tidy(b) /\ i \in Slots(b.end)
        /\ b.contents[i] \in In(b) /\ b.contents[i] \in Nodes
    BY DeleteFacts
  <1>3. DOMAIN buckets \subseteq Numbers /\ In(b) \subseteq Nodes
    BY <1>2, TidyFacts DEF MapInv
  <1>4. \A x : BucketOf(x)' = BucketOf(x)
    BY <1>1 DEF BucketOf
  <1>5. /\ \A m \in DOMAIN buckets : /\ Tidy(buckets[m]) /\ In(buckets[m]) \subseteq Nodes
                                     /\ \A x \in In(buckets[m]) : key[x] \in Keys /\ BucketOf(key[x]) = m
        /\ \A x \in Allocated : \E m \in DOMAIN buckets : x \in In(buckets[m])
    BY TidyFacts DEF MapInv
  <1>6. CASE b.contents[i] = b.contents[b.end - 1]
    <2>1. buckets' = Without(n) /\ Freed(In(b))
      BY <1>6, DeleteFacts
    <2>2. /\ DOMAIN buckets' = DOMAIN buckets \ {n}
          /\ \A m \in DOMAIN buckets' : buckets'[m] = buckets[m]
      BY <2>1 DEF Without
    <2>3. /\ key' \in [Nodes -> Keys \cup {NULL}]
          /\ \A x \in Nodes : x \notin In(b) => key'[x] = key[x]
          /\ Allocated' = Allocated \ In(b)
      BY <1>3, <2>1, FreedFacts
    <2> HIDE DEF n, b, i
    <2>4. ASSUME NEW m \in DOMAIN buckets'
          PROVE  /\ Tidy(buckets'[m])
                 /\ \A x \in In(buckets'[m]) : key'[x] \in Keys /\ (BucketOf(key[x]))' = m
      <3>1. m \in DOMAIN buckets /\ m # n /\ buckets'[m] = buckets[m]
        BY <2>2
      <3>2. \A x \in In(buckets[m]) : x \in Nodes /\ key[x] \in Keys /\ BucketOf(key[x]) = m
        BY <1>5, <3>1
      <3>3. \A x \in In(b) : BucketOf(key[x]) = n
        BY <1>2, <1>5 DEF b
      <3>4. \A x \in In(buckets[m]) : key'[x] = key[x]
        BY <2>3, <3>1, <3>2, <3>3
      <3> QED BY <1>1, <1>5, <3>1, <3>2, <3>4 DEF BucketOf
    <2>5. ASSUME NEW x \in Allocated'
          PROVE  \E m \in DOMAIN buckets' : x \in In(buckets'[m])
      BY <1>5, <2>2, <2>3 DEF b
    <2>6. salt' \in Numbers \cup {NULL} /\ salt' # NULL /\ DOMAIN buckets' \subseteq Numbers
      BY <1>1, <1>3, <2>2 DEF MapInv
    <2> QED BY <2>3, <2>4, <2>5, <2>6 DEF MapInv, Tidy, In, UnusedNull
  <1>7. CASE b.contents[i] # b.contents[b.end - 1]
    <2>1. Freed({b.contents[i]}) /\ b.contents[i] # b.contents[b.end - 1]
      BY <1>7, DeleteFacts
    <2>2. PICK c \in DArray_pop(b) : buckets' = With(n, DArray_set(c, i, b.contents[b.end - 1]))
      BY <1>7, DeleteFacts
    <2> DEFINE d == DArray_set(c, i, b.contents[b.end - 1])
    <2>3. Tidy(d) /\ In(d) = In(b) \ {b.contents[i]}
      <3>1. d = DArray_set(c, i, b.contents[b.end - 1])
        OBVIOUS
      <3> HIDE DEF d, b, i
      <3> QED BY <1>2, <2>1, <3>1, SwapDelete
    <2>4. /\ DOMAIN buckets' = DOMAIN buckets /\ buckets'[n] = d
          /\ \A m \in DOMAIN buckets : m # n => buckets'[m] = buckets[m]
      BY <1>2, <2>2 DEF With
    <2>5. /\ key' \in [Nodes -> Keys \cup {NULL}]
          /\ \A x \in Nodes : x # b.contents[i] => key'[x] = key[x]
          /\ Allocated' = Allocated \ {b.contents[i]}
      BY <1>2, <2>1, FreedFacts
    <2> DEFINE gone == b.contents[i]
    <2> HIDE DEF n, i, d
    <2>6. gone \in In(b) /\ buckets[n] = b
      BY <1>2
    <2> HIDE DEF b, gone
    <2>7. ASSUME NEW m \in DOMAIN buckets'
          PROVE  /\ Tidy(buckets'[m])
                 /\ \A x \in In(buckets'[m]) : key'[x] \in Keys /\ (BucketOf(key[x]))' = m
      <3>1. m \in DOMAIN buckets /\ \A x \in In(buckets[m]) : x \in Nodes /\ key[x] \in Keys /\ BucketOf(key[x]) = m
        BY <1>5, <2>4
      <3>2. Tidy(buckets'[m]) /\ \A x \in In(buckets'[m]) : x \in In(buckets[m]) /\ x # gone
        <4>1. CASE m = n
          BY <2>3, <2>4, <2>6, <4>1 DEF gone
        <4>2. CASE m # n
          BY <1>2, <1>5, <2>4, <2>6, <3>1, <4>2
        <4> QED BY <4>1, <4>2
      <3>3. \A x \in In(buckets'[m]) : key'[x] = key[x]
        BY <2>5, <3>1, <3>2 DEF gone
      <3> QED BY <1>1, <3>1, <3>2, <3>3 DEF BucketOf
    <2>8. ASSUME NEW x \in Allocated'
          PROVE  \E m \in DOMAIN buckets' : x \in In(buckets'[m])
      <3>1. x \in Allocated /\ x # gone
        BY <2>5 DEF gone
      <3>2. PICK m \in DOMAIN buckets : x \in In(buckets[m])
        BY <1>5, <3>1
      <3>3. CASE m = n
        BY <2>3, <2>4, <2>6, <3>1, <3>2, <3>3 DEF gone
      <3>4. CASE m # n
        BY <2>4, <3>2, <3>4
      <3> QED BY <3>3, <3>4
    <2>9. salt' \in Numbers \cup {NULL} /\ salt' # NULL /\ DOMAIN buckets' \subseteq Numbers
      BY <1>1, <1>3, <2>4 DEF MapInv
    <2> QED BY <2>5, <2>7, <2>8, <2>9 DEF MapInv, Tidy, In, UnusedNull
  <1> QED BY <1>6, <1>7

----------------------------------------------------------------------------
(* Hashmap_traverse *)

(* Two sequences without a common element, one behind the other. *)
OneToOne(s) == \A i, j \in DOMAIN s : s[i] = s[j] => i = j
Those(s) == {s[j] : j \in DOMAIN s}

LEMMA ConcatFacts ==
  ASSUME NEW V, NEW s \in Seq(V), NEW t \in Seq(V), OneToOne(s), OneToOne(t),
         Those(s) \cap Those(t) = {}
  PROVE  s \o t \in Seq(V) /\ Those(s \o t) = Those(s) \cup Those(t) /\ OneToOne(s \o t)
  <1> DEFINE u == s \o t
             m == Len(s)
             n == Len(t)
  <1>1. /\ m \in Nat /\ n \in Nat /\ DOMAIN s = 1 .. m /\ DOMAIN t = 1 .. n
        /\ u \in Seq(V) /\ DOMAIN u = 1 .. m + n
    OBVIOUS
  <1>2. /\ \A j \in 1 .. m : u[j] = s[j]
        /\ \A j \in 1 .. m + n : j > m => u[j] = t[j - m]
    OBVIOUS
  <1> HIDE DEF u, m, n
  <1>3. \A j \in DOMAIN u : \/ j \in DOMAIN s /\ u[j] = s[j]
                            \/ j - m \in DOMAIN t /\ u[j] = t[j - m]
    BY <1>1, <1>2
  <1>4. ASSUME NEW j \in DOMAIN t PROVE m + j \in DOMAIN u /\ u[m + j] = t[j]
    <2>1. m + j \in 1 .. m + n /\ m + j > m /\ (m + j) - m = j
      BY <1>1
    <2> QED BY <1>1, <1>2, <2>1
  <1>5. Those(u) = Those(s) \cup Those(t)
    <2>1. \A j \in DOMAIN s : j \in DOMAIN u /\ u[j] = s[j]
      BY <1>1, <1>2
    <2> QED BY <1>3, <1>4, <2>1 DEF Those
  <1>6. OneToOne(u)
    <2> SUFFICES ASSUME NEW i \in DOMAIN u, NEW j \in DOMAIN u, u[i] = u[j]
                 PROVE  i = j
      BY DEF OneToOne
    <2>1. CASE i \in DOMAIN s /\ u[i] = s[i] /\ j \in DOMAIN s /\ u[j] = s[j]
      BY <2>1 DEF OneToOne
    <2>2. CASE /\ i - m \in DOMAIN t /\ u[i] = t[i - m]
               /\ j - m \in DOMAIN t /\ u[j] = t[j - m]
      <3>1. i - m = j - m
        BY <2>2 DEF OneToOne
      <3> QED BY <1>1, <3>1
    <2>3. \A x \in DOMAIN s, y \in DOMAIN t : s[x] # t[y]
      BY DEF Those
    <2> QED BY <1>3, <2>1, <2>2, <2>3
  <1> QED BY <1>1, <1>5, <1>6 DEF u

\* The nodes of the first n buckets.
InFirst(n) == {x \in Nodes : \E m \in DOMAIN buckets : m < n /\ x \in In(buckets[m])}

Visits(s, n) ==
  /\ s \in Seq(Nodes)
  /\ Those(s) = InFirst(n)
  /\ OneToOne(s)

LEMMA NodesInFacts ==
  ASSUME MapInv, NEW n \in Nat
  PROVE  /\ NodesIn(n) \in Seq(Nodes)
         /\ Those(NodesIn(n)) = {x \in Nodes : n \in DOMAIN buckets /\ x \in In(buckets[n])}
         /\ OneToOne(NodesIn(n))
  <1>1. CASE n \notin DOMAIN buckets
    BY <1>1 DEF NodesIn, Those, OneToOne
  <1>2. CASE n \in DOMAIN buckets
    <2> DEFINE b == buckets[n]
               s == NodesIn(n)
    <2>1. s = [j \in 1 .. b.end |-> b.contents[j - 1]]
      BY <1>2 DEF NodesIn, DArray_get
    <2>2. /\ Tidy(b) /\ b.end \in Nat /\ In(b) \subseteq Nodes
          /\ \A j \in Slots(b.end) : b.contents[j] \in Nodes
          /\ \A i, j \in Slots(b.end) : b.contents[i] = b.contents[j] => i = j
      BY <1>2, TidyFacts DEF MapInv, Tidy
    <2> HIDE DEF b, s
    <2>3. \A j \in 1 .. b.end : j - 1 \in Slots(b.end)
      BY <2>2 DEF Slots
    <2>4. \A j \in Slots(b.end) : j + 1 \in 1 .. b.end /\ (j + 1) - 1 = j
      BY <2>2 DEF Slots
    <2>5. s \in Seq(Nodes) /\ DOMAIN s = 1 .. b.end /\ \A j \in 1 .. b.end : s[j] = b.contents[j - 1]
      BY <2>1, <2>2, <2>3
    <2>6. Those(s) = In(b)
      <3>1. \A x \in Those(s) : x \in In(b)
        BY <2>3, <2>5 DEF In, Those
      <3>2. \A x \in In(b) : x \in Those(s)
        BY <2>4, <2>5 DEF In, Those
      <3> QED BY <3>1, <3>2
    <2>7. OneToOne(s)
      <3>1. \A i, j \in 1 .. b.end : i - 1 = j - 1 => i = j
        OBVIOUS
      <3> QED BY <2>2, <2>3, <2>5, <3>1 DEF OneToOne
    <2> QED BY <1>2, <2>2, <2>5, <2>6, <2>7 DEF b, s
  <1> QED BY <1>1, <1>2

LEMMA TraverseFacts ==
  ASSUME MapInv
  PROVE  Visits(Hashmap_traverse, DEFAULT_NUMBER_OF_BUCKETS)
  <1> DEFINE V == Seq(Nodes)
             step == [n \in Nat |-> [s \in V |-> IF n = 0 THEN <<>> ELSE s \o NodesIn(n - 1)]]
             IsT(T) == T = [n \in Nat |-> IF n = 0 THEN <<>> ELSE T[n - 1] \o NodesIn(n - 1)]
             T == CHOOSE f : IsT(f)
  <1>1. \A n \in Nat : n # 0 => n - 1 \in Nat /\ NodesIn(n - 1) \in V
    BY NodesInFacts
  <1>2. <<>> \in V /\ step \in [Nat -> [V -> V]]
    BY <1>1
  <1>3. PICK f \in [Nat -> V] : Iterates(f, <<>>, step)
    <2> HIDE DEF V, step
    <2> QED BY <1>2, RecursionExists
  <1>4. IsT(f)
    <2>1. \A n \in Nat : n # 0 => step[n][f[n - 1]] = f[n - 1] \o NodesIn(n - 1)
      BY <1>1
    <2>2. f = [n \in Nat |-> IF n = 0 THEN <<>> ELSE step[n][f[n - 1]]]
      BY <1>3 DEF Iterates
    <2> HIDE DEF step
    <2> QED BY <2>1, <2>2
  <1>5. IsT(T)
    <2> HIDE DEF IsT
    <2> QED BY <1>4 DEF T
  <1>6. Hashmap_traverse = T[DEFAULT_NUMBER_OF_BUCKETS]
    BY DEF Hashmap_traverse
  <1> HIDE DEF T
  <1>7. T[0] = <<>> /\ \A n \in Nat : T[n + 1] = T[n] \o NodesIn(n)
    <2>1. \A n \in Nat : n + 1 \in Nat /\ n + 1 # 0 /\ (n + 1) - 1 = n
      OBVIOUS
    <2> QED BY <1>5, <2>1
  <1> HIDE DEF IsT
  <1> DEFINE S == {n \in Nat : Visits(T[n], n)}
  <1>8. 0 \in S
    <2>1. \A m \in Nat : ~(m < 0)
      OBVIOUS
    <2>2. \A m \in DOMAIN buckets : m \in Nat
      BY NumbersAreNat DEF MapInv
    <2>3. InFirst(0) = {}
      BY <2>1, <2>2 DEF InFirst
    <2>4. Visits(<<>>, 0)
      BY <2>3 DEF Visits, Those, OneToOne
    <2> QED BY <1>7, <2>4
  <1>9. ASSUME NEW n \in Nat, n \in S
        PROVE  n + 1 \in S
    <2>1. T[n] \in Seq(Nodes) /\ Those(T[n]) = InFirst(n) /\ OneToOne(T[n])
      BY <1>9 DEF Visits
    <2>2. \A m \in DOMAIN buckets : ~(m < n /\ m = n) /\ (m < n + 1 <=> m < n \/ m = n)
      <3>1. \A m \in Nat : ~(m < n /\ m = n) /\ (m < n + 1 <=> m < n \/ m = n)
        OBVIOUS
      <3>2. \A m \in DOMAIN buckets : m \in Nat
        BY NumbersAreNat DEF MapInv
      <3> QED BY <3>1, <3>2
    <2>3. InFirst(n + 1) = InFirst(n) \cup Those(NodesIn(n))
      BY <2>2, NodesInFacts DEF InFirst
    <2>4. InFirst(n) \cap Those(NodesIn(n)) = {}
      <3>1. \A m \in DOMAIN buckets : \A x \in In(buckets[m]) : BucketOf(key[x]) = m
        BY DEF MapInv
      <3> QED BY <2>2, <3>1, NodesInFacts DEF InFirst
    <2>5. T[n + 1] = T[n] \o NodesIn(n)
      BY <1>7
    <2>6. NodesIn(n) \in Seq(Nodes) /\ OneToOne(NodesIn(n))
      BY NodesInFacts
    <2>7. Visits(T[n + 1], n + 1)
      <3> DEFINE s == T[n]
                 t == NodesIn(n)
      <3>1. s \in Seq(Nodes) /\ t \in Seq(Nodes) /\ OneToOne(s) /\ OneToOne(t) /\ Those(s) \cap Those(t) = {}
        BY <2>1, <2>4, <2>6
      <3>2. Those(s) \cup Those(t) = InFirst(n + 1) /\ T[n + 1] = s \o t
        BY <2>1, <2>3, <2>5
      <3> HIDE DEF s, t
      <3>3. s \o t \in Seq(Nodes) /\ Those(s \o t) = Those(s) \cup Those(t) /\ OneToOne(s \o t)
        BY <3>1, ConcatFacts
      <3> QED BY <3>2, <3>3 DEF Visits
    <2> QED BY <2>7
  <1>10. Nat \subseteq S
    <2> HIDE DEF S
    <2> QED BY <1>8, <1>9, Induction
  <1> QED BY <1>6, <1>10, BucketsAssumption

LEMMA TraverseVisitsAll ==
  ASSUME MapInv
  PROVE  /\ Hashmap_traverse \in Seq(Nodes)
         /\ Those(Hashmap_traverse) = Allocated /\ OneToOne(Hashmap_traverse)
  <1>1. InFirst(DEFAULT_NUMBER_OF_BUCKETS) = Allocated
    <2>1. \A m \in DOMAIN buckets : m < DEFAULT_NUMBER_OF_BUCKETS
      BY BucketsAssumption DEF MapInv, Numbers, Slots
    <2>2. \A m \in DOMAIN buckets : \A x \in In(buckets[m]) : x \in Nodes /\ key[x] # NULL
      BY TidyFacts, NodesAssumption DEF MapInv
    <2> QED BY <2>1, <2>2 DEF InFirst, Allocated, MapInv
  <1> QED BY <1>1, TraverseFacts DEF Visits

LEMMA DestroyKeeps ==
  ASSUME MapInv, Hashmap_destroy
  PROVE  MapInv'
  <1>1. Freed(Allocated) /\ buckets' = NoBuckets /\ salt' = NULL
    BY TraverseVisitsAll DEF Hashmap_destroy, Those
  <1>2. /\ key' \in [Nodes -> Keys \cup {NULL}] /\ Allocated' = {}
    <2>1. Allocated \in SUBSET Nodes
      BY DEF Allocated
    <2> QED BY <1>1, <2>1, FreedFacts
  <1>3. DOMAIN buckets' = {}
    BY <1>1 DEF NoBuckets
  <1> QED BY <1>1, <1>2, <1>3 DEF MapInv

LEMMA CreateMapKeeps ==
  ASSUME MapInv, Hashmap_create
  PROVE  MapInv'
  <1>1. buckets = NoBuckets /\ DOMAIN buckets = {} /\ Allocated = {}
    BY DEF Hashmap_create, MapInv, NoBuckets
  <1>2. salt' \in Numbers /\ buckets' = buckets /\ key' = key
    BY DEF Hashmap_create
  <1>3. Allocated' = Allocated
    BY <1>2 DEF Allocated
  <1> QED BY <1>1, <1>2, <1>3 DEF MapInv

LEMMA MapStep == MapInv /\ [MapNext]_mvars => MapInv'
  <1> SUFFICES ASSUME MapInv, [MapNext]_mvars PROVE MapInv'
    OBVIOUS
  <1>1. CASE Hashmap_create
    BY <1>1, CreateMapKeeps
  <1>2. CASE Hashmap_destroy
    BY <1>2, DestroyKeeps
  <1>3. ASSUME NEW k \in Keys, Hashmap_set(k) PROVE MapInv'
    BY <1>3, InsertKeeps, Insert_NoMemoryKeeps DEF Hashmap_set
  <1>4. CASE UNCHANGED mvars
    BY <1>4 DEF mvars, MapInv, Allocated, Tidy, In, UnusedNull, BucketOf
  <1>5. ASSUME NEW k \in Keys, Hashmap_set_fucked(k) PROVE MapInv'
    BY <1>4, <1>5, InsertKeeps, Insert_NoMemoryKeeps DEF Hashmap_set_fucked
  <1>6. ASSUME NEW k \in Keys, Hashmap_delete(k) PROVE MapInv'
    BY <1>6, DeleteKeeps
  <1> QED BY <1>1, <1>2, <1>3, <1>4, <1>5, <1>6 DEF MapNext

THEOREM MapInvariant == Spec => []MapInv
  <1>1. Init => MapInv
    BY NodesAssumption DEF Init, MapInit, MapInv, NoBuckets, Allocated
  <1>2. MapInv /\ [Next]_vars => MapInv'
    <2>1. [Next]_vars => [MapNext]_mvars
      BY DEF Next, vars, mvars
    <2> QED BY <2>1, MapStep
  <1> QED BY <1>1, <1>2, PTL DEF Spec

(* Every node that is allocated is in one place of one bucket, and nothing else *)
(* is, whatever the hashes are, in whatever order the buckets are left by a sort *)
(* that compares nothing, and whether or not there is memory.                    *)
THEOREM NodesAreAlwaysOwned == Spec => []NodesAreOwned
  <1>1. MapInv => NodesAreOwned
    BY TraverseVisitsAll DEF NodesAreOwned, Those, OneToOne, Allocated
  <1> QED BY <1>1, MapInvariant, PTL

----------------------------------------------------------------------------
(* What the caller has put in and not deleted. *)

Holders(k) == {n \in Nodes : key[n] = k}

(* As many places of the traversal have a key as there are nodes with it. *)
LEMMA KeysAreCounted ==
  ASSUME MapInv, NEW k \in Keys
  PROVE  IsFiniteSet(Holders(k)) /\ Times(k) = Cardinality(Holders(k))
  <1> DEFINE t == Hashmap_traverse
             P == {j \in DOMAIN Hashmap_keys : Hashmap_keys[j] = k}
             N == Holders(k)
             f == [j \in P |-> t[j]]
  <1>1. /\ t \in Seq(Nodes) /\ Those(t) = Allocated /\ OneToOne(t)
        /\ DOMAIN Hashmap_keys = DOMAIN t /\ \A j \in DOMAIN t : Hashmap_keys[j] = key[t[j]]
    BY TraverseVisitsAll DEF Hashmap_keys
  <1> HIDE DEF t
  <1>2. IsFiniteSet(P)
    <2>1. P \in SUBSET (1 .. Len(t)) /\ Len(t) \in Nat
      BY <1>1
    <2>2. IsFiniteSet(1 .. Len(t))
      BY <2>1, FS_Interval
    <2> HIDE DEF P
    <2> QED BY <2>1, <2>2, FS_Subset
  <1>3. f \in [P -> N] /\ \A i, j \in P : f[i] = f[j] => i = j
    BY <1>1 DEF Those, OneToOne, Holders
  <1>4. \A n \in N : \E j \in P : f[j] = n
    <2>1. \A n \in N : n \in Allocated /\ key[n] = k
      BY NodesAssumption DEF Holders, Allocated
    <2> QED BY <1>1, <2>1 DEF Those
  <1> HIDE DEF f, P, N
  <1>5. f \in Bijection(P, N)
    BY <1>3, <1>4, Fun_IsBij
  <1>6. ExistsBijection(P, N)
    BY <1>5, Fun_ExistsBij
  <1>7. IsFiniteSet(N) /\ Cardinality(N) = Cardinality(P)
    BY <1>2, <1>6, FS_Bijection
  <1> QED BY <1>7 DEF P, N, Times

(* No node is kept that was not put in; without company in the bucket none is *)
(* lost, either.                                                             *)
CountInv ==
  /\ entries \in [Keys -> Int]
  /\ salt = NULL => entries = NoEntries
  /\ salt # NULL =>
       \A k \in Keys : /\ Cardinality(Holders(k)) <= entries[k]
                       /\ Alone(k) => Cardinality(Holders(k)) = entries[k]

(* The node in which Hashmap_get finds a key that has a bucket of its own is the *)
(* first of the bucket.                                                         *)
LEMMA AloneIsFirst ==
  ASSUME MapInv, salt # NULL, NEW k \in Keys, Alone(k), NEW n, n = BucketOf(k), n \in DOMAIN buckets,
         NEW b, b = buckets[n], Hashmap_get_node(b, k) \in Slots(b.end)
  PROVE  Hashmap_get_node(b, k) = 0
  <1> DEFINE hits == {j \in Slots(b.end) :
                        Hash[key[DArray_get(b, j)]] = Hash[k] /\ key[DArray_get(b, j)] = k}
  <1>1. Tidy(b) /\ \A x \in In(b) : key[x] \in Keys /\ BucketOf(key[x]) = n
    BY DEF MapInv
  <1>2. b.end \in Nat /\ 0 \in Slots(b.end)
    BY <1>1, TidyFacts DEF Slots
  <1>3. 0 \in hits
    BY <1>1, <1>2 DEF Alone, In, DArray_get
  <1>4. hits \in SUBSET Nat
    BY <1>1, TidyFacts
  <1>5. Hashmap_get_node(b, k) = CHOOSE j \in hits : \A i \in hits : j <= i
    BY <1>3 DEF Hashmap_get_node
  <1> HIDE DEF hits
  <1>6. Hashmap_get_node(b, k) \in hits /\ \A i \in hits : Hashmap_get_node(b, k) <= i
    BY <1>3, <1>4, <1>5, Least
  <1>7. Hashmap_get_node(b, k) \in Nat /\ Hashmap_get_node(b, k) <= 0
    BY <1>3, <1>4, <1>6
  <1> QED BY <1>7

LEMMA InsertCounts ==
  ASSUME MapInv, CountInv, salt # NULL, NEW k \in Keys, Insert(k)
  PROVE  CountInv'
  <1>1. PICK node \in Calloc : /\ key' = [key EXCEPT ![node] = k]
                               /\ entries' = [entries EXCEPT ![k] = @ + 1]
    BY DEF Insert
  <1>2. salt' = salt /\ \A j : Alone(j)' = Alone(j)
    BY DEF Insert, Alone, BucketOf
  <1>3. node \in Nodes /\ key[node] = NULL /\ NULL \notin Keys
    BY NodesAssumption DEF Calloc
  <1>4. \A x \in Nodes : key'[x] = IF x = node THEN k ELSE key[x]
    BY <1>1, <1>3 DEF MapInv
  <1>5. /\ entries' \in [Keys -> Int] /\ entries'[k] = entries[k] + 1
        /\ \A j \in Keys : j # k => entries'[j] = entries[j]
    BY <1>1 DEF CountInv
  <1>6. Holders(k)' = Holders(k) \cup {node} /\ node \notin Holders(k)
    BY <1>3, <1>4 DEF Holders
  <1>7. \A j \in Keys : j # k => Holders(j)' = Holders(j)
    BY <1>3, <1>4 DEF Holders
  <1>8. Cardinality(Holders(k)') = Cardinality(Holders(k)) + 1 /\ Cardinality(Holders(k)) \in Nat
    BY <1>6, KeysAreCounted, FS_AddElement, FS_CardinalityType
  <1>9. ASSUME NEW j \in Keys
        PROVE  /\ Cardinality(Holders(j)') <= entries'[j]
               /\ Alone(j)' => Cardinality(Holders(j)') = entries'[j]
    <2>1. entries[j] \in Int /\ Cardinality(Holders(j)) <= entries[j]
          /\ (Alone(j) => Cardinality(Holders(j)) = entries[j])
      BY DEF CountInv
    <2>2. CASE j = k
      BY <1>2, <1>5, <1>8, <2>1, <2>2
    <2>3. CASE j # k
      BY <1>2, <1>5, <1>7, <2>1, <2>3
    <2> QED BY <2>2, <2>3
  <1> QED BY <1>2, <1>5, <1>9 DEF CountInv

(* Without a map nothing is held. *)
LEMMA NothingCounts ==
  ASSUME entries' = NoEntries, \A k \in Keys : Holders(k)' = {}
  PROVE  CountInv'
  <1>1. \A k \in Keys : Cardinality(Holders(k)') = 0
    BY FS_EmptySet
  <1>2. entries' \in [Keys -> Int] /\ \A k \in Keys : entries'[k] = 0
    BY DEF NoEntries
  <1> QED BY <1>1, <1>2 DEF CountInv

LEMMA DeleteCounts ==
  ASSUME MapInv, CountInv, NEW k \in Keys, Hashmap_delete(k)
  PROVE  CountInv'
  <1> DEFINE n == BucketOf(k)
             b == buckets[n]
             i == Hashmap_get_node(b, k)
             node == b.contents[i]
  <1>1. CASE Dies
    <2>1. entries' = NoEntries /\ \A x \in Nodes : key'[x] = NULL
      BY <1>1 DEF Dies
    <2>2. \A j \in Keys : Holders(j)' = {}
      BY <2>1, NodesAssumption DEF Holders
    <2> QED BY <2>1, <2>2, NothingCounts
  <1> SUFFICES ASSUME ~Dies PROVE CountInv'
    BY <1>1
  <1>2. /\ salt # NULL /\ salt' = salt /\ n \in DOMAIN buckets /\ Tidy(b) /\ i \in Slots(b.end)
        /\ node \in In(b) /\ node \in Nodes /\ key[node] = k
        /\ entries' = [entries EXCEPT ![k] = @ - 1]
    BY DeleteFacts DEF Forgotten
  <1>3. \/ Freed({node})
        \/ Freed(In(b)) /\ node = b.contents[b.end - 1]
    BY DeleteFacts
  <1>4. PICK N \in SUBSET Nodes : Freed(N) /\ node \in N /\ (N = {node} \/ (N = In(b) /\ node = b.contents[b.end - 1]))
    BY <1>2, <1>3, TidyFacts
  <1>5. \A x \in Nodes : key'[x] = IF x \in N THEN NULL ELSE key[x]
    BY <1>4 DEF Freed
  <1>6. \A j : Alone(j)' = Alone(j)
    BY <1>2 DEF Alone, BucketOf
  <1>7. /\ entries' \in [Keys -> Int] /\ entries'[k] = entries[k] - 1
        /\ \A j \in Keys : j # k => entries'[j] = entries[j]
    BY <1>2 DEF CountInv
  <1>8. \A x \in In(b) : x \in Nodes /\ key[x] \in Keys /\ BucketOf(key[x]) = n
    BY <1>2, TidyFacts DEF MapInv
  <1>9. \A j \in Keys : Holders(j)' = Holders(j) \ N
    BY <1>5, NodesAssumption DEF Holders
  <1>10. ASSUME Alone(k) PROVE Holders(k)' = Holders(k) \ {node}
    <2>1. CASE N = {node}
      BY <1>9, <2>1
    <2>2. CASE N = In(b) /\ node = b.contents[b.end - 1]
      <3>1. i = 0
        BY <1>2, <1>10, AloneIsFirst
      <3>2. b.end \in Nat /\ b.end - 1 \in Slots(b.end)
        BY <1>2, TidyFacts DEF Slots
      <3>3. b.end - 1 = 0
        BY <1>2, <2>2, <3>1, <3>2 DEF Tidy
      <3>4. Slots(b.end) = {0}
        BY <3>2, <3>3 DEF Slots
      <3>5. In(b) = {node}
        BY <3>1, <3>4 DEF In
      <3> QED BY <1>9, <2>2, <3>5
    <2> QED BY <1>4, <2>1, <2>2
  <1>11. ASSUME NEW j \in Keys, j # k, Alone(j) PROVE Holders(j)' = Holders(j)
    <2>1. \A x \in In(b) : key[x] # j
      BY <1>8, <1>11 DEF Alone
    <2>2. \A x \in N : key[x] # j
      BY <1>2, <1>4, <1>11, <2>1
    <2> QED BY <1>9, <2>2 DEF Holders
  <1> HIDE DEF n, b, i, node
  <1>12. ASSUME NEW j \in Keys
         PROVE  /\ Cardinality(Holders(j)') <= entries'[j]
                /\ Alone(j)' => Cardinality(Holders(j)') = entries'[j]
    <2>1. entries[j] \in Int /\ Cardinality(Holders(j)) <= entries[j]
          /\ (Alone(j) => Cardinality(Holders(j)) = entries[j])
      BY <1>2 DEF CountInv
    <2>2. IsFiniteSet(Holders(j)) /\ Cardinality(Holders(j)) \in Nat
      BY KeysAreCounted, FS_CardinalityType
    <2>3. CASE j = k
      <3>1. node \in Holders(k)
        BY <1>2 DEF Holders
      <3>2. /\ IsFiniteSet(Holders(k) \ {node})
            /\ Cardinality(Holders(k) \ {node}) = Cardinality(Holders(k)) - 1
        BY <2>2, <2>3, <3>1, FS_RemoveElement
      <3>3. Holders(k)' \subseteq Holders(k) \ {node}
        BY <1>4, <1>9
      <3>4. Cardinality(Holders(k)') <= Cardinality(Holders(k) \ {node}) /\ Cardinality(Holders(k)') \in Nat
        BY <3>2, <3>3, FS_Subset, FS_CardinalityType
      <3> QED BY <1>6, <1>7, <1>10, <2>1, <2>2, <2>3, <3>2, <3>4
    <2>4. CASE j # k
      <3>1. Cardinality(Holders(j)') <= Cardinality(Holders(j)) /\ Cardinality(Holders(j)') \in Nat
        <4>1. Holders(j)' \subseteq Holders(j)
          BY <1>9
        <4> QED BY <2>2, <4>1, FS_Subset, FS_CardinalityType
      <3> QED BY <1>6, <1>7, <1>11, <2>1, <2>2, <2>4, <3>1
    <2> QED BY <2>3, <2>4
  <1> QED BY <1>2, <1>7, <1>12 DEF CountInv

LEMMA CountStep == MapInv /\ CountInv /\ [MapNext]_mvars => CountInv'
  <1> SUFFICES ASSUME MapInv, CountInv, [MapNext]_mvars PROVE CountInv'
    OBVIOUS
  <1>1. CASE Hashmap_create
    <2>1. entries' = NoEntries /\ key' = key
      BY <1>1 DEF Hashmap_create, CountInv
    <2>2. Allocated = {}
      BY <1>1 DEF Hashmap_create, MapInv, NoBuckets
    <2>3. \A k \in Keys : Holders(k)' = {}
      BY <2>1, <2>2, NodesAssumption DEF Holders, Allocated
    <2> QED BY <2>1, <2>3, NothingCounts
  <1>2. CASE Hashmap_destroy
    <2>1. entries' = NoEntries /\ Freed(Allocated)
      BY <1>2, TraverseVisitsAll DEF Hashmap_destroy, Those
    <2>2. \A k \in Keys : Holders(k)' = {}
      BY <2>1, NodesAssumption DEF Freed, Holders, Allocated
    <2> QED BY <2>1, <2>2, NothingCounts
  <1>3. ASSUME salt' = salt, key' = key, entries' = entries PROVE CountInv'
    <2>1. \A k : Holders(k)' = Holders(k) /\ Alone(k)' = Alone(k)
      BY <1>3 DEF Holders, Alone, BucketOf
    <2> QED BY <1>3, <2>1 DEF CountInv
  <1>4. ASSUME NEW k \in Keys, salt # NULL, Insert(k) \/ Insert_NoMemory(k) PROVE CountInv'
    BY <1>3, <1>4, InsertCounts DEF Insert_NoMemory
  <1>5. ASSUME NEW k \in Keys, Hashmap_set(k) PROVE CountInv'
    BY <1>4, <1>5 DEF Hashmap_set
  <1>6. ASSUME NEW k \in Keys, Hashmap_set_fucked(k) PROVE CountInv'
    BY <1>3, <1>4, <1>6 DEF Hashmap_set_fucked, mvars
  <1>7. ASSUME NEW k \in Keys, Hashmap_delete(k) PROVE CountInv'
    BY <1>7, DeleteCounts
  <1>8. CASE UNCHANGED mvars
    BY <1>3, <1>8 DEF mvars
  <1> QED BY <1>1, <1>2, <1>5, <1>6, <1>7, <1>8 DEF MapNext

THEOREM CountInvariant == Spec => []CountInv
  <1>1. Init => CountInv
    <2> SUFFICES ASSUME Init PROVE CountInv
      OBVIOUS
    <2>1. entries = NoEntries /\ salt = NULL
      BY DEF Init, MapInit
    <2> QED BY <2>1 DEF CountInv, NoEntries
  <1>2. MapInv /\ CountInv /\ [Next]_vars => CountInv'
    <2>1. [Next]_vars => [MapNext]_mvars
      BY DEF Next, vars, mvars
    <2> QED BY <2>1, CountStep
  <1> QED BY <1>1, <1>2, MapInvariant, PTL DEF Spec

(* Hashmap_get and Hashmap_keys tell of no key that was not put in more often  *)
(* than deleted, and of one with a bucket of its own they tell as often, though *)
(* keys share hashes and Hashmap_delete may take a whole bucket along.          *)
THEOREM KeysAreAlwaysThoseSet == Spec => []KeysAreThoseSet
  <1>1. MapInv /\ CountInv => KeysAreThoseSet
    <2> SUFFICES ASSUME MapInv, CountInv, salt # NULL, NEW k \in Keys
                 PROVE  /\ Times(k) <= entries[k] /\ (Alone(k) => Times(k) = entries[k])
                        /\ IF Times(k) = 0 THEN Hashmap_get(k) = NULL
                           ELSE Hashmap_get(k) # NULL /\ key[Hashmap_get(k)] = k
      BY DEF KeysAreThoseSet
    <2>1. IsFiniteSet(Holders(k)) /\ Times(k) = Cardinality(Holders(k))
      BY KeysAreCounted
    <2>2. Times(k) = 0 <=> Holders(k) = {}
      BY <2>1, FS_EmptySet
    <2>3. Holders(k) = {} <=> \A x \in Allocated : key[x] # k
      BY NodesAssumption DEF Holders, Allocated
    <2>4. IF Times(k) = 0 THEN Hashmap_get(k) = NULL
          ELSE Hashmap_get(k) # NULL /\ key[Hashmap_get(k)] = k
      <3>1. \/ Hashmap_get(k) \in Allocated /\ key[Hashmap_get(k)] = k
            \/ Hashmap_get(k) = NULL /\ \A x \in Allocated : key[x] # k
        BY GetFacts
      <3>2. \A x \in Allocated : x # NULL
        BY NodesAssumption DEF Allocated
      <3> QED BY <2>2, <2>3, <3>1, <3>2
    <2>5. Times(k) <= entries[k] /\ (Alone(k) => Times(k) = entries[k])
      BY <2>1 DEF CountInv
    <2> QED BY <2>4, <2>5
  <1> QED BY <1>1, MapInvariant, CountInvariant, PTL
=============================================================================
