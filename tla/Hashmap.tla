------------------------------ MODULE Hashmap ------------------------------
(***************************************************************************)
(* The hash map of src/hashmap.c: buckets, each a dynamic array of nodes.  *)
(* A key is a model value with the hash it has (any function does); data   *)
(* stands for the node it is kept in.  Hashmap_set and Hashmap_set_fucked  *)
(* sort the bucket with a comparison of keys that is given the addresses   *)
(* of the elements instead: what comes out is some order of them.          *)
(***************************************************************************)
EXTENDS DArray

CONSTANTS
  Keys,
  Hash,                       \* the hash of each key
  DEFAULT_NUMBER_OF_BUCKETS,
  Nodes,                      \* the nodes calloc can give, as numbers
  MaxEntries                  \* bound: how often a key is put in and not deleted

ASSUME HashAssumption == Hash \in [Keys -> Nat]
ASSUME BucketsAssumption == DEFAULT_NUMBER_OF_BUCKETS \in Nat \ {0}
ASSUME NodesAssumption == Nodes \subseteq Int /\ NULL \notin Nodes \cup Keys
ASSUME EntriesAssumption == MaxEntries \in Nat

VARIABLES
  buckets,   \* for each number that has a bucket the bucket, an array
  salt,      \* what is added to each hash; NULL without a map
  key,       \* the key of each node that is allocated, NULL for the others
  entries    \* history: how often the caller has put each key in, less how often
             \* it has deleted it, both with success

mvars == <<buckets, salt, key, entries>>

Numbers == Slots(DEFAULT_NUMBER_OF_BUCKETS)
NoBuckets == [n \in {} |-> NULL]
NoEntries == [k \in Keys |-> 0]

MapInit ==
  /\ buckets = NoBuckets /\ salt = NULL
  /\ key = [n \in Nodes |-> NULL] /\ entries = NoEntries

BucketOf(k) == (Hash[k] + salt) % DEFAULT_NUMBER_OF_BUCKETS
NewBucket == DArray_create(DEFAULT_NUMBER_OF_BUCKETS)

\* The buckets, with b as that of number n, or without one there.
With(n, b) == [m \in DOMAIN buckets \cup {n} |-> IF m = n THEN b ELSE buckets[m]]
Without(n) == [m \in DOMAIN buckets \ {n} |-> buckets[m]]

\* The bucket of number n, which is made if need be.
Found(n) == IF n \in DOMAIN buckets THEN buckets[n] ELSE NewBucket

\* The nodes of bucket n in their order, as DArray_get gives them.
NodesIn(n) ==
  IF n \in DOMAIN buckets THEN [j \in 1 .. buckets[n].end |-> DArray_get(buckets[n], j - 1)] ELSE <<>>

\* Every node there is, in the order of Hashmap_traverse: T[n] has those of the
\* first n buckets.
Hashmap_traverse ==
  LET T[n \in Nat] == IF n = 0 THEN <<>> ELSE T[n - 1] \o NodesIn(n - 1)
  IN  T[DEFAULT_NUMBER_OF_BUCKETS]

Hashmap_keys == [j \in DOMAIN Hashmap_traverse |-> key[Hashmap_traverse[j]]]

\* Mutant: the hash alone is compared.
Hashmap_get_node_HashOnly(b, k) ==
  LET hits == {j \in Slots(b.end) : Hash[key[b.contents[j]]] = Hash[k]}
  IN  IF hits = {} THEN -1 ELSE CHOOSE j \in hits : \A i \in hits : j <= i

\* The first node with the key, and -1 if there is none.
Hashmap_get_node(b, k) ==
  LET hits == {j \in Slots(b.end) :
                 Hash[key[DArray_get(b, j)]] = Hash[k] /\ key[DArray_get(b, j)] = k}
  IN  IF hits = {} THEN -1 ELSE CHOOSE j \in hits : \A i \in hits : j <= i

Hashmap_get(k) ==
  LET b == buckets[BucketOf(k)]
  IN  IF BucketOf(k) \notin DOMAIN buckets \/ Hashmap_get_node(b, k) = -1 THEN NULL
      ELSE DArray_get(b, Hashmap_get_node(b, k))

----------------------------------------------------------------------------
Hashmap_create ==
  /\ salt = NULL
  /\ salt' \in Numbers
  /\ UNCHANGED <<buckets, key, entries>>

\* The sort, with whatever the comparison says.
Shuffled(b) ==
  {[b EXCEPT !.contents = [j \in DOMAIN @ |-> IF j < b.end THEN @[p[j]] ELSE @[j]]] :
     p \in {p \in [Slots(b.end) -> Slots(b.end)] : \A i, j \in Slots(b.end) : p[i] = p[j] => i = j}}

\* calloc gives a node, which one does not matter: the least that is free.
Calloc == {n \in Nodes : key[n] = NULL /\ \A m \in Nodes : key[m] = NULL => n <= m}

\* A node is made and pushed; the bucket has been created if need be.  Nobody
\* looks at the result of DArray_push: when there was no memory for the next
\* node, nothing defined happens to it, and it is left out here.
Insert(k) ==
  LET b == Found(BucketOf(k))
  IN  /\ b.end \in DOMAIN b.contents /\ entries[k] < MaxEntries
      /\ \E node \in Calloc : \E r \in DArray_push(b, node) :
           /\ buckets' \in {With(BucketOf(k), c) : c \in Shuffled(r.array)}
           /\ key' = [key EXCEPT ![node] = k]
           /\ entries' = [entries EXCEPT ![k] = @ + 1]
      /\ UNCHANGED salt

\* There is no memory for the bucket, or the bucket stays without its node.
Insert_NoMemory(k) ==
  /\ Oom
  /\ buckets' \in {buckets, With(BucketOf(k), Found(BucketOf(k)))}
  /\ UNCHANGED <<salt, key, entries>>

\* It does not look whether the key is there.
Hashmap_set(k) == salt # NULL /\ (Insert(k) \/ Insert_NoMemory(k))

Hashmap_set_fucked(k) ==
  /\ salt # NULL
  /\ \/ Hashmap_get(k) # NULL /\ UNCHANGED mvars
     \/ Hashmap_get(k) = NULL /\ (Insert(k) \/ Insert_NoMemory(k))

Freed(N) == key' = [n \in Nodes |-> IF n \in N THEN NULL ELSE key[n]]

\* DArray_clear of a bucket: the pointers it finds up to max, in its memory and
\* behind it.
Cleared(b) == {b.contents[j] : j \in Slots(b.max) \cap DOMAIN b.contents} \ {NULL}
IsTorn(b) == \E j \in Slots(b.max) : j \notin DOMAIN b.contents

\* The process ends; the next map is another process's.
Dies ==
  /\ buckets' = NoBuckets /\ salt' = NULL
  /\ key' = [n \in Nodes |-> NULL] /\ entries' = NoEntries

Forgotten(k) == entries' = [entries EXCEPT ![k] = @ - 1]

\* Mutant: the last node does not take the place of the one deleted.
Hashmap_delete_NoSwap(k) ==
  /\ salt # NULL /\ Hashmap_get(k) # NULL
  /\ LET n == BucketOf(k)
         b == buckets[n]
         node == Hashmap_get(k)
     IN  \E c \in DArray_pop(b) :
           \/ /\ b.contents[b.end - 1] # node
              /\ buckets' = With(n, c) /\ Freed({node})
           \/ /\ b.contents[b.end - 1] = node
              /\ buckets' = Without(n) /\ Freed({node} \cup Cleared(c))
  /\ Forgotten(k) /\ UNCHANGED salt

\* The last node of the bucket takes the place of the one that is deleted.  When
\* that is the last one the bucket is destroyed with all the nodes there are in
\* it.  When the bucket could not grow, it may be zero behind its memory; anything
\* else is given to free, after which nothing defined happens, and the model has
\* the process end.
Hashmap_delete(k) ==
  /\ salt # NULL /\ Hashmap_get(k) # NULL
  /\ LET n == BucketOf(k)
         b == buckets[n]
         node == Hashmap_get(k)
         ending == DArray_get(b, b.end - 1)
     IN  \E c \in DArray_pop(b) :
           \/ /\ ending # node
              /\ buckets' = With(n, DArray_set(c, Hashmap_get_node(b, k), ending))
              /\ Freed({node}) /\ Forgotten(k) /\ UNCHANGED salt
           \/ /\ ending = node
              /\ buckets' = Without(n)
              /\ Freed({node} \cup Cleared(c)) /\ Forgotten(k) /\ UNCHANGED salt
           \/ ending = node /\ IsTorn(c) /\ Dies

Hashmap_destroy ==
  /\ salt # NULL
  /\ buckets' = NoBuckets /\ salt' = NULL /\ entries' = NoEntries
  /\ Freed({Hashmap_traverse[j] : j \in DOMAIN Hashmap_traverse})

MapNext ==
  \/ Hashmap_create \/ Hashmap_destroy
  \/ \E k \in Keys : Hashmap_set(k) \/ Hashmap_set_fucked(k) \/ Hashmap_delete(k)

----------------------------------------------------------------------------
(* The array of module DArray and the map have nothing to do with each other, *)
(* so they are looked at one at a time.                                       *)

vars == <<avars, mvars>>

Init == ArrayInit /\ MapInit

\* Bound: only one of them is there.
OneAtATime == array' = NULL \/ salt' = NULL

Next ==
  /\ \/ ArrayNext /\ UNCHANGED mvars
     \/ MapNext /\ UNCHANGED avars
  /\ OneAtATime

Spec == Init /\ [][Next]_vars

----------------------------------------------------------------------------
(* PROPERTIES of the map *)

\* Every node that is allocated is in one place of one bucket, and nothing else
\* is: no node is used or freed after it was freed, and none is lost, whatever
\* order the bucket is in.
NodesAreOwned ==
  LET there == Hashmap_traverse
  IN  /\ {there[j] : j \in DOMAIN there} = {n \in Nodes : key[n] # NULL}
      /\ \A i, j \in DOMAIN there : there[i] = there[j] => i = j

\* How many of the keys Hashmap_keys gives are k.
Times(k) == Cardinality({j \in DOMAIN Hashmap_keys : Hashmap_keys[j] = k})

\* No other key has the bucket of k.
Alone(k) == \A j \in Keys : BucketOf(j) = BucketOf(k) => j = k

\* Hashmap_get and Hashmap_keys know no key that has not been put in more often
\* than deleted, though keys share buckets and hashes, and what Hashmap_get
\* gives belongs to the key.  Of a key with a bucket of its own they know each
\* entry, whatever is deleted beside it.  Of a key that shares its bucket they may
\* know fewer: the bucket is destroyed when the node that is last in it is deleted.
KeysAreThoseSet ==
  salt # NULL =>
    \A k \in Keys :
      /\ Times(k) <= entries[k] /\ (Alone(k) => Times(k) = entries[k])
      /\ IF Times(k) = 0 THEN Hashmap_get(k) = NULL
         ELSE Hashmap_get(k) # NULL /\ key[Hashmap_get(k)] = k

=============================================================================
