------------------------------- MODULE TSTree -------------------------------
(***************************************************************************)
(* The ternary search tree (src/tstree.c), one action per round of a loop  *)
(* or level of a recursion.  The fields of TSTree are functions on the     *)
(* nodes.  A value is a Record, which stands for the name it was inserted  *)
(* under.  The caller is src/protocol.c: it searches for a name before it  *)
(* inserts it.                                                             *)
(***************************************************************************)
EXTENDS Integers, Sequences, FiniteSets, Selection

CONSTANTS
  Names,  \* as in module NameMap
  NULL,
  Nodes   \* the nodes calloc can give, as numbers

ASSUME NamesAssumption == Names \subseteq Seq(Int) /\ <<>> \notin Names
ASSUME NodesAssumption == Nodes \subseteq Nat
ASSUME NullAssumption == NULL \notin Nodes /\ NULL \notin Names

VARIABLES
  root,
  used,                                    \* the nodes allocated
  splitchar, low, equal, high, value,
  call, reply,                             \* as in module NameMap
  node, i, last,                           \* locals of the call
  lastnode, ckey, array,                   \* TSTree_collect's last and result
  pre,    \* history: the characters on the way to each node
  under   \* history: the names whose insertion has come through each node

tree == <<root, used, splitchar, low, equal, high, value, pre, under>>
locals == <<node, i, last, lastnode, ckey>>
vars == <<tree, call, reply, locals, array>>

Stored == {value[n] : n \in used} \ {NULL}

Map == INSTANCE NameMap WITH names <- Stored
Calls == Map!Calls
Idle == Map!Idle
Aborted == Map!Aborted
NoReply == Map!NoReply
Extends(k, p) == Map!Extends(k, p)

Pointers == Nodes \cup {NULL}
Strings == Seq(Int)

TypeOK ==
  /\ used \subseteq Nodes
  /\ root \in used \cup {NULL}
  /\ splitchar \in [Nodes -> Int]
  /\ low \in [Nodes -> Pointers] /\ equal \in [Nodes -> Pointers]
  /\ high \in [Nodes -> Pointers] /\ value \in [Nodes -> Names \cup {NULL}]
  /\ pre \in [Nodes -> Strings] /\ under \in [Nodes -> SUBSET Names]
  /\ call \in Calls \cup {Idle, Aborted}
  /\ reply \in {NoReply} \cup [op : {"insert", "search", "prefix", "collect"},
                               key : Names, ret : Names \cup {NULL}]
  /\ node \in used \cup {NULL} /\ i \in Nat /\ last \in Names \cup {NULL}
  /\ lastnode \in used \cup {NULL}
  /\ ckey \in Strings

Init ==
  /\ root = NULL /\ used = {}
  /\ splitchar = [n \in Nodes |-> 0]
  /\ low = [n \in Nodes |-> NULL] /\ equal = [n \in Nodes |-> NULL]
  /\ high = [n \in Nodes |-> NULL] /\ value = [n \in Nodes |-> NULL]
  /\ pre = [n \in Nodes |-> <<>>] /\ under = [n \in Nodes |-> {}]
  /\ call = Idle /\ reply = NoReply
  /\ node = NULL /\ i = 0 /\ last = NULL /\ lastnode = NULL /\ ckey = <<>> /\ array = <<>>

----------------------------------------------------------------------------
Key == call.key
Char == Key[i + 1]
Running(op) == call.op = op

\* The call returns r; the locals are gone.
Return(r) ==
  /\ reply' = [op |-> call.op, key |-> Key, ret |-> r]
  /\ call' = Idle
  /\ node' = NULL /\ i' = 0 /\ last' = NULL /\ lastnode' = NULL /\ ckey' = <<>>

\* A call begins at the root.
Begin(op, k) ==
  /\ call = Idle
  /\ call' = [op |-> op, key |-> k]
  /\ i' = 0 /\ last' = NULL /\ lastnode' = NULL /\ ckey' = <<>>
  /\ array' = <<>>
  /\ reply' = NoReply

\* calloc gives a node, which one does not matter: the least that is free.
Calloc == {n \in Nodes \ used : \A m \in Nodes \ used : n <= m}

MayInsert_Unchecked(k) == reply.op = "search" /\ reply.key = k           \* mutant

\* The caller has searched for k and not found it.
MayInsert(k) == reply.op = "search" /\ reply.key = k /\ reply.ret = NULL

\* Mutant: the node is freed again, and what points to it stays.
NewNode_Freed(n, k, j, p) ==
  /\ splitchar' = [splitchar EXCEPT ![n] = k[j + 1]]
  /\ pre' = [pre EXCEPT ![n] = p]
  /\ under' = [under EXCEPT ![n] = {k}]
  /\ node' = n
  /\ UNCHANGED <<used, value>>

\* A new node for k[j + 1], to which the characters p lead; the record calloc
\* gives is zero otherwise.
NewNode(n, k, j, p) ==
  /\ used' = used \cup {n}
  /\ splitchar' = [splitchar EXCEPT ![n] = k[j + 1]]
  /\ pre' = [pre EXCEPT ![n] = p]
  /\ under' = [under EXCEPT ![n] = {k}]
  /\ node' = n
  /\ UNCHANGED value

\* The node is there already.
OldNode(n, k) ==
  /\ under' = [under EXCEPT ![n] = @ \cup {k}]
  /\ node' = n
  /\ UNCHANGED <<used, root, splitchar, low, equal, high, value, pre>>

TSTree_insert(k) ==
  /\ MayInsert(k)
  /\ Begin("insert", k)
  /\ \/ root # NULL /\ OldNode(root, k)
     \/ /\ root = NULL
        /\ \E n \in Calloc : NewNode(n, k, 0, <<>>) /\ root' = n
        /\ UNCHANGED <<low, equal, high>>

\* One level of TSTree_insert_base: the way to the child, which is made if it
\* is not there.
InsertLow ==
  /\ Running("insert") /\ Char < splitchar[node]
  /\ \/ low[node] # NULL /\ OldNode(low[node], Key)
     \/ /\ low[node] = NULL
        /\ \E n \in Calloc : NewNode(n, Key, i, pre[node]) /\ low' = [low EXCEPT ![node] = n]
        /\ UNCHANGED <<root, equal, high>>
  /\ UNCHANGED <<call, reply, i, last, lastnode, ckey, array>>

InsertEqual ==
  /\ Running("insert") /\ Char = splitchar[node] /\ i + 1 < Len(Key)
  /\ \/ equal[node] # NULL /\ OldNode(equal[node], Key)
     \/ /\ equal[node] = NULL
        /\ \E n \in Calloc : /\ NewNode(n, Key, i + 1, Append(pre[node], splitchar[node]))
                             /\ equal' = [equal EXCEPT ![node] = n]
        /\ UNCHANGED <<root, low, high>>
  /\ i' = i + 1
  /\ UNCHANGED <<call, reply, last, lastnode, ckey, array>>

InsertHigh ==
  /\ Running("insert") /\ Char > splitchar[node]
  /\ \/ high[node] # NULL /\ OldNode(high[node], Key)
     \/ /\ high[node] = NULL
        /\ \E n \in Calloc : NewNode(n, Key, i, pre[node]) /\ high' = [high EXCEPT ![node] = n]
        /\ UNCHANGED <<root, low, equal>>
  /\ UNCHANGED <<call, reply, i, last, lastnode, ckey, array>>

AtEnd == Running("insert") /\ Char = splitchar[node] /\ i + 1 = Len(Key)

\* The end of the insertion, unless the assertion that nothing is there fails:
\* that it does not is NoDuplicateInsert.
InsertValue ==
  /\ AtEnd /\ value[node] = NULL
  /\ value' = [value EXCEPT ![node] = Key]
  /\ Return(NULL)
  /\ UNCHANGED <<root, used, splitchar, low, equal, high, pre, under, array>>

\* calloc fails, whenever it wants, and the node is written to all the same.
NoMemory ==
  /\ \/ call = Idle /\ root = NULL /\ \E k \in Names : MayInsert(k)
     \/ Running("insert") /\ Char < splitchar[node] /\ low[node] = NULL
     \/ Running("insert") /\ Char > splitchar[node] /\ high[node] = NULL
     \/ /\ Running("insert") /\ Char = splitchar[node] /\ i + 1 < Len(Key)
        /\ equal[node] = NULL
  /\ call' = Aborted
  /\ UNCHANGED <<tree, reply, locals, array>>

----------------------------------------------------------------------------
TSTree_search(k) == Begin("search", k) /\ node' = root /\ UNCHANGED tree
TSTree_search_prefix(k) == Begin("prefix", k) /\ node' = root /\ UNCHANGED tree

\* The test at the head of the loop of all three searches.
InLoop == node # NULL /\ i < Len(Key)

\* A round of the loop where the character differs.
GoAside ==
  /\ call.op \in {"search", "prefix", "collect"} /\ InLoop
  /\ \/ Char < splitchar[node] /\ node' = low[node]
     \/ Char > splitchar[node] /\ node' = high[node]
  /\ UNCHANGED <<tree, call, reply, i, last, lastnode, ckey, array>>

\* A round where it is the one: on to the next, unless it was the last.
SearchEqual ==
  /\ Running("search") /\ InLoop /\ Char = splitchar[node]
  /\ i' = i + 1
  /\ node' = IF i + 1 < Len(Key) THEN equal[node] ELSE node
  /\ UNCHANGED <<tree, call, reply, last, lastnode, ckey, array>>

SearchReturn ==
  /\ Running("search") /\ ~InLoop
  /\ Return(IF node = NULL THEN NULL ELSE value[node])
  /\ UNCHANGED <<tree, array>>

\* Mutant: the key itself counts as its prefix.
PrefixEqual_Self ==
  /\ Running("prefix") /\ InLoop /\ Char = splitchar[node]
  /\ i' = i + 1
  /\ last' = IF value[node] # NULL THEN value[node] ELSE last
  /\ node' = IF i + 1 < Len(Key) THEN equal[node] ELSE node
  /\ UNCHANGED <<tree, call, reply, lastnode, ckey, array>>

\* As SearchEqual, and the value on the way is remembered.
PrefixEqual ==
  /\ Running("prefix") /\ InLoop /\ Char = splitchar[node]
  /\ i' = i + 1
  /\ \/ /\ i + 1 < Len(Key)
        /\ last' = IF value[node] # NULL THEN value[node] ELSE last
        /\ node' = equal[node]
     \/ i + 1 = Len(Key) /\ UNCHANGED <<last, node>>
  /\ UNCHANGED <<tree, call, reply, lastnode, ckey, array>>

PrefixReturn ==
  /\ Running("prefix") /\ ~InLoop
  /\ Return(last)
  /\ UNCHANGED <<tree, array>>
----------------------------------------------------------------------------
\* Mutant: what is high is left out.
PostOrder_NoHigh(m) ==
  LET O[n \in Pointers] == IF n = NULL THEN <<>> ELSE O[low[n]] \o O[equal[n]] \o <<n>>
  IN  O[m]

\* The nodes below m, each after those below it: the order of TSTree_traverse
\* and of TSTree_destroy.
PostOrder(m) ==
  LET O[n \in Pointers] ==
        IF n = NULL THEN <<>> ELSE O[low[n]] \o O[equal[n]] \o O[high[n]] \o <<n>>
  IN  O[m]

\* The values the callback of TSTree_traverse is given.
TSTree_traverse ==
  LET valued == Select(PostOrder(root), {n \in used : value[n] # NULL})
  IN  [j \in DOMAIN valued |-> value[valued[j]]]

\* The nodes TSTree_destroy frees.
TSTree_destroy == PostOrder(root)

\* The nodes TSTree_collect_keys comes through below m, and how deep in its
\* recursion it does.
Visits(m) ==
  LET Deeper(s) == [j \in DOMAIN s |-> [s[j] EXCEPT !.depth = @ + 1]]
      O[n \in Pointers] ==
        IF n = NULL THEN <<>>
        ELSE <<[node |-> n, depth |-> 1]>> \o Deeper(O[low[n]] \o O[equal[n]] \o O[high[n]])
  IN  O[m]

\* It appends a character of each node to the one buffer all levels share, and
\* never takes one back.
TSTree_collect_keys(m, key) ==
  LET visits == Visits(m)
      Buffer(j) == key \o [k \in 1 .. j |-> splitchar[visits[k].node]]
      found == Select([j \in DOMAIN visits |-> j], {j \in DOMAIN visits : value[visits[j].node] # NULL})
  IN  [j \in DOMAIN found |-> Buffer(found[j])]

\* The size the buffer is given by the level at a depth, ckey_sz at 0: what the
\* levels beside it have appended is not in it.
Size(key, depth) == 4 + 2 * (Len(key) + depth)

\* Before and after each realloc there is room for the characters and the NUL.
BufferHolds(m, key) ==
  LET visits == Visits(m)
  IN  \A j \in DOMAIN visits :
        /\ j > 1 => Len(key) + j < Size(key, visits[j - 1].depth)
        /\ Len(key) + j < Size(key, visits[j].depth)

TSTree_collect(k) == Begin("collect", k) /\ node' = root /\ UNCHANGED tree

\* TSTree_collect_keycat, when realloc leaves ckey where it is: the character of
\* node n is put behind it.
Keycat(n) == Append(ckey, splitchar[n])

\* As PrefixEqual, with the node remembered and its character put into ckey.
CollectEqual ==
  /\ Running("collect") /\ InLoop /\ Char = splitchar[node]
  /\ i' = i + 1
  /\ \/ /\ i + 1 < Len(Key)
        /\ ckey' = Keycat(node)
        /\ lastnode' = IF value[node] # NULL THEN node ELSE lastnode
        /\ node' = equal[node]
     \/ i + 1 = Len(Key) /\ UNCHANGED <<lastnode, node, ckey>>
  /\ UNCHANGED <<tree, call, reply, last, array>>

\* Where the loop ended, or the last node with a value before.
Found == IF node # NULL THEN node ELSE lastnode

\* On to the first value, past whatever is low or high.
CollectDown ==
  /\ Running("collect") /\ ~InLoop /\ Found # NULL /\ value[Found] = NULL
  /\ node' = equal[Found] /\ lastnode' = NULL
  /\ ckey' = Keycat(Found)
  /\ UNCHANGED <<tree, call, reply, i, last, array>>

CollectReturn ==
  /\ Running("collect") /\ ~InLoop
  /\ \/ Found = NULL /\ array' = <<>>
     \/ /\ Found # NULL /\ value[Found] # NULL /\ BufferHolds(Found, ckey)
        /\ array' = TSTree_collect_keys(Found, ckey)
  /\ Return(NULL)
  /\ UNCHANGED tree

\* ckey is about to grow.
Growing ==
  \/ InLoop /\ Char = splitchar[node] /\ i + 1 < Len(Key)
  \/ ~InLoop /\ Found # NULL /\ value[Found] = NULL

\* There is no memory for the array or for ckey, or none for it to grow: the
\* error label gives NULL.
CollectFails ==
  /\ Running("collect")
  /\ (i = 0 /\ node = root) \/ Growing
  /\ array' = NULL
  /\ Return(NULL)
  /\ UNCHANGED tree

\* realloc moves the buffer.  Nobody but the callee hears of the new address:
\* TSTree_collect, and each level of TSTree_collect_keys, goes on with the block
\* that is gone and frees it once more.  In TSTree_collect_keys a failing realloc
\* or calloc is not looked at, and the buffer may be too small.  What follows is
\* undefined in each case.
CollectFaults ==
  /\ Running("collect")
  /\ Growing \/ (~InLoop /\ Found # NULL /\ value[Found] # NULL)
  /\ call' = Aborted
  /\ UNCHANGED <<tree, reply, locals, array>>

----------------------------------------------------------------------------
Insert == InsertLow \/ InsertEqual \/ InsertHigh \/ InsertValue
Search == GoAside \/ SearchEqual \/ SearchReturn \/ PrefixEqual \/ PrefixReturn
Collect == CollectEqual \/ CollectDown \/ CollectReturn \/ CollectFails \/ CollectFaults

Next ==
  \/ \E k \in Names : \/ TSTree_insert(k) \/ TSTree_search(k)
                      \/ TSTree_search_prefix(k) \/ TSTree_collect(k)
  \/ Insert \/ Search \/ Collect \/ NoMemory

Spec == Init /\ [][Next]_vars

----------------------------------------------------------------------------
(* PROPERTIES *)

\* Through all its pointers the tree is a set of names: TSTree_search finds
\* those that were inserted and no others, TSTree_search_prefix the longest one
\* the key extends, and an insertion loses no other name.
ImplementsNameMap == Map!Spec

\* The assertion of TSTree_insert_base never fails: the search before it walks
\* the way the insertion will.
NoDuplicateInsert == ~AtEnd \/ value[node] = NULL
=============================================================================
