----------------------------- MODULE TSTreeProofs -----------------------------
(***************************************************************************)
(* Theorems about modules TSTree and Listing, for any names, any nodes and *)
(* any order of calls: the tree with its pointers is the set of names of   *)
(* module NameMap, the assertion in TSTree_insert_base never fails, a      *)
(* destruction frees each node once, and the text of /list is exact.       *)
(***************************************************************************)
EXTENDS Listing, BstrProofs, FunctionTheorems

Inserting == call.op = "insert"

\* k begins with the first j characters of s.
Agree(k, s, j) == \A m \in 1 .. j : k[m] = s[m]

\* The name k, having come to node n, has gone on to where it belongs.
Way(n, k) ==
  /\ Len(pre[n]) < Len(k) /\ Agree(k, pre[n], Len(pre[n]))
  /\ k[Len(pre[n]) + 1] < splitchar[n] => low[n] # NULL /\ k \in under[low[n]]
  /\ k[Len(pre[n]) + 1] > splitchar[n] => high[n] # NULL /\ k \in under[high[n]]
  /\ k[Len(pre[n]) + 1] = splitchar[n] =>
       IF Len(pre[n]) + 1 < Len(k) THEN equal[n] # NULL /\ k \in under[equal[n]]
                                   ELSE value[n] = k

\* Every name has, but for the one that is being inserted.
Ways ==
  \A n \in used : \A k \in under[n] :
    Way(n, k) \/ (Inserting /\ n = node /\ k = Key)

\* Children are nodes, and what leads to them is what the caller has passed.
Shape(n) ==
  /\ low[n] # NULL => low[n] \in used /\ pre[low[n]] = pre[n]
  /\ high[n] # NULL => high[n] \in used /\ pre[high[n]] = pre[n]
  /\ equal[n] # NULL => equal[n] \in used /\ pre[equal[n]] = Append(pre[n], splitchar[n])
  /\ value[n] # NULL => /\ value[n] \in under[n]
                        /\ Len(value[n]) = Len(pre[n]) + 1
                        /\ value[n][Len(pre[n]) + 1] = splitchar[n]
                        /\ Agree(value[n], pre[n], Len(pre[n]))

Shapes == \A n \in used : Shape(n)

\* calloc gives zeros.
Fresh == \A n \in Nodes \ used :
  low[n] = NULL /\ high[n] = NULL /\ equal[n] = NULL /\ value[n] = NULL

\* Every name has come through the root, and only names have come anywhere.
Rooted ==
  /\ root # NULL => pre[root] = <<>>
  /\ \A k \in Stored : root # NULL /\ k \in under[root]
  /\ \A n \in used : under[n] \subseteq Stored \cup (IF Inserting THEN {Key} ELSE {})

\* Where the call in progress is.
InsertingAt ==
  Inserting =>
    /\ node # NULL /\ Key \notin Stored
    /\ Len(pre[node]) = i /\ i < Len(Key) /\ Agree(Key, pre[node], i)
    /\ Key \in under[node] /\ root # NULL /\ Key \in under[root]

\* The character TSTree_search compared last, when it has compared them all, is
\* the one before i.
SearchingAt ==
  call.op = "search" =>
    /\ i <= Len(Key)
    /\ node = NULL => i < Len(Key) /\ Key \notin Stored
    /\ node # NULL =>
         /\ Key \in Stored => Key \in under[node]
         /\ i < Len(Key) => Len(pre[node]) = i /\ Agree(Key, pre[node], i)
         /\ i = Len(Key) => /\ Len(pre[node]) = i - 1 /\ Agree(Key, pre[node], i - 1)
                            /\ Key[i] = splitchar[node] /\ i > 0

\* last is the longest name of at most i characters that the key extends, and
\* the longer ones have come to node.
PrefixingAt ==
  call.op = "prefix" =>
    /\ i <= Len(Key)
    /\ last = NULL => \A q \in Stored : Extends(Key, q) => Len(q) > i
    /\ last # NULL => /\ last \in Stored /\ Extends(Key, last)
                      /\ \A q \in Stored : Extends(Key, q) /\ Len(q) <= i => Len(q) <= Len(last)
    /\ node = NULL => \A q \in Stored : Extends(Key, q) => Len(q) <= i
    /\ node # NULL /\ i < Len(Key) =>
         /\ Len(pre[node]) = i /\ Agree(Key, pre[node], i)
         /\ \A q \in Stored : Extends(Key, q) /\ Len(q) > i => q \in under[node]

\* The inductive invariant, as long as the process lives.
TreeOK == Ways /\ Shapes /\ Fresh /\ Rooted /\ InsertingAt /\ SearchingAt /\ PrefixingAt

\* A name that was just searched for in vain is not there.
ReplyOK == reply.op = "search" /\ reply.ret = NULL => reply.key \notin Stored

IInv == TypeOK /\ ReplyOK /\ (call # Aborted => TreeOK)
----------------------------------------------------------------------------
LEMMA CallFacts ==
  ASSUME TypeOK, call.op \in {"insert", "search", "prefix", "collect"}
  PROVE  /\ call \in Calls /\ call # Idle /\ call # Aborted
         /\ Key \in Names /\ Key \in Seq(Int) /\ Len(Key) \in Nat /\ Len(Key) > 0
  <1>1. call # Idle /\ call # Aborted
    BY DEF Idle, Aborted, Map!Idle, Map!Aborted
  <1>2. call \in Calls
    BY <1>1 DEF TypeOK
  <1>3. Key \in Names
    BY <1>2 DEF Calls, Map!Calls, Key
  <1> QED BY <1>1, <1>2, <1>3, NamesAssumption

LEMMA NameFacts ==
  ASSUME NEW k \in Names
  PROVE  k \in Seq(Int) /\ Len(k) \in Nat /\ Len(k) > 0 /\ k # NULL
  BY NamesAssumption, NullAssumption

LEMMA SameNames ==
  ASSUME NEW s \in Seq(Int), NEW t \in Seq(Int), Len(s) = Len(t),
         \A m \in 1 .. Len(t) : s[m] = t[m]
  PROVE  s = t
  OBVIOUS

LEMMA NotCalling ==
  /\ Idle.op = "idle" /\ Aborted.op = "aborted" /\ NoReply.op = "none"
  /\ Idle # Aborted
  BY DEF Idle, Map!Idle, Aborted, Map!Aborted, NoReply, Map!NoReply

\* What an insertion changes when it goes from node to c, new or not.
Grown(c) ==
  /\ used' = used \cup {c} /\ node' = c /\ c # NULL /\ c \in Nodes
  /\ UNCHANGED <<call, value>>
  /\ \A m \in used : pre'[m] = pre[m] /\ splitchar'[m] = splitchar[m]
  /\ \A m \in used : under'[m] = IF m = c THEN under[m] \cup {Key} ELSE under[m]
  /\ \A m \in used : /\ low'[m] = low[m] \/ (m = node /\ low[m] = NULL)
                     /\ equal'[m] = equal[m] \/ (m = node /\ equal[m] = NULL)
                     /\ high'[m] = high[m] \/ (m = node /\ high[m] = NULL)
  /\ c \notin used => /\ under'[c] = {Key}
                      /\ low'[c] = NULL /\ equal'[c] = NULL /\ high'[c] = NULL
  /\ Key \in under'[c]

LEMMA GrownWays ==
  ASSUME TypeOK, Ways, Shapes, Inserting, NEW c, Grown(c),
         NEW n0, n0 = node, NEW k0, k0 = Key, Way(n0, k0)'
  PROVE  Ways'
  <1> SUFFICES ASSUME NEW n \in used', NEW k \in under'[n], ~(n = c /\ k = k0)
               PROVE  Way(n, k)'
    BY DEF Ways, Grown, Inserting, Key
  <1>1. n \in used /\ k \in under[n]
    BY DEF Grown
  <1>2. CASE n = n0 /\ k = k0
    BY <1>2
  <1>3. CASE ~(n = n0 /\ k = k0)
    <2>1. Way(n, k)
      BY <1>1, <1>3 DEF Ways
    <2>2. /\ low[n] # NULL => low'[n] = low[n] /\ low[n] \in used
          /\ high[n] # NULL => high'[n] = high[n] /\ high[n] \in used
          /\ equal[n] # NULL => equal'[n] = equal[n] /\ equal[n] \in used
      BY <1>1 DEF Shapes, Shape, Grown
    <2>3. \A m \in used : under[m] \subseteq under'[m]
      BY DEF Grown
    <2>4. pre'[n] = pre[n] /\ splitchar'[n] = splitchar[n] /\ value'[n] = value[n]
      BY <1>1 DEF Grown
    <2> QED BY <2>1, <2>2, <2>3, <2>4 DEF Way, Agree
  <1> QED BY <1>2, <1>3

LEMMA GrownStored ==
  ASSUME TypeOK, Fresh, NEW c, Grown(c)
  PROVE  Stored' = Stored
  BY DEF Grown, Stored, Fresh, TypeOK

LEMMA GrownRooted ==
  ASSUME TypeOK, Rooted, Fresh, Inserting, NEW c, Grown(c), node \in used, root' = root
  PROVE  Rooted'
  <1>1. Stored' = Stored /\ Inserting' /\ Key' = Key
    BY GrownStored DEF Grown, Inserting, Key
  <1>2. root # NULL => root \in used
    BY DEF TypeOK
  <1> QED BY <1>1, <1>2 DEF Rooted, Grown

LEMMA GrownShapes ==
  ASSUME TypeOK, Shapes, Fresh, NEW c, Grown(c), NEW n0, n0 = node, Shape(n0)'
  PROVE  Shapes'
  <1> SUFFICES ASSUME NEW n \in used', n # n0 PROVE Shape(n)'
    BY DEF Shapes
  <1>1. CASE n \in used
    <2>1. Shape(n) /\ low'[n] = low[n] /\ equal'[n] = equal[n] /\ high'[n] = high[n]
      BY <1>1 DEF Shapes, Grown
    <2>2. /\ low[n] # NULL => low[n] \in used' /\ pre'[low[n]] = pre'[n]
          /\ high[n] # NULL => high[n] \in used' /\ pre'[high[n]] = pre'[n]
          /\ equal[n] # NULL => /\ equal[n] \in used'
                                /\ pre'[equal[n]] = Append(pre'[n], splitchar'[n])
      BY <1>1, <2>1 DEF Shape, Grown
    <2>3. /\ value'[n] = value[n] /\ pre'[n] = pre[n] /\ splitchar'[n] = splitchar[n]
          /\ under[n] \subseteq under'[n]
      BY <1>1 DEF Grown
    <2> QED BY <2>1, <2>2, <2>3 DEF Shape, Agree
  <1>2. CASE n = c /\ c \notin used
    BY <1>2 DEF Shape, Grown, Fresh
  <1> QED BY <1>1, <1>2 DEF Grown
----------------------------------------------------------------------------
\* The two ways to a child.
LEMMA NewNodeGrows ==
  ASSUME TypeOK, Inserting, NEW n \in Nodes \ used, NEW p \in Strings,
         NEW j \in 0 .. Len(Key) - 1, NewNode(n, Key, j, p)
  PROVE  /\ used' \subseteq Nodes /\ splitchar' \in [Nodes -> Int]
         /\ pre' \in [Nodes -> Strings] /\ under' \in [Nodes -> SUBSET Names]
         /\ \A m \in used : /\ pre'[m] = pre[m] /\ splitchar'[m] = splitchar[m]
                            /\ under'[m] = under[m]
         /\ under'[n] = {Key} /\ pre'[n] = p /\ splitchar'[n] = Key[j + 1]
         /\ n # NULL
  <1>1. Key \in Names /\ Key[j + 1] \in Int
    BY CallFacts DEF Inserting
  <1> QED BY <1>1, NullAssumption DEF NewNode, TypeOK

LEMMA OldNodeGrows ==
  ASSUME TypeOK, Inserting, NEW n \in used, OldNode(n, Key)
  PROVE  /\ under' \in [Nodes -> SUBSET Names]
         /\ \A m \in used : under'[m] = IF m = n THEN under[m] \cup {Key} ELSE under[m]
         /\ n # NULL
  <1>1. Key \in Names
    BY CallFacts DEF Inserting
  <1> QED BY <1>1, NullAssumption DEF OldNode, TypeOK

\* Where an insertion is when it takes a step.
LEMMA InsertingFacts ==
  ASSUME TypeOK, Shapes, InsertingAt, Inserting
  PROVE  /\ node \in used /\ node \in Nodes /\ node # NULL /\ Shape(node)
         /\ i \in 0 .. Len(Key) - 1 /\ Char \in Int /\ Key \in Seq(Int) /\ Key \in Names
         /\ pre[node] \in Strings /\ splitchar[node] \in Int
  <1>1. Key \in Names /\ Key \in Seq(Int)
    BY CallFacts DEF Inserting
  <1> QED BY <1>1 DEF TypeOK, InsertingAt, Shapes, Char, Strings

LEMMA LowGrows ==
  ASSUME TypeOK, Shapes, Fresh, InsertingAt, Inserting, InsertLow
  PROVE  /\ Grown(node') /\ TypeOK' /\ Fresh' /\ InsertingAt'
         /\ root' = root /\ reply' = reply
         /\ \A n0, k0 : n0 = node /\ k0 = Key => Shape(n0)' /\ Way(n0, k0)'
  <1> USE InsertingFacts
  <1>1. UNCHANGED <<root, equal, high, value, call, reply, i, last, lastnode, ckey>>
    BY DEF InsertLow, OldNode, NewNode
  <1>2. CASE low[node] # NULL /\ OldNode(low[node], Key)
    <2>1. low[node] \in used /\ pre[low[node]] = pre[node]
      BY <1>2 DEF Shape
    <2>2. Grown(node')
      <3>1. /\ \A m \in used : under'[m] = IF m = low[node] THEN under[m] \cup {Key}
                                                            ELSE under[m]
            /\ low[node] # NULL /\ low[node] \in Nodes
        BY <1>2, <2>1, OldNodeGrows DEF TypeOK
      <3>2. node' = low[node] /\ UNCHANGED <<used, splitchar, low, pre>>
        BY <1>2 DEF OldNode
      <3> QED BY <1>1, <2>1, <3>1, <3>2 DEF Grown
    <2>3. TypeOK'
      BY <1>1, <1>2, <2>1, OldNodeGrows DEF OldNode, TypeOK
    <2>4. Fresh' /\ InsertingAt'
      <3>1. Key' = Key /\ Inserting' /\ Fresh'
        BY <1>1, <1>2 DEF Key, Inserting, Fresh, OldNode
      <3>2. Stored' = Stored
        BY <2>2, GrownStored
      <3>3. Key \in under'[node'] /\ Key \in under'[root]
        BY <2>2 DEF Grown, InsertingAt, TypeOK
      <3> QED BY <1>1, <1>2, <2>1, <3>1, <3>2, <3>3 DEF InsertingAt, OldNode, Agree
    <2>5. ASSUME NEW n0, NEW k0, n0 = node, k0 = Key PROVE Shape(n0)' /\ Way(n0, k0)'
      <3>1. Shape(n0)'
        BY <1>1, <1>2, <2>1, <2>2, <2>5 DEF Shape, OldNode, Grown, Agree
      <3>2. Way(n0, k0)'
        BY <1>1, <1>2, <2>1, <2>2, <2>5 DEF Way, OldNode, Grown, InsertLow, InsertingAt,
              Agree, Char
      <3> QED BY <3>1, <3>2
    <2> QED BY <1>1, <2>2, <2>3, <2>4, <2>5
  <1>3. ASSUME NEW n \in Calloc, low[node] = NULL, NewNode(n, Key, i, pre[node]),
               low' = [low EXCEPT ![node] = n]
        PROVE  /\ Grown(node') /\ TypeOK' /\ Fresh' /\ InsertingAt'
               /\ \A n0, k0 : n0 = node /\ k0 = Key => Shape(n0)' /\ Way(n0, k0)'
    <2>1. n \in Nodes \ used /\ n # node
      BY DEF Calloc
    <2>2. \A m \in Nodes : low'[m] = IF m = node THEN n ELSE low[m]
      BY <1>3 DEF TypeOK
    <2>3. /\ used' = used \cup {n} /\ node' = n
          /\ used' \subseteq Nodes /\ splitchar' \in [Nodes -> Int]
          /\ pre' \in [Nodes -> Strings] /\ under' \in [Nodes -> SUBSET Names]
          /\ \A m \in used : /\ pre'[m] = pre[m] /\ splitchar'[m] = splitchar[m]
                             /\ under'[m] = under[m]
          /\ under'[n] = {Key} /\ pre'[n] = pre[node] /\ n # NULL
      BY <1>3, <2>1, NewNodeGrows DEF NewNode
    <2>4. Grown(node')
      BY <1>1, <1>3, <2>1, <2>2, <2>3 DEF Grown, Fresh, TypeOK
    <2>5. TypeOK'
      BY <1>1, <1>3, <2>1, <2>3 DEF TypeOK, Pointers
    <2>6. Fresh' /\ InsertingAt'
      <3>1. Stored' = Stored
        BY <2>4, GrownStored
      <3>2. Key' = Key /\ Inserting' /\ Fresh'
        BY <1>1, <2>1, <2>2, <2>3 DEF Key, Inserting, Fresh
      <3>3. Key \in under'[node'] /\ Key \in under'[root]
        BY <2>4 DEF Grown, InsertingAt, TypeOK
      <3> QED BY <1>1, <2>3, <3>1, <3>2, <3>3 DEF InsertingAt, Agree
    <2>7. ASSUME NEW n0, NEW k0, n0 = node, k0 = Key PROVE Shape(n0)' /\ Way(n0, k0)'
      <3>1. Shape(n0)'
        BY <1>1, <2>1, <2>2, <2>3, <2>7 DEF Shape, Agree
      <3>2. Way(n0, k0)'
        BY <1>1, <2>1, <2>2, <2>3, <2>7 DEF Way, InsertLow, InsertingAt, Agree, Char
      <3> QED BY <3>1, <3>2
    <2> QED BY <2>4, <2>5, <2>6, <2>7
  <1> QED BY <1>1, <1>2, <1>3 DEF InsertLow
LEMMA EqualGrows ==
  ASSUME TypeOK, Shapes, Fresh, InsertingAt, Inserting, InsertEqual
  PROVE  /\ Grown(node') /\ TypeOK' /\ Fresh' /\ InsertingAt'
         /\ root' = root /\ reply' = reply
         /\ \A n0, k0 : n0 = node /\ k0 = Key => Shape(n0)' /\ Way(n0, k0)'
  <1> USE InsertingFacts
  <1>1. UNCHANGED <<root, low, high, value, call, reply, last, lastnode, ckey>>
    BY DEF InsertEqual, OldNode, NewNode
  <1>0. i + 1 \in 0 .. Len(Key) - 1 /\ i' = i + 1 /\ Key[i + 1] = splitchar[node]
    BY DEF InsertEqual, Char
  <1>5. splitchar[node] \in Int /\ i \in Nat /\ i + 1 < Len(Key)
    BY <1>0
  <1>4. /\ Len(Append(pre[node], splitchar[node])) = i + 1
        /\ Append(pre[node], splitchar[node]) \in Strings
        /\ Agree(Key, Append(pre[node], splitchar[node]), i + 1)
    BY <1>0 DEF Agree, Strings, InsertingAt
  <1>2. CASE equal[node] # NULL /\ OldNode(equal[node], Key)
    <2>1. equal[node] \in used /\ pre[equal[node]] = Append(pre[node], splitchar[node])
      BY <1>2 DEF Shape
    <2>2. Grown(node')
      <3>1. /\ \A m \in used : under'[m] = IF m = equal[node] THEN under[m] \cup {Key}
                                                            ELSE under[m]
            /\ equal[node] # NULL /\ equal[node] \in Nodes
        BY <1>2, <2>1, OldNodeGrows DEF TypeOK
      <3>2. node' = equal[node] /\ UNCHANGED <<used, splitchar, equal, pre>>
        BY <1>2 DEF OldNode
      <3> QED BY <1>0, <1>4, <1>1, <2>1, <3>1, <3>2 DEF Grown
    <2>3. TypeOK'
      BY <1>0, <1>4, <1>1, <1>2, <2>1, OldNodeGrows DEF OldNode, TypeOK
    <2>4. Fresh' /\ InsertingAt'
      <3>1. Key' = Key /\ Inserting' /\ Fresh'
        BY <1>1, <1>2 DEF Key, Inserting, Fresh, OldNode
      <3>2. Stored' = Stored
        BY <2>2, GrownStored
      <3>3. Key \in under'[node'] /\ Key \in under'[root]
        BY <2>2 DEF Grown, InsertingAt, TypeOK
      <3>4. Len(pre'[node']) = i' /\ i' < Len(Key) /\ Agree(Key, pre'[node'], i')
        BY <1>0, <1>4, <1>2, <2>1 DEF OldNode
      <3>5. node' # NULL /\ root' = root /\ root # NULL /\ Key \notin Stored
        BY <1>1, <2>2 DEF InsertingAt, Grown
      <3> QED BY <3>1, <3>2, <3>3, <3>4, <3>5 DEF InsertingAt, Agree
    <2>5. ASSUME NEW n0, NEW k0, n0 = node, k0 = Key PROVE Shape(n0)' /\ Way(n0, k0)'
      <3>1. Shape(n0)'
        <4>1. UNCHANGED <<used, splitchar, low, equal, high, value, pre>>
          BY <1>2 DEF OldNode
        <4>2. Shape(n0) /\ under[n0] \subseteq under'[n0]
          BY <2>2, <2>5 DEF Grown
        <4> HIDE InsertingFacts
        <4> QED BY <4>1, <4>2 DEF Shape, Agree
      <3>2. Way(n0, k0)'
        <4>1. /\ pre'[node] = pre[node] /\ splitchar'[node] = splitchar[node]
              /\ equal'[node] = equal[node] /\ equal[node] # NULL /\ Key \in under'[equal[node]]
          BY <1>2, <2>2 DEF OldNode, Grown
        <4>2. Len(pre[node]) = i /\ Agree(Key, pre[node], i)
          BY DEF InsertingAt
        <4>3. Key \in under'[equal'[node]] /\ equal'[node] # NULL
          BY <4>1
        <4>4. Len(pre'[node]) = i /\ \A m \in 1 .. i : Key[m] = pre'[node][m]
          BY <4>1, <4>2 DEF Agree
        <4>5. Key' = Key /\ splitchar'[node] = splitchar[node]
          BY <1>1, <4>1 DEF Key
        <4> HIDE InsertingFacts
        <4> QED BY <1>0, <1>5, <2>5, <4>3, <4>4, <4>5 DEF Way, Agree
      <3> QED BY <3>1, <3>2
    <2> QED BY <1>0, <1>4, <1>1, <2>2, <2>3, <2>4, <2>5
  <1>3. ASSUME NEW n \in Calloc, equal[node] = NULL, NewNode(n, Key, i + 1, Append(pre[node], splitchar[node])),
               equal' = [equal EXCEPT ![node] = n]
        PROVE  /\ Grown(node') /\ TypeOK' /\ Fresh' /\ InsertingAt'
               /\ \A n0, k0 : n0 = node /\ k0 = Key => Shape(n0)' /\ Way(n0, k0)'
    <2>1. n \in Nodes \ used /\ n # node
      BY DEF Calloc
    <2>2. \A m \in Nodes : equal'[m] = IF m = node THEN n ELSE equal[m]
      BY <1>3 DEF TypeOK
    <2>3. /\ used' = used \cup {n} /\ node' = n
          /\ used' \subseteq Nodes /\ splitchar' \in [Nodes -> Int]
          /\ pre' \in [Nodes -> Strings] /\ under' \in [Nodes -> SUBSET Names]
          /\ \A m \in used : /\ pre'[m] = pre[m] /\ splitchar'[m] = splitchar[m]
                             /\ under'[m] = under[m]
          /\ under'[n] = {Key} /\ pre'[n] = Append(pre[node], splitchar[node]) /\ n # NULL
      BY <1>0, <1>4, <1>3, <2>1, NewNodeGrows DEF NewNode
    <2>4. Grown(node')
      BY <1>0, <1>4, <1>1, <1>3, <2>1, <2>2, <2>3 DEF Grown, Fresh, TypeOK
    <2>5. TypeOK'
      <3>1. i' \in Nat
        BY <1>0
      <3>2. equal' \in [Nodes -> Pointers]
        BY <1>3, <2>1 DEF TypeOK, Pointers
      <3> QED BY <3>1, <3>2, <1>1, <2>1, <2>3 DEF TypeOK
    <2>6. Fresh' /\ InsertingAt'
      <3>1. Stored' = Stored
        BY <2>4, GrownStored
      <3>2. Fresh'
        BY <1>1, <2>1, <2>2, <2>3 DEF Fresh
      <3>3. Key' = Key /\ Inserting'
        BY <1>1 DEF Key, Inserting
      <3>4. Len(pre'[n]) = i' /\ i' < Len(Key) /\ Agree(Key, pre'[n], i')
        BY <1>0, <1>4, <2>3
      <3>5. Key \in under'[node'] /\ Key \in under'[root]
        BY <2>4 DEF Grown, InsertingAt, TypeOK
      <3>6. node' = n /\ n # NULL /\ root' = root /\ root # NULL /\ Key \notin Stored
        BY <1>1, <2>3 DEF InsertingAt
      <3> QED BY <3>1, <3>2, <3>3, <3>4, <3>5, <3>6 DEF InsertingAt, Agree
    <2>7. ASSUME NEW n0, NEW k0, n0 = node, k0 = Key PROVE Shape(n0)' /\ Way(n0, k0)'
      <3>1. Shape(n0)'
        BY <1>0, <1>4, <1>1, <2>1, <2>2, <2>3, <2>7 DEF Shape, Agree
      <3>2. Way(n0, k0)'
        <4>1. Len(pre[node]) = i /\ Agree(Key, pre[node], i)
          BY DEF InsertingAt
        <4>2. /\ pre'[node] = pre[node] /\ splitchar'[node] = splitchar[node]
              /\ equal'[node] = n /\ Key \in under'[n] /\ n # NULL
          BY <2>2, <2>3
        <4> HIDE InsertingFacts
        <4> QED BY <1>0, <1>5, <2>7, <4>1, <4>2 DEF Way, Agree
      <3> QED BY <3>1, <3>2
    <2> QED BY <2>4, <2>5, <2>6, <2>7
  <1> QED BY <1>0, <1>4, <1>1, <1>2, <1>3 DEF InsertEqual
LEMMA HighGrows ==
  ASSUME TypeOK, Shapes, Fresh, InsertingAt, Inserting, InsertHigh
  PROVE  /\ Grown(node') /\ TypeOK' /\ Fresh' /\ InsertingAt'
         /\ root' = root /\ reply' = reply
         /\ \A n0, k0 : n0 = node /\ k0 = Key => Shape(n0)' /\ Way(n0, k0)'
  <1> USE InsertingFacts
  <1>1. UNCHANGED <<root, low, equal, value, call, reply, i, last, lastnode, ckey>>
    BY DEF InsertHigh, OldNode, NewNode
  <1>2. CASE high[node] # NULL /\ OldNode(high[node], Key)
    <2>1. high[node] \in used /\ pre[high[node]] = pre[node]
      BY <1>2 DEF Shape
    <2>2. Grown(node')
      <3>1. /\ \A m \in used : under'[m] = IF m = high[node] THEN under[m] \cup {Key}
                                                            ELSE under[m]
            /\ high[node] # NULL /\ high[node] \in Nodes
        BY <1>2, <2>1, OldNodeGrows DEF TypeOK
      <3>2. node' = high[node] /\ UNCHANGED <<used, splitchar, high, pre>>
        BY <1>2 DEF OldNode
      <3> QED BY <1>1, <2>1, <3>1, <3>2 DEF Grown
    <2>3. TypeOK'
      BY <1>1, <1>2, <2>1, OldNodeGrows DEF OldNode, TypeOK
    <2>4. Fresh' /\ InsertingAt'
      <3>1. Key' = Key /\ Inserting' /\ Fresh'
        BY <1>1, <1>2 DEF Key, Inserting, Fresh, OldNode
      <3>2. Stored' = Stored
        BY <2>2, GrownStored
      <3>3. Key \in under'[node'] /\ Key \in under'[root]
        BY <2>2 DEF Grown, InsertingAt, TypeOK
      <3> QED BY <1>1, <1>2, <2>1, <3>1, <3>2, <3>3 DEF InsertingAt, OldNode, Agree
    <2>5. ASSUME NEW n0, NEW k0, n0 = node, k0 = Key PROVE Shape(n0)' /\ Way(n0, k0)'
      <3>1. Shape(n0)'
        BY <1>1, <1>2, <2>1, <2>2, <2>5 DEF Shape, OldNode, Grown, Agree
      <3>2. Way(n0, k0)'
        BY <1>1, <1>2, <2>1, <2>2, <2>5 DEF Way, OldNode, Grown, InsertHigh, InsertingAt,
              Agree, Char
      <3> QED BY <3>1, <3>2
    <2> QED BY <1>1, <2>2, <2>3, <2>4, <2>5
  <1>3. ASSUME NEW n \in Calloc, high[node] = NULL, NewNode(n, Key, i, pre[node]),
               high' = [high EXCEPT ![node] = n]
        PROVE  /\ Grown(node') /\ TypeOK' /\ Fresh' /\ InsertingAt'
               /\ \A n0, k0 : n0 = node /\ k0 = Key => Shape(n0)' /\ Way(n0, k0)'
    <2>1. n \in Nodes \ used /\ n # node
      BY DEF Calloc
    <2>2. \A m \in Nodes : high'[m] = IF m = node THEN n ELSE high[m]
      BY <1>3 DEF TypeOK
    <2>3. /\ used' = used \cup {n} /\ node' = n
          /\ used' \subseteq Nodes /\ splitchar' \in [Nodes -> Int]
          /\ pre' \in [Nodes -> Strings] /\ under' \in [Nodes -> SUBSET Names]
          /\ \A m \in used : /\ pre'[m] = pre[m] /\ splitchar'[m] = splitchar[m]
                             /\ under'[m] = under[m]
          /\ under'[n] = {Key} /\ pre'[n] = pre[node] /\ n # NULL
      BY <1>3, <2>1, NewNodeGrows DEF NewNode
    <2>4. Grown(node')
      BY <1>1, <1>3, <2>1, <2>2, <2>3 DEF Grown, Fresh, TypeOK
    <2>5. TypeOK'
      BY <1>1, <1>3, <2>1, <2>3 DEF TypeOK, Pointers
    <2>6. Fresh' /\ InsertingAt'
      <3>1. Stored' = Stored
        BY <2>4, GrownStored
      <3>2. Key' = Key /\ Inserting' /\ Fresh'
        BY <1>1, <2>1, <2>2, <2>3 DEF Key, Inserting, Fresh
      <3>3. Key \in under'[node'] /\ Key \in under'[root]
        BY <2>4 DEF Grown, InsertingAt, TypeOK
      <3> QED BY <1>1, <2>3, <3>1, <3>2, <3>3 DEF InsertingAt, Agree
    <2>7. ASSUME NEW n0, NEW k0, n0 = node, k0 = Key PROVE Shape(n0)' /\ Way(n0, k0)'
      <3>1. Shape(n0)'
        BY <1>1, <2>1, <2>2, <2>3, <2>7 DEF Shape, Agree
      <3>2. Way(n0, k0)'
        BY <1>1, <2>1, <2>2, <2>3, <2>7 DEF Way, InsertHigh, InsertingAt, Agree, Char
      <3> QED BY <3>1, <3>2
    <2> QED BY <2>4, <2>5, <2>6, <2>7
  <1> QED BY <1>1, <1>2, <1>3 DEF InsertHigh
----------------------------------------------------------------------------
LEMMA InsertStep ==
  ASSUME TypeOK, TreeOK, InsertLow \/ InsertEqual \/ InsertHigh
  PROVE  TypeOK' /\ TreeOK' /\ Stored' = Stored /\ reply' = reply /\ call' = call
  <1> USE DEF TreeOK
  <1>1. Inserting
    BY DEF InsertLow, InsertEqual, InsertHigh, Running, Inserting
  <1>2. /\ Grown(node') /\ TypeOK' /\ Fresh' /\ InsertingAt'
        /\ root' = root /\ reply' = reply
        /\ \A n0, k0 : n0 = node /\ k0 = Key => Shape(n0)' /\ Way(n0, k0)'
    BY <1>1, LowGrows, EqualGrows, HighGrows
  <1>3. PICK n0, k0 : n0 = node /\ k0 = Key
    OBVIOUS
  <1>4. Shape(n0)' /\ Way(n0, k0)'
    BY <1>2, <1>3
  <1>5. Ways'
    BY <1>1, <1>2, <1>3, <1>4, GrownWays
  <1>6. Shapes'
    BY <1>2, <1>3, <1>4, GrownShapes
  <1>7. node \in used
    BY <1>1, InsertingFacts
  <1>8. Rooted'
    BY <1>1, <1>2, <1>7, GrownRooted
  <1>9. Stored' = Stored
    BY <1>2, GrownStored
  <1>10. call' = call /\ SearchingAt' /\ PrefixingAt'
    BY <1>1, <1>2 DEF Grown, Inserting, SearchingAt, PrefixingAt
  <1> QED BY <1>2, <1>5, <1>6, <1>8, <1>9, <1>10

LEMMA InsertValueStep ==
  ASSUME TypeOK, TreeOK, InsertValue
  PROVE  /\ TypeOK' /\ TreeOK' /\ Stored' = Stored \cup {Key}
         /\ Inserting /\ call' = Idle /\ reply' = [op |-> "insert", key |-> Key, ret |-> NULL]
  <1> USE DEF TreeOK
  <1>1. /\ Inserting /\ Char = splitchar[node] /\ i + 1 = Len(Key) /\ value[node] = NULL
        /\ UNCHANGED <<root, used, splitchar, low, equal, high, pre, under>>
        /\ value' = [value EXCEPT ![node] = Key] /\ Return(NULL)
    BY DEF InsertValue, AtEnd, Running, Inserting
  <1>2. /\ node \in used /\ node \in Nodes /\ Key \in Names /\ Key \in Seq(Int) /\ Key # NULL
        /\ i \in Nat
    BY <1>1, InsertingFacts, NameFacts DEF TypeOK
  <1>3. /\ call' = Idle /\ reply' = [op |-> "insert", key |-> Key, ret |-> NULL]
        /\ call.op = "insert"
    BY <1>1 DEF Return, Inserting
  <1>4. TypeOK'
    BY <1>1, <1>2, <1>3 DEF TypeOK, Return, Strings
  <1>5. /\ value'[node] = Key /\ \A m \in Nodes \ {node} : value'[m] = value[m]
        /\ used \subseteq Nodes
    BY <1>1, <1>2 DEF TypeOK
  <1>6. Stored' = Stored \cup {Key}
    BY <1>1, <1>2, <1>5 DEF Stored
  <1>7. ~Inserting'
    BY <1>3, NotCalling DEF Inserting
  <1>8. Len(pre[node]) = i /\ Agree(Key, pre[node], i) /\ Key \in under[node]
    BY <1>1 DEF InsertingAt
  <1>9. Ways'
    <2> SUFFICES ASSUME NEW n \in used, NEW k \in under[n] PROVE Way(n, k)'
      BY <1>1 DEF Ways
    <2>1. CASE n = node /\ k = Key
      BY <1>1, <1>2, <1>5, <1>8, <2>1 DEF Way, Agree, Char
    <2>2. CASE ~(n = node /\ k = Key)
      <3>1. Way(n, k) /\ k # NULL
        BY <2>2, NullAssumption DEF Ways, TypeOK
      <3> QED BY <1>1, <1>5, <3>1 DEF Way, Agree
    <2> QED BY <2>1, <2>2
  <1>10. Shapes'
    <2> SUFFICES ASSUME NEW n \in used PROVE Shape(n)'
      BY <1>1 DEF Shapes
    <2>1. CASE n = node
      BY <1>1, <1>2, <1>5, <1>8, <2>1 DEF Shapes, Shape, Agree, Char
    <2>2. CASE n # node
      BY <1>1, <1>5, <2>2 DEF Shapes, Shape, Agree
    <2> QED BY <2>1, <2>2
  <1>11. Fresh'
    BY <1>1, <1>2, <1>5 DEF Fresh
  <1>12. Rooted'
    BY <1>1, <1>6, <1>7 DEF Rooted, InsertingAt
  <1>13. InsertingAt' /\ SearchingAt' /\ PrefixingAt'
    BY <1>3, <1>7, NotCalling DEF InsertingAt, SearchingAt, PrefixingAt
  <1> QED BY <1>1, <1>3, <1>4, <1>6, <1>9, <1>10, <1>11, <1>12, <1>13

\* Names that have come on the way stay there.
LEMMA MoreUnder ==
  ASSUME NEW n \in used, NEW k, Way(n, k), Shape(n),
         \A m \in used : under[m] \subseteq under'[m],
         UNCHANGED <<low, equal, high, value>>, pre'[n] = pre[n], splitchar'[n] = splitchar[n]
  PROVE  Way(n, k)'
  BY DEF Way, Shape, Agree

LEMMA InsertBegins ==
  ASSUME TypeOK, TreeOK, ReplyOK, NEW k \in Names, TSTree_insert(k)
  PROVE  /\ TypeOK' /\ TreeOK' /\ Stored' = Stored
         /\ call = Idle /\ call' = [op |-> "insert", key |-> k] /\ reply' = NoReply
  <1> USE DEF TreeOK
  <1>1. /\ call = Idle /\ call' = [op |-> "insert", key |-> k] /\ reply' = NoReply
        /\ i' = 0 /\ last' = NULL /\ lastnode' = NULL /\ ckey' = <<>>
        /\ UNCHANGED <<low, equal, high, value>>
        /\ k \notin Stored
    BY DEF TSTree_insert, Begin, MayInsert, ReplyOK, OldNode, NewNode
  <1>2. ~Inserting /\ Inserting' /\ Key' = k
    BY <1>1, NotCalling DEF Inserting, Key
  <1>3. k \in Seq(Int) /\ Len(k) \in Nat /\ Len(k) > 0 /\ k[1] \in Int
    BY NameFacts
  <1>4. call' \in Calls /\ ckey' \in Strings /\ reply' \in {NoReply}
    BY <1>1 DEF Calls, Map!Calls, Strings
  <1>5. CASE root # NULL /\ OldNode(root, k)
    <2>1. /\ root \in used /\ node' = root /\ under' \in [Nodes -> SUBSET Names]
          /\ \A m \in used : under'[m] = IF m = root THEN under[m] \cup {k} ELSE under[m]
          /\ UNCHANGED <<used, root, splitchar, low, equal, high, value, pre>>
      BY <1>5 DEF OldNode, TypeOK
    <2>2. TypeOK'
      BY <1>1, <1>4, <2>1 DEF TypeOK
    <2>3. Stored' = Stored
      BY <2>1 DEF Stored
    <2>4. Ways'
      <3> SUFFICES ASSUME NEW n \in used, NEW q \in under'[n], ~(n = root /\ q = k)
                   PROVE Way(n, q)'
        BY <1>2, <2>1 DEF Ways
      <3>1. q \in under[n]
        BY <2>1
      <3>2. Way(n, q) /\ Shape(n)
        BY <1>2, <3>1 DEF Ways, Shapes
      <3>3. \A m \in used : under[m] \subseteq under'[m]
        BY <2>1
      <3> QED BY <2>1, <3>2, <3>3, MoreUnder
    <2>5. Shapes'
      BY <2>1 DEF Shapes, Shape, Agree
    <2>6. Fresh'
      BY <2>1 DEF Fresh
    <2>7. Rooted'
      BY <1>2, <2>1, <2>3 DEF Rooted
    <2>8. InsertingAt'
      <3>1. Len(pre'[root]) = 0
        BY <1>5, <2>1 DEF Rooted
      <3>2. node' = root /\ root' = root /\ root # NULL /\ k \notin Stored' /\ k \in under'[root]
        BY <1>1, <1>5, <2>1, <2>3
      <3> QED BY <1>1, <1>2, <1>3, <3>1, <3>2 DEF InsertingAt, Agree
    <2>9. SearchingAt' /\ PrefixingAt'
      BY <1>1 DEF SearchingAt, PrefixingAt
    <2> QED BY <1>1, <2>2, <2>3, <2>4, <2>5, <2>6, <2>7, <2>8, <2>9
  <1>6. ASSUME root = NULL, NEW n \in Calloc, NewNode(n, k, 0, <<>>), root' = n
        PROVE  TypeOK' /\ TreeOK' /\ Stored' = Stored
    <2>1. n \in Nodes \ used /\ n # NULL /\ used' \subseteq Nodes
      BY <1>6, NullAssumption DEF Calloc, NewNode, TypeOK
    <2>2. /\ splitchar' \in [Nodes -> Int] /\ pre' \in [Nodes -> Strings]
          /\ under' \in [Nodes -> SUBSET Names]
          /\ \A m \in used : /\ pre'[m] = pre[m] /\ splitchar'[m] = splitchar[m]
                             /\ under'[m] = under[m]
          /\ under'[n] = {k} /\ pre'[n] = <<>> /\ used' = used \cup {n} /\ node' = n
      BY <1>3, <1>6, <2>1 DEF NewNode, TypeOK, Strings
    <2>3. TypeOK'
      BY <1>1, <1>4, <1>6, <2>1, <2>2 DEF TypeOK
    <2>4. Stored' = Stored /\ Stored = {}
      <3>1. Stored = {}
        BY <1>6 DEF Rooted
      <3>2. value'[n] = NULL /\ used' = used \cup {n} /\ value' = value
        BY <1>1, <2>1, <2>2 DEF Fresh
      <3> QED BY <3>1, <3>2 DEF Stored
    <2>5. Ways'
      <3> SUFFICES ASSUME NEW m \in used, NEW q \in under'[m] PROVE Way(m, q)'
        BY <1>2, <2>2 DEF Ways
      <3>1. q \in under[m] /\ Way(m, q) /\ Shape(m)
        BY <1>2, <2>2 DEF Ways, Shapes
      <3> QED BY <1>1, <2>2, <3>1, MoreUnder
    <2>6. Shapes'
      <3> SUFFICES ASSUME NEW m \in used' PROVE Shape(m)'
        BY DEF Shapes
      <3>1. CASE m = n
        BY <1>1, <2>1, <3>1 DEF Shape, Fresh
      <3>2. CASE m \in used
        <4>1. Shape(m) /\ UNCHANGED <<low, equal, high, value>>
          BY <1>1, <3>2 DEF Shapes
        <4>2. \A x \in used : pre'[x] = pre[x] /\ splitchar'[x] = splitchar[x]
                              /\ under'[x] = under[x] /\ x \in used'
          BY <2>2
        <4> QED BY <3>2, <4>1, <4>2 DEF Shape, Agree
      <3> QED BY <2>2, <3>1, <3>2
    <2>7. Fresh'
      BY <1>1, <2>2 DEF Fresh
    <2>8. Rooted'
      BY <1>2, <1>6, <2>2, <2>4 DEF Rooted
    <2>9. InsertingAt'
      <3>1. Len(pre'[n]) = 0 /\ k \notin Stored' /\ k \in under'[n]
        BY <1>1, <2>2, <2>4
      <3> QED BY <1>1, <1>2, <1>3, <1>6, <2>1, <2>2, <3>1 DEF InsertingAt, Agree
    <2>10. SearchingAt' /\ PrefixingAt'
      BY <1>1 DEF SearchingAt, PrefixingAt
    <2> QED BY <2>3, <2>4, <2>5, <2>6, <2>7, <2>8, <2>9, <2>10
  <1>7. TypeOK' /\ TreeOK' /\ Stored' = Stored
    BY <1>5, <1>6 DEF TSTree_insert
  <1> QED BY <1>1, <1>7
----------------------------------------------------------------------------
(* The searches leave the tree alone. *)

LEMMA TreeStays ==
  ASSUME TreeOK, UNCHANGED tree, ~Inserting, ~Inserting'
  PROVE  /\ Ways' /\ Shapes' /\ Fresh' /\ Rooted' /\ InsertingAt' /\ Stored' = Stored
         /\ Ways /\ Shapes /\ Rooted
  <1>1. Ways'
    BY DEF TreeOK, tree, Ways, Way, Agree
  <1>2. Shapes' /\ Fresh'
    BY DEF TreeOK, tree, Shapes, Shape, Fresh, Agree
  <1>3. Stored' = Stored
    BY DEF tree, Stored
  <1>4. Rooted'
    BY <1>3 DEF TreeOK, tree, Rooted
  <1>5. InsertingAt'
    BY DEF InsertingAt
  <1> QED BY <1>1, <1>2, <1>3, <1>4, <1>5 DEF TreeOK

LEMMA SearchBegins ==
  ASSUME TypeOK, TreeOK, NEW k \in Names,
         TSTree_search(k) \/ TSTree_search_prefix(k) \/ TSTree_collect(k)
  PROVE  /\ TypeOK' /\ TreeOK' /\ Stored' = Stored
         /\ call = Idle /\ reply' = NoReply /\ call' \in Calls
  <1>1. PICK op \in {"search", "prefix", "collect"} :
          /\ call = Idle /\ call' = [op |-> op, key |-> k] /\ reply' = NoReply
          /\ i' = 0 /\ last' = NULL /\ lastnode' = NULL /\ ckey' = <<>>
          /\ node' = root /\ UNCHANGED tree
    BY DEF TSTree_search, TSTree_search_prefix, TSTree_collect, Begin
  <1>2. ~Inserting /\ ~Inserting' /\ Key' = k
    BY <1>1, NotCalling DEF Inserting, Key
  <1>3. call' \in Calls /\ ckey' \in Strings /\ reply' \in {NoReply}
    BY <1>1 DEF Calls, Map!Calls, Strings
  <1>4. TypeOK'
    BY <1>1, <1>3 DEF TypeOK, tree
  <1>5. /\ Ways' /\ Shapes' /\ Fresh' /\ Rooted' /\ InsertingAt' /\ Stored' = Stored
        /\ Ways /\ Shapes /\ Rooted
    BY <1>1, <1>2, TreeStays
  <1>6. /\ k \in Seq(Int) /\ Len(k) \in Nat /\ Len(k) > 0
        /\ \A q \in Stored : q \in Names /\ Len(q) \in Nat /\ Len(q) > 0
    BY NameFacts DEF Stored, TypeOK
  <1>7. SearchingAt'
    BY <1>1, <1>2, <1>5, <1>6 DEF SearchingAt, Rooted, Agree, tree
  <1>8. PrefixingAt'
    BY <1>1, <1>2, <1>5, <1>6 DEF PrefixingAt, Rooted, Agree, tree
  <1> QED BY <1>1, <1>3, <1>4, <1>5, <1>7, <1>8 DEF TreeOK

\* Where a search is inside its loop.
LEMMA LoopFacts ==
  ASSUME TypeOK, TreeOK, InLoop, call.op \in {"search", "prefix", "collect"}
  PROVE  /\ node \in used /\ node # NULL /\ Shape(node) /\ ~Inserting
         /\ Key \in Names /\ Key \in Seq(Int) /\ i \in 0 .. Len(Key) - 1 /\ Char \in Int
         /\ splitchar[node] \in Int /\ pre[node] \in Seq(Int)
         /\ \A k \in under[node] : Way(node, k)
  <1>1. Key \in Names /\ Key \in Seq(Int)
    BY CallFacts
  <1>2. node \in used /\ node # NULL /\ ~Inserting
    BY DEF InLoop, TypeOK, Inserting
  <1>3. \A k \in under[node] : Way(node, k)
    BY <1>2 DEF TreeOK, Ways
  <1> QED BY <1>1, <1>2, <1>3 DEF InLoop, TypeOK, TreeOK, Shapes, Char, Strings

LEMMA StoredNames ==
  ASSUME TypeOK
  PROVE  \A q \in Stored : q \in Names /\ q \in Seq(Int) /\ Len(q) \in Nat /\ Len(q) > 0
  <1>1. \A q \in Stored : q \in Names
    BY DEF TypeOK, Stored
  <1> QED BY <1>1, NameFacts

\* Name q and key k agree on the character behind the first j when k extends q.
LEMMA ExtendsFacts ==
  ASSUME NEW k \in Seq(Int), NEW q \in Seq(Int), Extends(k, q)
  PROVE  Len(q) < Len(k) /\ \A j \in 1 .. Len(q) : q[j] = k[j]
  BY DEF Extends, Map!Extends

LEMMA AsideStep ==
  ASSUME TypeOK, TreeOK, GoAside
  PROVE  TypeOK' /\ TreeOK' /\ Stored' = Stored /\ UNCHANGED <<call, reply>>
  <1>1. /\ call.op \in {"search", "prefix", "collect"} /\ InLoop
        /\ UNCHANGED <<tree, call, reply, i, last, lastnode, ckey, array>>
        /\ \/ Char < splitchar[node] /\ node' = low[node]
           \/ Char > splitchar[node] /\ node' = high[node]
    BY DEF GoAside
  <1>2. /\ node \in used /\ node # NULL /\ Shape(node) /\ ~Inserting
        /\ Key \in Seq(Int) /\ i \in 0 .. Len(Key) - 1 /\ Char \in Int
        /\ splitchar[node] \in Int
        /\ \A k \in under[node] : Way(node, k)
    BY <1>1, LoopFacts
  <1>3. node' # NULL => node' \in used /\ pre[node'] = pre[node]
    BY <1>1, <1>2 DEF Shape
  <1>4. TypeOK'
    BY <1>1, <1>3 DEF TypeOK, tree
  <1>5. ~Inserting' /\ Key' = Key
    BY <1>1, <1>2 DEF Inserting, Key
  <1>6. Ways' /\ Shapes' /\ Fresh' /\ Rooted' /\ InsertingAt' /\ Stored' = Stored
    BY <1>1, <1>2, <1>5, TreeStays
  <1>7. \A k \in under[node] : Len(pre[node]) = i /\ k[i + 1] = Char
                                => node' # NULL /\ k \in under[node']
    BY <1>1, <1>2 DEF Way
  <1>8. SearchingAt'
    <2> SUFFICES ASSUME call.op = "search" PROVE SearchingAt'
      BY <1>1 DEF SearchingAt
    <2>1. /\ Len(pre[node]) = i /\ Agree(Key, pre[node], i)
          /\ Key \in Stored => Key \in under[node]
      BY <1>2, TreeOK DEF TreeOK, SearchingAt
    <2>2. Key \in Stored => node' # NULL /\ Key \in under[node']
      BY <1>7, <2>1 DEF Char
    <2> QED BY <1>1, <1>2, <1>3, <1>5, <1>6, <2>1, <2>2 DEF SearchingAt, Agree, tree
  <1>9. PrefixingAt'
    <2> SUFFICES ASSUME call.op = "prefix" PROVE PrefixingAt'
      BY <1>1 DEF PrefixingAt
    <2>1. /\ Len(pre[node]) = i /\ Agree(Key, pre[node], i)
          /\ \A q \in Stored : Extends(Key, q) /\ Len(q) > i => q \in under[node]
      BY <1>2 DEF TreeOK, PrefixingAt
    <2>2. ASSUME NEW q \in Stored, Extends(Key, q), Len(q) > i
          PROVE  node' # NULL /\ q \in under[node']
      <3>1. q[i + 1] = Char
        BY <1>2, <2>2, StoredNames, ExtendsFacts DEF Char
      <3> QED BY <1>7, <2>1, <2>2, <3>1
    <2>3. node' = NULL => \A q \in Stored : Extends(Key, q) => Len(q) <= i
      BY <1>2, <2>2, StoredNames
    <2>4. /\ last = NULL => \A q \in Stored : Extends(Key, q) => Len(q) > i
          /\ last # NULL => /\ last \in Stored /\ Extends(Key, last)
                            /\ \A q \in Stored : Extends(Key, q) /\ Len(q) <= i
                                                => Len(q) <= Len(last)
      BY DEF TreeOK, PrefixingAt
    <2> QED BY <1>1, <1>2, <1>3, <1>5, <1>6, <2>1, <2>2, <2>3, <2>4
            DEF PrefixingAt, Agree, tree, Extends, Map!Extends
  <1> QED BY <1>1, <1>4, <1>6, <1>8, <1>9 DEF TreeOK

\* The child on the way to the next character has this one behind it.
LEMMA NextNode ==
  ASSUME NEW n \in used, Shape(n), equal[n] # NULL, pre[n] \in Seq(Int), splitchar[n] \in Int,
         i \in Nat, Len(pre[n]) = i, Agree(Key, pre[n], i), Key[i + 1] = splitchar[n]
  PROVE  Len(pre[equal[n]]) = i + 1 /\ Agree(Key, pre[equal[n]], i + 1)
  <1>1. pre[equal[n]] = Append(pre[n], splitchar[n])
    BY DEF Shape
  <1>2. Len(pre[equal[n]]) = i + 1
    BY <1>1
  <1>3. ASSUME NEW m \in 1 .. i + 1 PROVE Key[m] = pre[equal[n]][m]
    <2>1. CASE m = i + 1
      BY <1>1, <2>1
    <2>2. CASE m \in 1 .. i
      <3>1. pre[equal[n]][m] = pre[n][m]
        BY <1>1, <2>2
      <3> QED BY <2>2, <3>1 DEF Agree
    <2> QED BY <2>1, <2>2
  <1> QED BY <1>2, <1>3 DEF Agree

LEMMA SearchEqualStep ==
  ASSUME TypeOK, TreeOK, SearchEqual
  PROVE  TypeOK' /\ TreeOK' /\ Stored' = Stored /\ UNCHANGED <<call, reply>>
  <1>1. /\ call.op = "search" /\ InLoop /\ Char = splitchar[node] /\ i' = i + 1
        /\ node' = IF i + 1 < Len(Key) THEN equal[node] ELSE node
        /\ UNCHANGED <<tree, call, reply, last, lastnode, ckey, array>>
    BY DEF SearchEqual, Running
  <1>2. /\ node \in used /\ node # NULL /\ Shape(node) /\ ~Inserting
        /\ Key \in Seq(Int) /\ i \in 0 .. Len(Key) - 1 /\ Char \in Int
        /\ splitchar[node] \in Int /\ pre[node] \in Seq(Int)
        /\ \A k \in under[node] : Way(node, k)
    BY <1>1, LoopFacts
  <1>3. TypeOK'
    <2>1. node' \in used \cup {NULL} /\ i' \in Nat
      BY <1>1, <1>2 DEF Shape
    <2> QED BY <1>1, <2>1 DEF TypeOK, tree
  <1>4. ~Inserting' /\ Key' = Key
    BY <1>1, <1>2 DEF Inserting, Key
  <1>5. Ways' /\ Shapes' /\ Fresh' /\ Rooted' /\ InsertingAt' /\ Stored' = Stored
    BY <1>1, <1>2, <1>4, TreeStays
  <1>6. /\ Len(pre[node]) = i /\ Agree(Key, pre[node], i)
        /\ Key \in Stored => Key \in under[node]
    BY <1>1, <1>2 DEF TreeOK, SearchingAt
  <1>7. SearchingAt'
    <2>1. CASE i + 1 < Len(Key)
      <3>1. Key \in Stored => equal[node] # NULL /\ Key \in under[equal[node]]
        BY <1>1, <1>2, <1>6, <2>1 DEF Way, Char
      <3>2. equal[node] # NULL => /\ Len(pre[equal[node]]) = i + 1
                                  /\ Agree(Key, pre[equal[node]], i + 1)
        BY <1>1, <1>2, <1>6, NextNode DEF Char
      <3> QED BY <1>1, <1>2, <1>4, <1>5, <2>1, <3>1, <3>2 DEF SearchingAt, Agree, tree
    <2>2. CASE i + 1 = Len(Key)
      BY <1>1, <1>2, <1>4, <1>5, <1>6, <2>2 DEF SearchingAt, Agree, tree, Char
    <2> QED BY <1>2, <2>1, <2>2
  <1>8. PrefixingAt'
    BY <1>1 DEF PrefixingAt
  <1> QED BY <1>1, <1>3, <1>5, <1>7, <1>8 DEF TreeOK

LEMMA ReturnStays ==
  ASSUME TypeOK, TreeOK, UNCHANGED tree, call.op \in {"search", "prefix", "collect"},
         NEW r \in Names \cup {NULL}, Return(r)
  PROVE  /\ TypeOK' /\ TreeOK' /\ Stored' = Stored /\ call \in Calls
         /\ call' = Idle /\ reply' = [op |-> call.op, key |-> Key, ret |-> r]
  <1>1. /\ call' = Idle /\ reply' = [op |-> call.op, key |-> Key, ret |-> r]
        /\ node' = NULL /\ i' = 0 /\ last' = NULL /\ lastnode' = NULL /\ ckey' = <<>>
    BY DEF Return
  <1>2. call \in Calls /\ Key \in Names
    BY CallFacts
  <1>3. TypeOK'
    BY <1>1, <1>2 DEF TypeOK, tree, Strings
  <1>4. ~Inserting /\ ~Inserting'
    BY <1>1, NotCalling DEF Inserting
  <1>5. Ways' /\ Shapes' /\ Fresh' /\ Rooted' /\ InsertingAt' /\ Stored' = Stored
    BY <1>4, TreeStays
  <1>6. SearchingAt' /\ PrefixingAt'
    BY <1>1, NotCalling DEF SearchingAt, PrefixingAt
  <1> QED BY <1>1, <1>2, <1>3, <1>5, <1>6 DEF TreeOK

LEMMA SearchReturnStep ==
  ASSUME TypeOK, TreeOK, SearchReturn
  PROVE  \E r \in Names \cup {NULL} :
           /\ TypeOK' /\ TreeOK' /\ Stored' = Stored /\ call \in Calls
           /\ call' = Idle /\ reply' = [op |-> call.op, key |-> Key, ret |-> r]
           /\ call.op = "search" /\ r = IF Key \in Stored THEN Key ELSE NULL
  <1> DEFINE r == IF node = NULL THEN NULL ELSE value[node]
  <1>1. call.op = "search" /\ ~InLoop /\ Return(r) /\ UNCHANGED tree
    BY DEF SearchReturn, Running
  <1>2. r \in Names \cup {NULL}
    BY DEF TypeOK
  <1>3. Key \in Names /\ Key \in Seq(Int) /\ Key # NULL /\ ~Inserting /\ i \in Nat
    BY <1>1, CallFacts, NameFacts DEF Inserting, TypeOK
  <1>4. r = IF Key \in Stored THEN Key ELSE NULL
    <2>1. CASE node = NULL
      BY <1>1, <2>1 DEF TreeOK, SearchingAt
    <2>2. CASE node # NULL
      <3>1. node \in used /\ Shape(node) /\ i = Len(Key) /\ pre[node] \in Seq(Int)
        BY <1>1, <1>3, <2>2 DEF TypeOK, TreeOK, Shapes, InLoop, SearchingAt, Strings
      <3>2. /\ Key \in Stored => Key \in under[node]
            /\ Len(pre[node]) = i - 1 /\ Agree(Key, pre[node], i - 1)
            /\ Key[i] = splitchar[node] /\ i > 0
        BY <1>1, <2>2, <3>1 DEF TreeOK, SearchingAt
      <3>3. Key \in Stored => value[node] = Key
        <4>1. Key \in Stored => Way(node, Key)
          BY <1>3, <3>1, <3>2 DEF TreeOK, Ways
        <4> QED BY <1>3, <3>1, <3>2, <4>1 DEF Way
      <3>4. value[node] # NULL => value[node] = Key
        <4> SUFFICES ASSUME value[node] # NULL PROVE value[node] = Key
          OBVIOUS
        <4>1. value[node] \in Seq(Int)
          BY <3>1, NamesAssumption DEF TypeOK
        <4>2. Len(value[node]) = Len(Key)
          BY <3>1, <3>2 DEF Shape
        <4>3. \A m \in 1 .. Len(Key) : value[node][m] = Key[m]
          BY <3>1, <3>2 DEF Shape, Agree
        <4> QED BY <1>3, <4>1, <4>2, <4>3, SameNames
      <3>5. value[node] # NULL => value[node] \in Stored
        BY <3>1 DEF Stored
      <3> QED BY <1>3, <2>2, <3>3, <3>4, <3>5
    <2> QED BY <2>1, <2>2
  <1>5. /\ TypeOK' /\ TreeOK' /\ Stored' = Stored /\ call \in Calls
        /\ call' = Idle /\ reply' = [op |-> call.op, key |-> Key, ret |-> r]
    BY <1>1, <1>2, ReturnStays
  <1> QED BY <1>1, <1>2, <1>4, <1>5

LEMMA PrefixEqualStep ==
  ASSUME TypeOK, TreeOK, PrefixEqual
  PROVE  TypeOK' /\ TreeOK' /\ Stored' = Stored /\ UNCHANGED <<call, reply>>
  <1>1. /\ call.op = "prefix" /\ InLoop /\ Char = splitchar[node] /\ i' = i + 1
        /\ UNCHANGED <<tree, call, reply, lastnode, ckey, array>>
        /\ \/ /\ i + 1 < Len(Key) /\ node' = equal[node]
              /\ last' = IF value[node] # NULL THEN value[node] ELSE last
           \/ i + 1 = Len(Key) /\ UNCHANGED <<last, node>>
    BY DEF PrefixEqual, Running
  <1>2. /\ node \in used /\ node # NULL /\ Shape(node) /\ ~Inserting
        /\ Key \in Seq(Int) /\ i \in 0 .. Len(Key) - 1 /\ Char \in Int
        /\ splitchar[node] \in Int /\ pre[node] \in Seq(Int)
        /\ \A k \in under[node] : Way(node, k)
    BY <1>1, LoopFacts
  <1>3. TypeOK'
    <2>1. node' \in used \cup {NULL} /\ i' \in Nat
      BY <1>1, <1>2 DEF Shape
    <2>2. last' \in Names \cup {NULL}
      BY <1>1, <1>2 DEF TypeOK
    <2> QED BY <1>1, <2>1, <2>2 DEF TypeOK, tree
  <1>4. ~Inserting' /\ Key' = Key
    BY <1>1, <1>2 DEF Inserting, Key
  <1>5. Ways' /\ Shapes' /\ Fresh' /\ Rooted' /\ InsertingAt' /\ Stored' = Stored
    BY <1>1, <1>2, <1>4, TreeStays
  <1>6. /\ Len(pre[node]) = i /\ Agree(Key, pre[node], i)
        /\ \A q \in Stored : Extends(Key, q) /\ Len(q) > i => q \in under[node]
        /\ last = NULL => \A q \in Stored : Extends(Key, q) => Len(q) > i
        /\ last # NULL => /\ last \in Stored /\ Extends(Key, last)
                          /\ \A q \in Stored : Extends(Key, q) /\ Len(q) <= i
                                              => Len(q) <= Len(last)
    BY <1>1, <1>2 DEF TreeOK, PrefixingAt
  <1>7. ASSUME NEW q \in Stored, Extends(Key, q), Len(q) > i
        PROVE  /\ Len(q) > i + 1 => equal[node] # NULL /\ q \in under[equal[node]]
               /\ Len(q) = i + 1 => value[node] = q
    <2>0. q \in Seq(Int) /\ Len(q) \in Nat /\ \A j \in 1 .. Len(q) : q[j] = Key[j]
      BY <1>2, <1>7, StoredNames, ExtendsFacts
    <2>1. q \in Seq(Int) /\ q[i + 1] = Char
      BY <1>2, <1>7, <2>0 DEF Char
    <2>2. Way(node, q)
      BY <1>2, <1>6, <1>7
    <2> QED BY <1>1, <1>2, <1>6, <1>7, <2>1, <2>2 DEF Way
  <1>8. value[node] # NULL => /\ value[node] \in Stored /\ Len(value[node]) = i + 1
                              /\ i + 1 < Len(Key) => Extends(Key, value[node])
    <2> SUFFICES ASSUME value[node] # NULL
                 PROVE  /\ value[node] \in Stored /\ Len(value[node]) = i + 1
                        /\ i + 1 < Len(Key) => Extends(Key, value[node])
      OBVIOUS
    <2>1. value[node] \in Stored /\ Len(value[node]) = i + 1
      BY <1>2, <1>6 DEF Stored, Shape
    <2>2. \A j \in 1 .. i + 1 : value[node][j] = Key[j]
      BY <1>1, <1>2, <1>6 DEF Shape, Agree, Char
    <2> QED BY <2>1, <2>2 DEF Extends, Map!Extends
  <1>9. \A q \in Stored : /\ q # NULL /\ Len(q) \in Nat
                          /\ Extends(Key, q) => Len(q) < Len(Key)
    BY <1>2, StoredNames, ExtendsFacts, NameFacts
  <1>10. PrefixingAt'
    <2>1. CASE i + 1 < Len(Key)
      <3>0. /\ node' = equal[node] /\ last' = IF value[node] # NULL THEN value[node] ELSE last
        BY <1>1, <2>1
      <3>1. last' = NULL => \A q \in Stored : Extends(Key, q) => Len(q) > i + 1
        BY <1>2, <1>6, <1>7, <1>9, <3>0
      <3>2. last' # NULL => /\ last' \in Stored /\ Extends(Key, last')
                            /\ \A q \in Stored : Extends(Key, q) /\ Len(q) <= i + 1
                                                => Len(q) <= Len(last')
        <4>0. i \in Nat
          BY <1>2
        <4>1. CASE value[node] # NULL
          BY <4>0, <1>8, <2>1, <3>0, <4>1
        <4>2. CASE value[node] = NULL
          <5>1. \A q \in Stored : Extends(Key, q) /\ Len(q) <= i + 1 => Len(q) <= i
            BY <4>0, <1>7, <1>9, <4>2
          <5> QED BY <1>6, <3>0, <4>2, <5>1
        <4> QED BY <4>1, <4>2
      <3>3. node' = NULL => \A q \in Stored : Extends(Key, q) => Len(q) <= i + 1
        <4> SUFFICES ASSUME node' = NULL, NEW q \in Stored, Extends(Key, q), Len(q) > i + 1
                     PROVE  FALSE
          BY <1>2, <1>9
        <4>1. Len(q) > i /\ Len(q) \in Nat
          BY <1>2, <1>9
        <4> QED BY <1>7, <3>0, <4>1
      <3>4. node' # NULL => Len(pre[node']) = i + 1 /\ Agree(Key, pre[node'], i + 1)
        BY <1>1, <1>2, <1>6, <3>0, NextNode DEF Char
      <3>5. \A q \in Stored : Extends(Key, q) /\ Len(q) > i + 1 => q \in under[node']
        BY <1>2, <1>7, <1>9, <3>0
      <3> QED BY <1>1, <1>2, <1>4, <1>5, <2>1, <3>1, <3>2, <3>3, <3>4, <3>5
              DEF PrefixingAt, Agree, tree, Extends, Map!Extends
    <2>2. CASE i + 1 = Len(Key)
      <3>0. node' = node /\ last' = last
        BY <1>1, <2>2
      <3>1. last' = NULL => \A q \in Stored : Extends(Key, q) => Len(q) > i + 1
        BY <1>2, <1>6, <1>9, <2>2, <3>0
      <3>2. last' # NULL => /\ last' \in Stored /\ Extends(Key, last')
                            /\ \A q \in Stored : Extends(Key, q) /\ Len(q) <= i + 1
                                                => Len(q) <= Len(last')
        BY <1>2, <1>6, <1>9, <2>2, <3>0
      <3> QED BY <1>1, <1>2, <1>4, <1>5, <2>2, <3>0, <3>1, <3>2
              DEF PrefixingAt, Extends, Map!Extends
    <2> QED BY <1>2, <2>1, <2>2
  <1>11. SearchingAt'
    BY <1>1 DEF SearchingAt
  <1> QED BY <1>1, <1>3, <1>5, <1>10, <1>11 DEF TreeOK

LEMMA PrefixReturnStep ==
  ASSUME TypeOK, TreeOK, PrefixReturn
  PROVE  /\ TypeOK' /\ TreeOK' /\ Stored' = Stored /\ call \in Calls /\ last \in Names \cup {NULL}
         /\ call' = Idle /\ reply' = [op |-> call.op, key |-> Key, ret |-> last]
         /\ call.op = "prefix"
         /\ last = NULL => \A q \in Stored : ~Extends(Key, q)
         /\ last # NULL => /\ last \in Stored /\ Extends(Key, last)
                           /\ \A q \in Stored : Extends(Key, q) => Len(q) <= Len(last)
  <1>1. call.op = "prefix" /\ ~InLoop /\ Return(last) /\ UNCHANGED tree
    BY DEF PrefixReturn, Running
  <1>2. last \in Names \cup {NULL} /\ i \in Nat /\ Key \in Seq(Int)
    BY <1>1, CallFacts DEF TypeOK
  <1>3. \A q \in Stored : Len(q) \in Nat /\ (Extends(Key, q) => Len(q) < Len(Key))
    BY <1>2, StoredNames, ExtendsFacts
  <1>4. \A q \in Stored : Extends(Key, q) => Len(q) <= i
    BY <1>1, <1>2, <1>3 DEF InLoop, TreeOK, PrefixingAt
  <1>5. /\ last = NULL => \A q \in Stored : Extends(Key, q) => Len(q) > i
        /\ last # NULL => /\ last \in Stored /\ Extends(Key, last)
                          /\ \A q \in Stored : Extends(Key, q) /\ Len(q) <= i
                                              => Len(q) <= Len(last)
    BY <1>1 DEF TreeOK, PrefixingAt
  <1>6. /\ TypeOK' /\ TreeOK' /\ Stored' = Stored /\ call \in Calls
        /\ call' = Idle /\ reply' = [op |-> call.op, key |-> Key, ret |-> last]
    BY <1>1, <1>2, ReturnStays
  <1> QED BY <1>1, <1>2, <1>3, <1>4, <1>5, <1>6

LEMMA CollectStep ==
  ASSUME TypeOK, TreeOK, CollectEqual \/ CollectDown
  PROVE  TypeOK' /\ TreeOK' /\ Stored' = Stored /\ UNCHANGED <<call, reply>>
  <1>1. call.op = "collect" /\ UNCHANGED <<tree, call, reply, last>>
    BY DEF CollectEqual, CollectDown, Running
  <1>2. TypeOK'
    <2>1. CASE CollectEqual
      <3>1. /\ node \in used /\ node # NULL /\ Shape(node) /\ splitchar[node] \in Int
            /\ i \in Nat
        BY <1>1, <2>1, LoopFacts DEF CollectEqual, TypeOK
      <3>2. /\ node' \in used \cup {NULL} /\ lastnode' \in used \cup {NULL}
            /\ ckey' \in Strings /\ i' \in Nat
        <4>1. /\ i' = i + 1
              /\ node' = equal[node] \/ node' = node
              /\ lastnode' = node \/ lastnode' = lastnode
              /\ ckey' = Append(ckey, splitchar[node]) \/ ckey' = ckey
          BY <2>1 DEF CollectEqual, Keycat
        <4>2. ckey \in Seq(Int) /\ lastnode \in used \cup {NULL}
          BY DEF TypeOK, Strings
        <4>3. equal[node] \in used \cup {NULL}
          BY <3>1 DEF Shape
        <4>4. Append(ckey, splitchar[node]) \in Seq(Int)
          BY <3>1, <4>2
        <4> QED BY <3>1, <4>1, <4>2, <4>3, <4>4 DEF Strings
      <3> QED BY <1>1, <3>2 DEF TypeOK, tree
    <2>2. CASE CollectDown
      <3>1. Found \in used /\ splitchar[Found] \in Int
        BY <2>2 DEF CollectDown, Found, TypeOK
      <3>2. Shape(Found)
        BY <3>1 DEF TreeOK, Shapes
      <3>3. /\ node' \in used \cup {NULL} /\ lastnode' = NULL
            /\ ckey' \in Strings /\ i' = i
        BY <2>2, <3>1, <3>2 DEF CollectDown, Shape, Keycat, TypeOK, Strings
      <3> QED BY <1>1, <3>3 DEF TypeOK, tree
    <2> QED BY <2>1, <2>2
  <1>3. ~Inserting /\ ~Inserting'
    BY <1>1 DEF Inserting
  <1>4. Ways' /\ Shapes' /\ Fresh' /\ Rooted' /\ InsertingAt' /\ Stored' = Stored
    BY <1>1, <1>3, TreeStays
  <1>5. SearchingAt' /\ PrefixingAt'
    BY <1>1 DEF SearchingAt, PrefixingAt
  <1> QED BY <1>1, <1>2, <1>4, <1>5 DEF TreeOK
----------------------------------------------------------------------------
(* The invariant and the refinement. *)

LEMMA IInvInit ==
  ASSUME Init
  PROVE  IInv /\ Map!MapInit
  <1>1. Stored = {}
    BY DEF Init, Stored
  <1>2. TypeOK
    BY DEF Init, TypeOK, Strings, Pointers
  <1>3. TreeOK
    BY <1>1, NotCalling DEF Init, TreeOK, Ways, Shapes, Fresh, Rooted, InsertingAt, SearchingAt,
          PrefixingAt, Inserting
  <1>4. ReplyOK /\ Map!MapInit
    BY <1>1, NotCalling DEF Init, ReplyOK, Map!MapInit, Idle, NoReply
  <1> QED BY <1>2, <1>3, <1>4 DEF IInv

\* No action is left when calloc has failed or a collection has gone astray.
LEMMA Lives ==
  ASSUME Next
  PROVE  call # Aborted
  BY NotCalling DEF Next, TSTree_insert, TSTree_search, TSTree_search_prefix, TSTree_collect,
     Begin, Insert, InsertLow, InsertEqual, InsertHigh, InsertValue, AtEnd, Search, GoAside,
     SearchEqual, SearchReturn, PrefixEqual, PrefixReturn, Collect, CollectEqual, CollectDown,
     CollectReturn, CollectFails, CollectFaults, NoMemory, Running

LEMMA MapReturns ==
  ASSUME NEW r \in Names \cup {NULL}, call \in Calls,
         Stored' = Stored \cup (IF call.op = "insert" THEN {call.key} ELSE {}),
         Map!Answers(call, Stored, r),
         reply' = [op |-> call.op, key |-> call.key, ret |-> r], call' = Idle
  PROVE  Map!MapNext
  BY DEF Map!MapNext, Map!MapReturn, Calls, Idle

LEMMA IInvNext ==
  ASSUME IInv, Next
  PROVE  IInv' /\ [Map!MapNext]_(Map!mapvars)
  <1>1. TypeOK /\ ReplyOK /\ TreeOK
    BY Lives DEF IInv
  <1>2. ASSUME NEW k \in Names,
               \/ TSTree_insert(k) \/ TSTree_search(k)
               \/ TSTree_search_prefix(k) \/ TSTree_collect(k)
        PROVE  IInv' /\ Map!MapNext
    <2>1. /\ TypeOK' /\ TreeOK' /\ Stored' = Stored
          /\ call = Idle /\ reply' = NoReply /\ call' \in Calls
      <3>1. CASE TSTree_insert(k)
        BY <1>1, <3>1, InsertBegins DEF Calls, Map!Calls
      <3>2. CASE ~TSTree_insert(k)
        BY <1>1, <1>2, <3>2, SearchBegins
      <3> QED BY <3>1, <3>2
    <2>2. ReplyOK'
      BY <2>1, NotCalling DEF ReplyOK
    <2>3. Map!MapNext
      BY <2>1 DEF Map!MapNext, Map!MapCall, Calls, Idle, NoReply
    <2> QED BY <2>1, <2>2, <2>3 DEF IInv
  <1>3. ASSUME \/ InsertLow \/ InsertEqual \/ InsertHigh
               \/ GoAside \/ SearchEqual \/ PrefixEqual \/ CollectEqual \/ CollectDown
        PROVE  IInv' /\ UNCHANGED Map!mapvars
    <2>1. TypeOK' /\ TreeOK' /\ Stored' = Stored /\ call' = call /\ reply' = reply
      BY <1>1, <1>3, InsertStep, AsideStep, SearchEqualStep, PrefixEqualStep, CollectStep
    <2> QED BY <1>1, <2>1 DEF IInv, ReplyOK, Map!mapvars
  <1>4. ASSUME InsertValue PROVE IInv' /\ Map!MapNext
    <2>1. /\ TypeOK' /\ TreeOK' /\ Stored' = Stored \cup {Key} /\ call.op = "insert"
          /\ call' = Idle /\ reply' = [op |-> "insert", key |-> Key, ret |-> NULL]
      BY <1>1, <1>4, InsertValueStep DEF Inserting
    <2>2. call \in Calls
      BY <1>1, <2>1, CallFacts
    <2>3. Map!Answers(call, Stored, NULL)
      BY <2>1 DEF Map!Answers
    <2>4. Map!MapNext
      BY <2>1, <2>2, <2>3, MapReturns DEF Key
    <2> QED BY <2>1, <2>4 DEF IInv, ReplyOK
  <1>5. ASSUME SearchReturn PROVE IInv' /\ Map!MapNext
    <2>1. PICK r \in Names \cup {NULL} :
            /\ TypeOK' /\ TreeOK' /\ Stored' = Stored /\ call \in Calls
            /\ call' = Idle /\ reply' = [op |-> call.op, key |-> Key, ret |-> r]
            /\ call.op = "search" /\ r = IF Key \in Stored THEN Key ELSE NULL
      BY <1>1, <1>5, SearchReturnStep
    <2>2. Map!Answers(call, Stored, r)
      BY <2>1 DEF Map!Answers, Key
    <2>3. Map!MapNext
      BY <2>1, <2>2, MapReturns DEF Key
    <2>4. ReplyOK'
      <3>1. Key # NULL
        BY <1>1, <2>1, CallFacts, NameFacts
      <3> QED BY <2>1, <3>1 DEF ReplyOK
    <2> QED BY <2>1, <2>3, <2>4 DEF IInv
  <1>6. ASSUME PrefixReturn PROVE IInv' /\ Map!MapNext
    <2>1. /\ TypeOK' /\ TreeOK' /\ Stored' = Stored /\ call \in Calls /\ last \in Names \cup {NULL}
          /\ call' = Idle /\ reply' = [op |-> call.op, key |-> Key, ret |-> last]
          /\ call.op = "prefix"
          /\ last = NULL => \A q \in Stored : ~Extends(Key, q)
          /\ last # NULL => /\ last \in Stored /\ Extends(Key, last)
                            /\ \A q \in Stored : Extends(Key, q) => Len(q) <= Len(last)
      BY <1>1, <1>6, PrefixReturnStep
    <2>2. Map!Answers(call, Stored, last)
      BY <2>1 DEF Map!Answers, Key, Extends
    <2>3. Map!MapNext
      BY <2>1, <2>2, MapReturns DEF Key
    <2> QED BY <2>1, <2>3 DEF IInv, ReplyOK
  <1>7. ASSUME CollectReturn \/ CollectFails PROVE IInv' /\ Map!MapNext
    <2>1. call.op = "collect" /\ Return(NULL) /\ UNCHANGED tree
      BY <1>7 DEF CollectReturn, CollectFails, Running
    <2>2. /\ TypeOK' /\ TreeOK' /\ Stored' = Stored /\ call \in Calls
          /\ call' = Idle /\ reply' = [op |-> call.op, key |-> Key, ret |-> NULL]
      BY <1>1, <2>1, ReturnStays
    <2>3. Map!Answers(call, Stored, NULL)
      BY <2>1 DEF Map!Answers
    <2>4. Map!MapNext
      BY <2>1, <2>2, <2>3, MapReturns DEF Key
    <2> QED BY <2>1, <2>2, <2>4 DEF IInv, ReplyOK
  <1>8. ASSUME NoMemory \/ CollectFaults PROVE IInv' /\ Map!MapNext
    <2>1. call' = Aborted /\ UNCHANGED <<tree, reply, locals, array>>
      BY <1>8 DEF NoMemory, CollectFaults
    <2>2. call \in Calls \cup {Idle}
      BY <1>1, <1>8, Lives DEF Next, Collect, TypeOK
    <2>3. TypeOK'
      BY <1>1, <2>1 DEF TypeOK, tree, locals
    <2>4. Stored' = Stored /\ ReplyOK'
      BY <1>1, <2>1 DEF Stored, ReplyOK, tree
    <2>5. Map!MapNext
      BY <2>1, <2>2, <2>4 DEF Map!MapNext, Map!MapAbort, Calls, Idle, Aborted
    <2> QED BY <2>1, <2>3, <2>4, <2>5 DEF IInv
  <1> QED BY <1>2, <1>3, <1>4, <1>5, <1>6, <1>7, <1>8 DEF Next, Insert, Search, Collect

LEMMA IInvStays ==
  ASSUME IInv, UNCHANGED vars
  PROVE  IInv' /\ UNCHANGED Map!mapvars
  <1>1. Stored' = Stored /\ Key' = Key
    BY DEF vars, tree, Stored, Key
  <1>2. TypeOK' /\ ReplyOK'
    BY <1>1 DEF IInv, vars, tree, locals, TypeOK, ReplyOK
  <1>3. TreeOK => TreeOK'
    BY <1>1 DEF vars, tree, locals, TreeOK, Ways, Way, Shapes, Shape, Fresh, Rooted, InsertingAt,
          SearchingAt, PrefixingAt, Inserting, Agree, Extends, Map!Extends
  <1> QED BY <1>1, <1>2, <1>3 DEF IInv, vars, Map!mapvars

LEMMA SpecIInv == Spec => []IInv
  <1>1. Init => IInv
    BY IInvInit
  <1>2. IInv /\ [Next]_vars => IInv'
    BY IInvNext, IInvStays
  <1> QED BY <1>1, <1>2, PTL DEF Spec

\* Every node and every local of a call has its type: a node the tree points to
\* has been allocated, a value is a name.
THEOREM SpecTypeOK == Spec => []TypeOK
  <1>1. IInv => TypeOK
    BY DEF IInv
  <1> QED BY <1>1, SpecIInv, PTL

\* The assertion of TSTree_insert_base never fails: whatever was inserted, the
\* node a new name ends in has no value, because the search before the insertion
\* did not find the name.
THEOREM SpecNoDuplicateInsert == Spec => []NoDuplicateInsert
  <1>1. ASSUME IInv, AtEnd PROVE value[node] = NULL
    <2>1. /\ call.op = "insert" /\ Char = splitchar[node] /\ i + 1 = Len(Key)
          /\ TypeOK /\ TreeOK /\ Inserting
      BY <1>1, NotCalling DEF AtEnd, Running, IInv, Inserting
    <2>2. /\ node \in used /\ node \in Nodes /\ Shape(node) /\ Key \in Seq(Int)
          /\ pre[node] \in Seq(Int)
      BY <2>1, InsertingFacts DEF TreeOK, Strings
    <2>3. Len(pre[node]) = i /\ Agree(Key, pre[node], i) /\ Key \notin Stored /\ i \in Nat
      BY <2>1 DEF TreeOK, InsertingAt, TypeOK
    <2> SUFFICES ASSUME value[node] # NULL PROVE FALSE
      OBVIOUS
    <2>4. value[node] \in Seq(Int) /\ value[node] \in Stored
      BY <2>1, <2>2, NamesAssumption DEF TypeOK, Stored
    <2>5. Len(value[node]) = Len(Key)
      BY <2>1, <2>2, <2>3 DEF Shape
    <2>6. \A m \in 1 .. Len(Key) : value[node][m] = Key[m]
      BY <2>1, <2>2, <2>3 DEF Shape, Agree, Char
    <2>7. value[node] = Key
      BY <2>2, <2>4, <2>5, <2>6, SameNames
    <2> QED BY <2>3, <2>4, <2>7
  <1>2. IInv => NoDuplicateInsert
    BY <1>1 DEF NoDuplicateInsert
  <1> QED BY <1>2, SpecIInv, PTL

\* TSTree_search finds the names that were inserted and no others, and
\* TSTree_search_prefix the longest one the key extends: the tree, with a step
\* for every node a call visits, implements the set of names of NameMap.
THEOREM SpecImplementsNameMap == Spec => ImplementsNameMap
  <1>1. Init => Map!MapInit
    BY IInvInit
  <1>2. IInv /\ [Next]_vars => [Map!MapNext]_(Map!mapvars)
    BY IInvNext, IInvStays
  <1> QED BY <1>1, <1>2, SpecIInv, PTL DEF Spec, ImplementsNameMap, Map!Spec

----------------------------------------------------------------------------
(* The shape of the tree: nodes are allocated in order, so that a child     *)
(* comes after its parent, and every node but the root has one parent.      *)

\* n is a child of m.
Points(m, n) == n # NULL /\ (n = low[m] \/ n = equal[m] \/ n = high[m])

\* calloc has given the nodes in order, and only so many.
InOrder ==
  /\ \A n \in used : \A m \in Nodes : m < n => m \in used
  /\ \E most \in Nat : \A n \in used : n <= most
  /\ \A n \in Nodes \ used : low[n] = NULL /\ equal[n] = NULL /\ high[n] = NULL

\* A node is the child of one node, and once; the root is of none.
Below == \A m \in used : \A n \in Nodes : Points(m, n) => n \in used /\ m < n
OneParent == \A l, m \in used : \A n \in Nodes : Points(l, n) /\ Points(m, n) => l = m
Apart ==
  \A m \in used : /\ low[m] # NULL => low[m] # equal[m] /\ low[m] # high[m]
                  /\ equal[m] # NULL => equal[m] # high[m]
Parented == \A n \in used : n = root \/ \E m \in used : Points(m, n)
NoneYet == root = NULL => used = {}

Family == Below /\ OneParent /\ Apart /\ Parented /\ NoneYet

\* A name is kept once.
Once == \A m, n \in used : value[m] = value[n] /\ value[m] # NULL => m = n

Shaped == InOrder /\ Family /\ Once

\* The node p gets the child c, which calloc has given.
NewChild(p, c) ==
  /\ p \in used /\ c \in Calloc
  /\ used' = used \cup {c} /\ root' = root
  /\ \/ low[p] = NULL /\ low' = [low EXCEPT ![p] = c] /\ UNCHANGED <<equal, high>>
     \/ equal[p] = NULL /\ equal' = [equal EXCEPT ![p] = c] /\ UNCHANGED <<low, high>>
     \/ high[p] = NULL /\ high' = [high EXCEPT ![p] = c] /\ UNCHANGED <<low, equal>>

(* A new node comes after all there are. *)
LEMMA CallocFacts ==
  ASSUME TypeOK, InOrder, NEW c \in Calloc
  PROVE  /\ c \in Nodes /\ c \notin used /\ c # NULL /\ c \in Nat
         /\ \A n \in used : n < c
         /\ \A m \in Nodes : m < c => m \in used
  <1>1. c \in Nodes /\ c \notin used /\ c # NULL /\ c \in Nat
    BY NullAssumption, NodesAssumption DEF Calloc
  <1>2. ASSUME NEW n \in used PROVE n < c
    <2>1. n \in Nodes /\ n \in Nat
      BY NodesAssumption DEF TypeOK
    <2>2. ~(c < n)
      BY <1>1 DEF InOrder
    <2> QED BY <1>1, <2>1, <2>2
  <1>3. ASSUME NEW m \in Nodes, m < c PROVE m \in used
    <2>1. m \in Nat
      BY NodesAssumption
    <2> QED BY <1>1, <1>3, <2>1 DEF Calloc
  <1> QED BY <1>1, <1>2, <1>3

LEMMA InOrderKept ==
  ASSUME TypeOK, InOrder, NEW c \in Calloc, used' = used \cup {c},
         \A n \in Nodes \ used' : low'[n] = low[n] /\ equal'[n] = equal[n] /\ high'[n] = high[n]
  PROVE  InOrder'
  <1>1. \A n \in used' : \A m \in Nodes : m < n => m \in used'
    BY CallocFacts DEF InOrder
  <1>2. \E most \in Nat : \A n \in used' : n <= most
    <2>1. \A n \in used' : n <= c
      <3>1. \A n \in used : n \in Nat /\ n < c
        BY CallocFacts, NodesAssumption DEF TypeOK
      <3> QED BY <3>1, CallocFacts
    <2> QED BY <2>1, CallocFacts
  <1>3. \A n \in Nodes \ used' : low'[n] = NULL /\ equal'[n] = NULL /\ high'[n] = NULL
    BY DEF InOrder
  <1> QED BY <1>1, <1>2, <1>3 DEF InOrder

LEMMA NewChildKeeps ==
  ASSUME TypeOK, InOrder, Family, NEW p, NEW c, NewChild(p, c)
  PROVE  InOrder' /\ Family'
  <1>1. /\ p \in used /\ p \in Nodes /\ c \in Calloc /\ used' = used \cup {c} /\ root' = root
        /\ c \in Nodes /\ c \notin used /\ c # NULL /\ c # p /\ p < c
    BY CallocFacts DEF NewChild, TypeOK
  <1>2. /\ low[c] = NULL /\ equal[c] = NULL /\ high[c] = NULL
        /\ low \in [Nodes -> Pointers] /\ equal \in [Nodes -> Pointers] /\ high \in [Nodes -> Pointers]
    BY <1>1 DEF InOrder, TypeOK
  <1>3. /\ \A m \in Nodes : m # p => low'[m] = low[m] /\ equal'[m] = equal[m] /\ high'[m] = high[m]
        /\ \/ low[p] = NULL /\ low'[p] = c /\ equal'[p] = equal[p] /\ high'[p] = high[p]
           \/ equal[p] = NULL /\ equal'[p] = c /\ low'[p] = low[p] /\ high'[p] = high[p]
           \/ high[p] = NULL /\ high'[p] = c /\ low'[p] = low[p] /\ equal'[p] = equal[p]
    BY <1>1, <1>2 DEF NewChild
  <1>4. InOrder'
    BY <1>1, <1>3, InOrderKept
  <1>5. \A m \in used' : \A n \in Nodes : Points(m, n)' <=> Points(m, n) \/ (m = p /\ n = c)
    BY <1>1, <1>2, <1>3 DEF Points, TypeOK
  <1>6. \A m \in used' : \A n \in Nodes : Points(m, n) => m \in used /\ n \in used /\ n # c /\ m < n
    BY <1>1, <1>2 DEF Points, Family, Below
  <1>7. Below'
    BY <1>1, <1>5, <1>6 DEF Below
  <1>8. OneParent'
    BY <1>5, <1>6 DEF Family, OneParent
  <1>9. Apart'
    <2>1. ASSUME NEW m \in used', m # p
          PROVE  /\ low'[m] # NULL => low'[m] # equal'[m] /\ low'[m] # high'[m]
                 /\ equal'[m] # NULL => equal'[m] # high'[m]
      BY <1>1, <1>2, <1>3, <2>1 DEF Family, Apart, TypeOK
    <2>2. low[p] # c /\ equal[p] # c /\ high[p] # c
      BY <1>1, <1>6 DEF Points
    <2>3. /\ low'[p] # NULL => low'[p] # equal'[p] /\ low'[p] # high'[p]
          /\ equal'[p] # NULL => equal'[p] # high'[p]
      BY <1>1, <1>3, <2>2 DEF Family, Apart
    <2> QED BY <2>1, <2>3 DEF Apart
  <1>10. Parented'
    <2>1. ASSUME NEW n \in used, n # root PROVE \E m \in used' : Points(m, n)'
      <3>1. PICK m \in used : Points(m, n)
        BY <2>1 DEF Family, Parented
      <3>2. m \in used' /\ n \in Nodes
        BY <1>1 DEF TypeOK
      <3> QED BY <1>5, <3>1, <3>2
    <2>2. \E m \in used' : Points(m, c)'
      BY <1>1, <1>5
    <2> QED BY <1>1, <2>1, <2>2 DEF Parented
  <1>11. NoneYet'
    BY <1>1 DEF Family, NoneYet
  <1> QED BY <1>4, <1>7, <1>8, <1>9, <1>10, <1>11 DEF Family

LEMMA NewRootKeeps ==
  ASSUME TypeOK, InOrder, Family, root = NULL, NEW c \in Calloc, used' = used \cup {c}, root' = c,
         UNCHANGED <<low, equal, high>>
  PROVE  InOrder' /\ Family'
  <1>1. used' = {c} /\ used = {}
    BY DEF Family, NoneYet
  <1>2. c \in Nodes /\ c # NULL /\ c \in Nat /\ low[c] = NULL /\ equal[c] = NULL /\ high[c] = NULL
    BY CallocFacts DEF InOrder
  <1>3. InOrder'
    BY InOrderKept
  <1>4. \A n : ~Points(c, n)'
    BY <1>2 DEF Points
  <1> QED BY <1>1, <1>2, <1>3, <1>4 DEF Family, Below, OneParent, Apart, Parented, NoneYet

LEMMA WalkFacts ==
  ASSUME TypeOK, TreeOK, InOrder, Family, InsertLow \/ InsertEqual \/ InsertHigh
  PROVE  Grown(node') /\ InOrder' /\ Family'
  <1>1. Inserting
    BY DEF InsertLow, InsertEqual, InsertHigh, Running, Inserting
  <1>2. Grown(node') /\ TypeOK' /\ root' = root
    BY <1>1, LowGrows, EqualGrows, HighGrows DEF TreeOK
  <1>3. node \in used /\ node \in Nodes /\ Shape(node)
    BY <1>1, InsertingFacts DEF TreeOK
  <1>4. /\ low \in [Nodes -> Pointers] /\ equal \in [Nodes -> Pointers]
        /\ high \in [Nodes -> Pointers]
    BY DEF TypeOK
  <1>5. \/ node' \in used /\ UNCHANGED <<used, low, equal, high>>
        \/ NewChild(node, node')
    <2>1. CASE InsertLow
      BY <1>3, <1>4, <2>1 DEF InsertLow, OldNode, NewNode, NewChild, Shape
    <2>2. CASE InsertEqual
      BY <1>3, <1>4, <2>2 DEF InsertEqual, OldNode, NewNode, NewChild, Shape
    <2>3. CASE InsertHigh
      BY <1>3, <1>4, <2>3 DEF InsertHigh, OldNode, NewNode, NewChild, Shape
    <2> QED BY <2>1, <2>2, <2>3
  <1>6. InOrder' /\ Family'
    <2>1. ASSUME UNCHANGED <<used, low, equal, high>> PROVE InOrder' /\ Family'
      BY <1>2, <2>1 DEF InOrder, Family, Below, OneParent, Apart, Parented, NoneYet, Points
    <2>2. ASSUME NewChild(node, node') PROVE InOrder' /\ Family'
      <3>1. PICK p, c : p = node /\ c = node'
        OBVIOUS
      <3> QED BY <2>2, <3>1, NewChildKeeps
    <2> QED BY <1>5, <2>1, <2>2
  <1> QED BY <1>2, <1>6

LEMMA WalkKeeps ==
  ASSUME TypeOK, TreeOK, Shaped, InsertLow \/ InsertEqual \/ InsertHigh
  PROVE  Shaped'
  <1>1. Grown(node') /\ InOrder' /\ Family'
    BY WalkFacts DEF Shaped
  <1>2. Once'
    BY <1>1 DEF Shaped, Once, Grown, TreeOK, Fresh
  <1> QED BY <1>1, <1>2 DEF Shaped

LEMMA ShapedBegins ==
  ASSUME IInv, TreeOK, Shaped, NEW k \in Names, TSTree_insert(k)
  PROVE  Shaped'
  <1>1. TypeOK
    BY DEF IInv
  <1>2. CASE root # NULL /\ OldNode(root, k)
    <2>1. UNCHANGED <<used, root, splitchar, low, equal, high, value, pre>>
      BY <1>2 DEF OldNode
    <2>2. InOrder' /\ Family' /\ Once'
      BY <2>1 DEF Shaped, InOrder, Family, Below, OneParent, Apart, Parented, NoneYet, Points, Once
    <2> QED BY <2>2 DEF Shaped
  <1>3. ASSUME root = NULL, NEW n \in Calloc, NewNode(n, k, 0, <<>>), root' = n,
               UNCHANGED <<low, equal, high>>
        PROVE  Shaped'
    <2>1. used' = used \cup {n} /\ value' = value
      BY <1>3 DEF NewNode
    <2>2. InOrder' /\ Family'
      BY <1>1, <1>3, <2>1, NewRootKeeps DEF Shaped
    <2>3. n \in Nodes \ used /\ used = {}
      BY <1>3 DEF Calloc, Shaped, Family, NoneYet
    <2>4. low[n] = NULL /\ equal[n] = NULL /\ high[n] = NULL /\ value[n] = NULL
      BY <2>3 DEF TreeOK, Fresh
    <2>5. Once'
      BY <2>1, <2>3, <2>4 DEF Once
    <2> QED BY <2>2, <2>5 DEF Shaped
  <1> QED BY <1>2, <1>3 DEF TSTree_insert

LEMMA ShapedEnds ==
  ASSUME TypeOK, TreeOK, Shaped, InsertValue
  PROVE  Shaped'
  <1>1. /\ Inserting /\ UNCHANGED <<root, used, splitchar, low, equal, high, pre, under>>
        /\ value' = [value EXCEPT ![node] = Key]
    BY DEF InsertValue, AtEnd, Running, Inserting
  <1>2. node \in used /\ node \in Nodes /\ Key # NULL /\ Key \notin Stored
    BY <1>1, InsertingFacts, NameFacts DEF TreeOK, InsertingAt
  <1>3. \A m \in used : value'[m] = IF m = node THEN Key ELSE value[m]
    BY <1>1, <1>2 DEF TypeOK
  <1>4. \A m \in used : value[m] # Key
    BY <1>2 DEF Stored
  <1>5. Once'
    BY <1>1, <1>3, <1>4 DEF Shaped, Once
  <1>6. InOrder' /\ Family'
    BY <1>1 DEF Shaped, InOrder, Family, Below, OneParent, Apart, Parented, NoneYet, Points
  <1> QED BY <1>5, <1>6 DEF Shaped

LEMMA ShapedStays ==
  ASSUME Shaped, UNCHANGED tree
  PROVE  Shaped'
  BY DEF tree, Shaped, InOrder, Family, Below, OneParent, Apart, Parented, NoneYet, Points, Once

LEMMA TreeUnchanged ==
  ASSUME Next
  PROVE  \/ UNCHANGED tree
         \/ InsertLow \/ InsertEqual \/ InsertHigh \/ InsertValue
         \/ \E k \in Names : TSTree_insert(k)
  BY DEF Next, TSTree_search, TSTree_search_prefix, TSTree_collect, Insert, Search, GoAside,
     SearchEqual, SearchReturn, PrefixEqual, PrefixReturn, Collect, CollectEqual, CollectDown,
     CollectReturn, CollectFails, CollectFaults, NoMemory

LEMMA SpecShaped == Spec => []Shaped
  <1>1. Init => Shaped
    <2> SUFFICES ASSUME Init PROVE Shaped
      OBVIOUS
    <2>1. used = {} /\ root = NULL /\ \A n \in Nodes : low[n] = NULL /\ equal[n] = NULL /\ high[n] = NULL
      BY DEF Init
    <2>2. \E most \in Nat : \A n \in used : n <= most
      BY <2>1
    <2> QED BY <2>1, <2>2 DEF Shaped, InOrder, Family, Below, OneParent, Apart, Parented,
            NoneYet, Once
  <1>2. IInv /\ Shaped /\ [Next]_vars => Shaped'
    <2> SUFFICES ASSUME IInv, Shaped, [Next]_vars PROVE Shaped'
      OBVIOUS
    <2>1. CASE UNCHANGED vars
      BY <2>1, ShapedStays DEF vars, tree
    <2>2. CASE Next
      <3>1. TypeOK /\ TreeOK
        BY <2>2, Lives DEF IInv
      <3> QED BY <2>2, <3>1, TreeUnchanged, ShapedStays, WalkKeeps, ShapedEnds, ShapedBegins
    <2> QED BY <2>1, <2>2
  <1> QED BY <1>1, <1>2, SpecIInv, PTL DEF Spec

----------------------------------------------------------------------------
(* The order of the nodes.                                                  *)

\* O is the recursion of PostOrder.
Posts(O) ==
  /\ O \in [Pointers -> Seq(Nodes)]
  /\ O[NULL] = <<>>
  /\ \A n \in Nodes : O[n] = O[low[n]] \o O[equal[n]] \o O[high[n]] \o <<n>>

\* How far a node may be from the bottom, where most is a bound on the nodes.
Height(most) == [n \in Pointers |-> IF n = NULL THEN 0 ELSE IF n \in used THEN most - n + 1 ELSE 1]

LEMMA HeightFacts ==
  ASSUME TypeOK, InOrder, Family, NEW most \in Nat, \A n \in used : n <= most
  PROVE  /\ Height(most) \in [Pointers -> Nat]
         /\ \A n \in Nodes : \A c \in {low[n], equal[n], high[n]} :
              c \in Pointers /\ Height(most)[c] < Height(most)[n]
  <1> DEFINE H == Height(most)
  <1>1. used \subseteq Nodes /\ NULL \notin Nodes
    BY NullAssumption DEF TypeOK
  <1>2. ASSUME NEW n \in Pointers
        PROVE  /\ H[n] \in Nat /\ (n # NULL => H[n] > 0)
               /\ H[n] = IF n = NULL THEN 0 ELSE IF n \in used THEN most - n + 1 ELSE 1
    <2>1. n \in used => n \in Nat /\ n <= most
      BY <1>1, NodesAssumption
    <2> QED BY <2>1 DEF Height
  <1>3. ASSUME NEW n \in Nodes, NEW c \in {low[n], equal[n], high[n]}
        PROVE  c \in Pointers /\ H[c] < H[n]
    <2>1. c \in Pointers /\ n \in Pointers /\ n # NULL
      BY <1>1 DEF TypeOK, Pointers
    <2>2. CASE c = NULL
      BY <1>2, <2>1, <2>2
    <2>3. CASE c # NULL
      <3>1. c \in Nodes /\ Points(n, c)
        BY <2>1, <2>3 DEF Points, Pointers
      <3>2. n \in used
        BY <2>3 DEF InOrder
      <3>3. c \in used /\ n < c
        BY <3>1, <3>2 DEF Family, Below
      <3>4. n \in Nat /\ c \in Nat
        BY <3>1, NodesAssumption
      <3>5. H[n] = most - n + 1 /\ H[c] = most - c + 1
        BY <1>2, <2>1, <2>3, <3>2, <3>3
      <3> HIDE DEF H
      <3> QED BY <2>1, <3>3, <3>4, <3>5
    <2> QED BY <2>2, <2>3
  <1>4. H \in [Pointers -> Nat]
    BY <1>2 DEF Height
  <1> QED BY <1>3, <1>4

LEMMA PostOrderFacts ==
  ASSUME TypeOK, InOrder, Family
  PROVE  \E O : Posts(O) /\ \A m \in Pointers : PostOrder(m) = O[m]
  <1>1. PICK most \in Nat : \A n \in used : n <= most
    BY DEF InOrder
  <1> DEFINE H == Height(most)
             V == Seq(Nodes)
             At(f, n) == IF n = NULL THEN <<>> ELSE f[low[n]] \o f[equal[n]] \o f[high[n]] \o <<n>>
             body == [f \in [Pointers -> V] |-> [n \in Pointers |-> At(f, n)]]
             IsO(f) == f = [n \in Pointers |-> At(f, n)]
  <1>2. /\ H \in [Pointers -> Nat]
        /\ \A n \in Nodes : /\ low[n] \in Pointers /\ H[low[n]] < H[n]
                            /\ equal[n] \in Pointers /\ H[equal[n]] < H[n]
                            /\ high[n] \in Pointers /\ H[high[n]] < H[n]
    BY <1>1, HeightFacts
  <1> HIDE DEF H
  <1>3. ASSUME NEW f \in [Pointers -> V], NEW n \in Pointers PROVE At(f, n) \in V
    <2>1. CASE n = NULL
      BY <2>1
    <2>2. CASE n # NULL
      <3>1. n \in Nodes
        BY <2>2 DEF Pointers
      <3>2. f[low[n]] \in V /\ f[equal[n]] \in V /\ f[high[n]] \in V
        BY <1>2, <3>1
      <3>3. <<n>> \in V
        BY <3>1
      <3> QED BY <2>2, <3>2, <3>3
    <2> QED BY <2>1, <2>2
  <1>4. body \in [[Pointers -> V] -> [Pointers -> V]]
    <2> HIDE DEF At, V
    <2> QED BY <1>3
  <1>5. ASSUME NEW f, NEW g, NEW n \in Pointers,
               \A y \in Pointers : H[y] < H[n] => f[y] = g[y]
        PROVE  At(f, n) = At(g, n)
    <2>1. CASE n = NULL
      BY <2>1
    <2>2. CASE n # NULL
      <3>1. n \in Nodes
        BY <2>2 DEF Pointers
      <3>2. f[low[n]] = g[low[n]] /\ f[equal[n]] = g[equal[n]] /\ f[high[n]] = g[high[n]]
        BY <1>2, <1>5, <3>1
      <3> QED BY <3>2
    <2> QED BY <2>1, <2>2
  <1>6. PICK O : IsFixed(O, Pointers, V, body)
    <2>1. <<>> \in V
      OBVIOUS
    <2>2. GoesDown(Pointers, V, H, body)
      <3> HIDE DEF V, At
      <3> QED BY <1>5 DEF GoesDown
    <2>3. H \in Measures(Pointers) /\ body \in Bodies(Pointers, V)
      <3> HIDE DEF V, body
      <3> QED BY <1>2, <1>4 DEF Measures, Bodies
    <2> HIDE DEF V, body
    <2> QED BY <2>1, <2>2, <2>3, MeasuredRecursion
  <1>7. O \in [Pointers -> V] /\ IsO(O)
    <2> HIDE DEF V, At
    <2> QED BY <1>6 DEF IsFixed
  <1> DEFINE h == CHOOSE f : IsO(f)
  <1>8. IsO(h)
    <2> HIDE DEF IsO
    <2> QED BY <1>7
  <1> HIDE DEF h
  <1>9. \A n \in Pointers : h[n] = O[n]
    <2>1. ASSUME NEW n \in Pointers, \A y \in Pointers : H[y] < H[n] => h[y] = O[y]
          PROVE  h[n] = O[n]
      <3>1. At(h, n) = At(O, n)
        <4> HIDE DEF At
        <4> QED BY <1>5, <2>1
      <3>2. h[n] = At(h, n) /\ O[n] = At(O, n)
        <4> HIDE DEF At
        <4> QED BY <1>7, <1>8
      <3> HIDE DEF At
      <3> QED BY <3>1, <3>2
    <2> QED BY <1>2, <2>1, OneRecursion
  <1>10. ASSUME NEW m \in Pointers PROVE PostOrder(m) = O[m]
    <2>1. PostOrder(m) = h[m]
      BY DEF PostOrder, h
    <2> QED BY <1>9, <2>1
  <1>11. Posts(O)
    <2>1. NULL \in Pointers /\ Nodes \subseteq Pointers /\ NULL \notin Nodes
      BY NullAssumption DEF Pointers
    <2>2. \A n \in Pointers : O[n] = At(O, n)
      <3> HIDE DEF At
      <3> QED BY <1>7
    <2> QED BY <1>7, <2>1, <2>2 DEF Posts
  <1> QED BY <1>10, <1>11

\* s is what t has after its first d entries.
Within(s, d, t) == \A j \in 1 .. Len(s) : d + j \in 1 .. Len(t) /\ t[d + j] = s[j]

\* The place j of t is in that s.
Covers(s, d, j) == j - d \in 1 .. Len(s)

Joined(V, r, s, t, x, u) ==
  /\ u \in Seq(V) /\ Len(u) = Len(r) + Len(s) + Len(t) + 1
  /\ Within(r, 0, u) /\ Within(s, Len(r), u) /\ Within(t, Len(r) + Len(s), u)
  /\ u[Len(u)] = x
  /\ \A j \in 1 .. Len(u) : \/ Covers(r, 0, j) \/ Covers(s, Len(r), j)
                            \/ Covers(t, Len(r) + Len(s), j) \/ j = Len(u)

LEMMA FourPieces ==
  ASSUME NEW V, NEW r \in Seq(V), NEW s \in Seq(V), NEW t \in Seq(V), NEW x \in V
  PROVE  Joined(V, r, s, t, x, r \o s \o t \o <<x>>)
  <1> DEFINE u == r \o s \o t \o <<x>>
  <1>0. PICK v, w : v = r \o s /\ w = v \o t
    OBVIOUS
  <1>1. /\ v \in Seq(V) /\ Len(v) = Len(r) + Len(s)
        /\ \A j \in 1 .. Len(r) : v[j] = r[j]
        /\ \A j \in 1 .. Len(s) : v[Len(r) + j] = s[j]
    BY <1>0, TwoPieces
  <1>2. /\ w \in Seq(V) /\ Len(w) = Len(v) + Len(t)
        /\ \A j \in 1 .. Len(v) : w[j] = v[j]
        /\ \A j \in 1 .. Len(t) : w[Len(v) + j] = t[j]
    <2>1. v \in Seq(V)
      BY <1>1
    <2>2. /\ v \o t \in Seq(V) /\ Len(v \o t) = Len(v) + Len(t)
          /\ \A j \in 1 .. Len(v) : (v \o t)[j] = v[j]
          /\ \A j \in 1 .. Len(t) : (v \o t)[Len(v) + j] = t[j]
      BY <2>1, TwoPieces
    <2> QED BY <1>0, <2>2
  <1>3. u = w \o <<x>>
    BY <1>0
  <1> HIDE DEF u
  <1>4. /\ u \in Seq(V) /\ Len(u) = Len(w) + 1 /\ u[Len(w) + 1] = x
        /\ \A j \in 1 .. Len(w) : u[j] = w[j]
    <2>1. w \in Seq(V)
      BY <1>2
    <2>2. w \o <<x>> = Append(w, x)
      BY <2>1
    <2>3. /\ Append(w, x) \in Seq(V) /\ Len(Append(w, x)) = Len(w) + 1
          /\ Append(w, x)[Len(w) + 1] = x
          /\ \A j \in 1 .. Len(w) : Append(w, x)[j] = w[j]
      BY <2>1
    <2> QED BY <1>3, <2>2, <2>3
  <1>5. Len(r) \in Nat /\ Len(s) \in Nat /\ Len(t) \in Nat
    OBVIOUS
  <1>6. Len(u) = Len(r) + Len(s) + Len(t) + 1 /\ Len(w) = Len(r) + Len(s) + Len(t)
    BY <1>1, <1>2, <1>4, <1>5
  <1>7. Within(r, 0, u) /\ Within(s, Len(r), u) /\ Within(t, Len(r) + Len(s), u)
    <2>0. PICK a, b, c : a = Len(r) /\ b = Len(s) /\ c = Len(t)
      OBVIOUS
    <2>1. a \in Nat /\ b \in Nat /\ c \in Nat /\ Len(v) = a + b /\ Len(w) = a + b + c /\ Len(u) = a + b + c + 1
      BY <1>1, <1>5, <1>6, <2>0
    <2>2. ASSUME NEW j \in 1 .. a PROVE j \in 1 .. Len(u) /\ u[j] = r[j]
      <3>1. j \in 1 .. Len(v) /\ j \in 1 .. Len(w) /\ j \in 1 .. Len(u)
        BY <2>1
      <3> QED BY <1>1, <1>2, <1>4, <2>0, <3>1
    <2>3. ASSUME NEW j \in 1 .. b PROVE a + j \in 1 .. Len(u) /\ u[a + j] = s[j]
      <3>1. a + j \in 1 .. Len(v) /\ a + j \in 1 .. Len(w) /\ a + j \in 1 .. Len(u)
        BY <2>1
      <3> QED BY <1>1, <1>2, <1>4, <2>0, <3>1
    <2>4. ASSUME NEW j \in 1 .. c PROVE a + b + j \in 1 .. Len(u) /\ u[a + b + j] = t[j]
      <3>1. a + b + j \in 1 .. Len(w) /\ a + b + j \in 1 .. Len(u)
        BY <2>1
      <3>2. w[a + b + j] = t[j]
        BY <1>2, <2>0, <2>1
      <3> QED BY <1>4, <3>1, <3>2
    <2>5. \A j \in 1 .. a : 0 + j = j
      BY <2>1
    <2> QED BY <2>0, <2>2, <2>3, <2>4, <2>5 DEF Within
  <1>8. \A j \in 1 .. Len(u) : \/ Covers(r, 0, j) \/ Covers(s, Len(r), j)
                               \/ Covers(t, Len(r) + Len(s), j) \/ j = Len(u)
    <2> SUFFICES ASSUME NEW j \in 1 .. Len(u)
                 PROVE  \/ Covers(r, 0, j) \/ Covers(s, Len(r), j)
                        \/ Covers(t, Len(r) + Len(s), j) \/ j = Len(u)
      OBVIOUS
    <2>0. PICK a, b, c : a = Len(r) /\ b = Len(s) /\ c = Len(t)
      OBVIOUS
    <2>1. a \in Nat /\ b \in Nat /\ c \in Nat /\ j \in 1 .. a + b + c + 1 /\ Len(u) = a + b + c + 1
      BY <1>5, <1>6, <2>0
    <2>2. /\ Covers(r, 0, j) <=> j - 0 \in 1 .. a
          /\ Covers(s, a, j) <=> j - a \in 1 .. b
          /\ Covers(t, a + b, j) <=> j - (a + b) \in 1 .. c
      BY <2>0 DEF Covers
    <2>3. j - 0 \in 1 .. a \/ j - a \in 1 .. b \/ j - (a + b) \in 1 .. c \/ j = a + b + c + 1
      BY <2>1
    <2> QED BY <2>0, <2>1, <2>2, <2>3
  <1>9. Joined(V, r, s, t, x, u)
    BY <1>4, <1>6, <1>7, <1>8 DEF Joined
  <1> QED BY <1>9 DEF u

\* c is the child of n whose nodes come after the first d of those below n.
Branch(O, n, c, d) ==
  \/ c = low[n] /\ d = 0
  \/ c = equal[n] /\ d = Len(O[low[n]])
  \/ c = high[n] /\ d = Len(O[low[n]]) + Len(O[equal[n]])

LEMMA PostsFacts ==
  ASSUME TypeOK, NEW O, Posts(O), NEW n \in Nodes
  PROVE  /\ O[n] \in Seq(Nodes) /\ Len(O[n]) \in Nat /\ Len(O[n]) > 0 /\ O[n][Len(O[n])] = n
         /\ \A c, d : Branch(O, n, c, d) =>
              /\ c \in Pointers /\ d \in Nat /\ O[c] \in Seq(Nodes) /\ Within(O[c], d, O[n])
         /\ \A j \in 1 .. Len(O[n]) : j = Len(O[n]) \/ \E c, d : Branch(O, n, c, d) /\ Covers(O[c], d, j)
         /\ \A c \in {low[n], equal[n], high[n]} : \E d : Branch(O, n, c, d)
  <1>1. low[n] \in Pointers /\ equal[n] \in Pointers /\ high[n] \in Pointers
    BY DEF TypeOK
  <1>0. PICK r, s, t, u : r = O[low[n]] /\ s = O[equal[n]] /\ t = O[high[n]] /\ u = O[n]
    OBVIOUS
  <1>2. r \in Seq(Nodes) /\ s \in Seq(Nodes) /\ t \in Seq(Nodes) /\ u = r \o s \o t \o <<n>>
    BY <1>0, <1>1 DEF Posts
  <1>3. /\ u \in Seq(Nodes) /\ Len(u) = Len(r) + Len(s) + Len(t) + 1
        /\ Within(r, 0, u) /\ Within(s, Len(r), u) /\ Within(t, Len(r) + Len(s), u)
        /\ u[Len(u)] = n
        /\ \A j \in 1 .. Len(u) : \/ Covers(r, 0, j) \/ Covers(s, Len(r), j)
                                  \/ Covers(t, Len(r) + Len(s), j) \/ j = Len(u)
    <2>1. Joined(Nodes, r, s, t, n, u)
      BY <1>2, FourPieces
    <2> QED BY <2>1 DEF Joined
  <1>4. Len(r) \in Nat /\ Len(s) \in Nat /\ Len(t) \in Nat
    BY <1>2
  <1>5. \A c, d : Branch(O, n, c, d) =>
          c \in Pointers /\ d \in Nat /\ O[c] \in Seq(Nodes) /\ Within(O[c], d, O[n])
    <2>1. Len(r) + Len(s) \in Nat
      BY <1>4
    <2> SUFFICES ASSUME NEW c, NEW d, Branch(O, n, c, d)
                 PROVE  c \in Pointers /\ d \in Nat /\ O[c] \in Seq(Nodes) /\ Within(O[c], d, O[n])
      OBVIOUS
    <2>2. \/ c = low[n] /\ O[c] = r /\ d = 0
          \/ c = equal[n] /\ O[c] = s /\ d = Len(r)
          \/ c = high[n] /\ O[c] = t /\ d = Len(r) + Len(s)
      BY <1>0 DEF Branch
    <2>3. 0 \in Nat /\ Len(r) \in Nat /\ Len(r) + Len(s) \in Nat
      BY <1>4, <2>1
    <2>4. c \in Pointers /\ d \in Nat
      BY <1>1, <2>2, <2>3
    <2>5. O[c] \in Seq(Nodes) /\ Within(O[c], d, u)
      BY <1>2, <1>3, <2>2
    <2> QED BY <1>0, <2>4, <2>5
  <1>6. /\ Branch(O, n, low[n], 0) /\ Branch(O, n, equal[n], Len(r))
        /\ Branch(O, n, high[n], Len(r) + Len(s))
    BY <1>0 DEF Branch
  <1>7. \A j \in 1 .. Len(O[n]) : j = Len(O[n]) \/ \E c, d : Branch(O, n, c, d) /\ Covers(O[c], d, j)
    BY <1>0, <1>3, <1>6
  <1>8. \A c \in {low[n], equal[n], high[n]} : \E d : Branch(O, n, c, d)
    BY <1>6
  <1>9. Len(u) \in Nat /\ Len(u) > 0
    <2> QED BY <1>3, <1>4
  <1> QED BY <1>0, <1>3, <1>5, <1>7, <1>8, <1>9

----------------------------------------------------------------------------
(* Which nodes are below which.                                             *)

\* A tree of that shape, and the order of the nodes below each.
Ordered(O) == TypeOK /\ InOrder /\ Family /\ Posts(O)

Children(n) == {low[n], equal[n], high[n]} \ {NULL}

\* What holds for a node if it does for its children holds for all nodes.
LEMMA TreeInduction ==
  ASSUME TypeOK, InOrder, Family, NEW S,
         \A n \in Nodes : (\A c \in Children(n) : c \in S) => n \in S
  PROVE  Nodes \subseteq S
  <1>1. PICK most \in Nat : \A n \in used : n <= most
    BY DEF InOrder
  <1>2. PICK H : H = Height(most)
    OBVIOUS
  <1>3. /\ H \in [Pointers -> Nat]
        /\ \A n \in Nodes : \A c \in Children(n) : c \in Nodes /\ H[c] < H[n]
    BY <1>1, <1>2, HeightFacts DEF Children, Pointers
  <1> DEFINE T == {H[n] : n \in Nodes \ S}
  <1> SUFFICES ASSUME T # {} PROVE FALSE
    OBVIOUS
  <1>4. T \in SUBSET Nat
    BY <1>3 DEF Pointers
  <1>5. PICK d \in T : \A e \in T : d <= e
    <2> HIDE DEF T
    <2> QED BY <1>4, Least
  <1>6. PICK n \in Nodes \ S : d = H[n]
    BY <1>5
  <1>7. PICK c \in Children(n) : c \notin S
    BY <1>6
  <1>8. c \in Nodes /\ H[c] < H[n] /\ H[c] \in T
    BY <1>3, <1>7
  <1>9. H[c] \in Nat /\ H[n] \in Nat
    BY <1>3, <1>8 DEF Pointers
  <1> HIDE DEF T
  <1> QED BY <1>5, <1>6, <1>8, <1>9

LEMMA ChildFacts ==
  ASSUME NEW O, Ordered(O), NEW n \in Nodes
  PROVE  /\ Children(n) \subseteq used /\ Children(n) \subseteq Nodes
         /\ \A c \in Children(n) : n \in used /\ Points(n, c) /\ n < c
  <1>1. \A c \in Children(n) : c \in Nodes /\ Points(n, c) /\ n \in used
    BY DEF Ordered, TypeOK, Pointers, Children, Points, InOrder
  <1> QED BY <1>1 DEF Ordered, Family, Below

LEMMA RangeFacts ==
  ASSUME NEW O, Ordered(O), NEW n \in Nodes
  PROVE  /\ n \in Range(O[n])
         /\ \A c \in Children(n) : Range(O[c]) \subseteq Range(O[n])
         /\ \A x \in Range(O[n]) : x = n \/ \E c \in Children(n) : x \in Range(O[c])
  <1> USE DEF Range
  <1>1. /\ O[n] \in Seq(Nodes) /\ Len(O[n]) \in Nat /\ Len(O[n]) > 0 /\ O[n][Len(O[n])] = n
        /\ \A c, d : Branch(O, n, c, d) =>
             /\ c \in Pointers /\ d \in Nat /\ O[c] \in Seq(Nodes) /\ Within(O[c], d, O[n])
        /\ \A j \in 1 .. Len(O[n]) : j = Len(O[n]) \/ \E c, d : Branch(O, n, c, d) /\ Covers(O[c], d, j)
        /\ \A c \in {low[n], equal[n], high[n]} : \E d : Branch(O, n, c, d)
    BY PostsFacts DEF Ordered
  <1>2. DOMAIN O[n] = 1 .. Len(O[n]) /\ Len(O[n]) \in 1 .. Len(O[n])
    BY <1>1
  <1>3. n \in Range(O[n])
    BY <1>1, <1>2
  <1>4. ASSUME NEW c, NEW d, Branch(O, n, c, d)
        PROVE  /\ Range(O[c]) \subseteq Range(O[n])
               /\ \A j \in Int : Covers(O[c], d, j) => c \in Children(n) /\ O[n][j] \in Range(O[c])
    <2>1. c \in Pointers /\ d \in Nat /\ O[c] \in Seq(Nodes) /\ Within(O[c], d, O[n])
      BY <1>1, <1>4
    <2>2. DOMAIN O[c] = 1 .. Len(O[c])
      BY <2>1
    <2>3. Range(O[c]) \subseteq Range(O[n])
      BY <1>2, <2>1, <2>2 DEF Within
    <2>4. ASSUME NEW j \in Int, Covers(O[c], d, j) PROVE c \in Children(n) /\ O[n][j] \in Range(O[c])
      <3>1. j - d \in 1 .. Len(O[c])
        BY <2>4 DEF Covers
      <3>2. c # NULL
        BY <3>1 DEF Ordered, Posts
      <3>3. c \in Children(n)
        BY <1>4, <3>2 DEF Branch, Children
      <3>4. O[n][d + (j - d)] = O[c][j - d]
        BY <2>1, <3>1 DEF Within
      <3>5. d + (j - d) = j
        BY <2>1
      <3> QED BY <2>2, <3>1, <3>3, <3>4, <3>5
    <2> QED BY <2>3, <2>4
  <1>5. \A c \in Children(n) : Range(O[c]) \subseteq Range(O[n])
    BY <1>1, <1>4 DEF Children
  <1>6. ASSUME NEW x \in Range(O[n]) PROVE x = n \/ \E c \in Children(n) : x \in Range(O[c])
    <2>1. PICK j \in 1 .. Len(O[n]) : x = O[n][j]
      BY <1>2
    <2>2. CASE j = Len(O[n])
      BY <1>1, <2>1, <2>2
    <2>3. CASE j # Len(O[n])
      <3>1. PICK c, d : Branch(O, n, c, d) /\ Covers(O[c], d, j)
        BY <1>1, <2>3
      <3>2. j \in Int
        OBVIOUS
      <3> HIDE DEF Range
      <3> QED BY <1>4, <2>1, <3>1, <3>2
    <2> QED BY <2>2, <2>3
  <1> QED BY <1>3, <1>5, <1>6

LEMMA RangeUsed ==
  ASSUME NEW O, Ordered(O), NEW n \in used
  PROVE  Range(O[n]) \subseteq used /\ \A x \in Range(O[n]) : n <= x
  <1> DEFINE S == {m \in Nodes : m \in used =>
                     Range(O[m]) \subseteq used /\ \A x \in Range(O[m]) : m <= x}
  <1>1. used \subseteq Nodes /\ TypeOK /\ InOrder /\ Family
    BY DEF Ordered, TypeOK
  <1>2. ASSUME NEW m \in Nodes, \A c \in Children(m) : c \in S PROVE m \in S
    <2> SUFFICES ASSUME m \in used, NEW x \in Range(O[m]) PROVE x \in used /\ m <= x
      OBVIOUS
    <2>1. m \in Nat
      BY NodesAssumption
    <2>2. CASE x = m
      BY <2>1, <2>2
    <2>3. ASSUME NEW c \in Children(m), x \in Range(O[c]) PROVE x \in used /\ m <= x
      <3>1. c \in used /\ c \in Nodes /\ m < c
        BY ChildFacts
      <3>2. x \in used /\ c <= x
        BY <1>2, <2>3, <3>1
      <3>3. c \in Nat /\ x \in Nat
        BY <1>1, <3>1, <3>2, NodesAssumption
      <3> QED BY <2>1, <3>1, <3>2, <3>3
    <2> QED BY <2>2, <2>3, RangeFacts
  <1>3. Nodes \subseteq S
    <2> HIDE DEF S
    <2> QED BY <1>1, <1>2, TreeInduction
  <1> QED BY <1>1, <1>3

LEMMA RangeBelow ==
  ASSUME NEW O, Ordered(O), NEW n \in Nodes, NEW y \in Nodes, y \in Range(O[n])
  PROVE  Range(O[y]) \subseteq Range(O[n])
  <1> DEFINE S == {m \in Nodes : y \in Range(O[m]) => Range(O[y]) \subseteq Range(O[m])}
  <1>1. TypeOK /\ InOrder /\ Family
    BY DEF Ordered
  <1>2. ASSUME NEW m \in Nodes, \A c \in Children(m) : c \in S PROVE m \in S
    <2> SUFFICES ASSUME y \in Range(O[m]) PROVE Range(O[y]) \subseteq Range(O[m])
      OBVIOUS
    <2>1. CASE y = m
      BY <2>1
    <2>2. ASSUME NEW c \in Children(m), y \in Range(O[c]) PROVE Range(O[y]) \subseteq Range(O[m])
      BY <1>2, <2>2, RangeFacts
    <2> QED BY <2>1, <2>2, RangeFacts
  <1>3. Nodes \subseteq S
    <2> HIDE DEF S
    <2> QED BY <1>1, <1>2, TreeInduction
  <1> QED BY <1>3

LEMMA RangeParent ==
  ASSUME NEW O, Ordered(O), NEW n \in used, NEW x \in Range(O[n]), x # n
  PROVE  \E m \in Range(O[n]) : m \in used /\ Points(m, x)
  <1> DEFINE Has(m) == \E p \in Range(O[m]) : p \in used /\ Points(p, x)
             S == {m \in Nodes : m \in used /\ x \in Range(O[m]) /\ x # m => Has(m)}
  <1>1. TypeOK /\ InOrder /\ Family /\ used \subseteq Nodes
    BY DEF Ordered, TypeOK
  <1>2. ASSUME NEW m \in Nodes, \A c \in Children(m) : c \in S PROVE m \in S
    <2> SUFFICES ASSUME m \in used, x \in Range(O[m]), x # m PROVE Has(m)
      OBVIOUS
    <2>1. PICK c \in Children(m) : x \in Range(O[c])
      BY RangeFacts
    <2>2. /\ c \in used /\ Points(m, c) /\ m \in Range(O[m])
          /\ Range(O[c]) \subseteq Range(O[m])
      BY ChildFacts, RangeFacts
    <2>3. CASE x = c
      BY <2>2, <2>3
    <2>4. CASE x # c
      <3>1. Has(c)
        BY <1>2, <2>1, <2>2, <2>4
      <3> QED BY <2>2, <3>1
    <2> QED BY <2>3, <2>4
  <1>3. Nodes \subseteq S
    <2> HIDE DEF S
    <2> QED BY <1>1, <1>2, TreeInduction
  <1> QED BY <1>1, <1>3

\* Two nodes that have one in common below them are one below the other.
LEMMA RangeCommon ==
  ASSUME NEW O, Ordered(O), NEW a \in used, NEW b \in used,
         NEW x, x \in Range(O[a]), x \in Range(O[b])
  PROVE  a \in Range(O[b]) \/ b \in Range(O[a])
  <1> DEFINE S == {y \in Nat : y \in Range(O[a]) /\ y \in Range(O[b])}
  <1>1. used \subseteq Nodes /\ used \subseteq Nat /\ Family
    BY NodesAssumption DEF Ordered, TypeOK
  <1>2. Range(O[a]) \subseteq used
    BY RangeUsed
  <1>3. PICK y \in S : \A z \in S : y <= z
    <2>1. S \in SUBSET Nat /\ S # {}
      BY <1>1, <1>2
    <2> HIDE DEF S
    <2> QED BY <2>1, Least
  <1>4. CASE y # a /\ y # b
    <2>1. PICK m \in Range(O[a]) : m \in used /\ Points(m, y)
      BY <1>3, <1>4, RangeParent
    <2>2. PICK l \in Range(O[b]) : l \in used /\ Points(l, y)
      BY <1>3, <1>4, RangeParent
    <2>3. y \in Nodes
      BY <1>1, <1>2, <1>3
    <2>4. m = l /\ m < y
      BY <1>1, <2>1, <2>2, <2>3 DEF Family, OneParent, Below
    <2>5. m \in Nat /\ m \in S
      BY <1>1, <2>1, <2>2, <2>4
    <2> HIDE DEF S
    <2>6. y \in Nat
      BY <1>3 DEF S
    <2> QED BY <1>3, <2>4, <2>5, <2>6
  <1> QED BY <1>3, <1>4

\* The nodes below two children are different ones.
LEMMA SiblingsApart ==
  ASSUME NEW O, Ordered(O), NEW n \in Nodes, NEW a \in Children(n), NEW b \in Children(n), a # b,
         NEW x, x \in Range(O[a]), x \in Range(O[b])
  PROVE  FALSE
  <1>1. /\ a \in used /\ b \in used /\ n \in used /\ Points(n, a) /\ Points(n, b) /\ n < a /\ n < b
        /\ used \subseteq Nodes /\ used \subseteq Nat /\ Family
    BY ChildFacts, NodesAssumption DEF Ordered, TypeOK
  <1>2. ASSUME NEW c \in used, NEW d \in used, Points(n, c), Points(n, d), c # d, n < d, c \in Range(O[d])
        PROVE  FALSE
    <2>1. PICK m \in Range(O[d]) : m \in used /\ Points(m, c)
      BY <1>2, RangeParent
    <2>2. m = n
      BY <1>1, <1>2, <2>1 DEF Family, OneParent
    <2>3. d <= n
      BY <1>2, <2>1, <2>2, RangeUsed
    <2>4. n \in Nat /\ d \in Nat
      BY <1>1
    <2> QED BY <1>2, <2>3, <2>4
  <1>3. a \in Range(O[b]) \/ b \in Range(O[a])
    BY <1>1, RangeCommon
  <1> QED BY <1>1, <1>2, <1>3

\* A child has one place among those of its parent.
LEMMA BranchOnce ==
  ASSUME NEW O, Ordered(O), NEW n \in Nodes, NEW c, c # NULL, NEW d, NEW e,
         Branch(O, n, c, d), Branch(O, n, c, e)
  PROVE  d = e
  <1>1. c \in Children(n)
    BY DEF Branch, Children
  <1>2. n \in used
    BY <1>1, ChildFacts
  <1>3. /\ low[n] # NULL => low[n] # equal[n] /\ low[n] # high[n]
        /\ equal[n] # NULL => equal[n] # high[n]
    BY <1>2 DEF Ordered, Family, Apart
  <1>4. \A f : Branch(O, n, c, f) =>
          \/ c = low[n] /\ f = 0
          \/ c = equal[n] /\ f = Len(O[low[n]])
          \/ c = high[n] /\ f = Len(O[low[n]]) + Len(O[equal[n]])
    BY DEF Branch
  <1>5. CASE c = low[n]
    BY <1>3, <1>4, <1>5
  <1>6. CASE c # low[n] /\ c = equal[n]
    BY <1>3, <1>4, <1>6
  <1>7. CASE c # low[n] /\ c # equal[n]
    <2>1. PICK a : a = Len(O[low[n]]) + Len(O[equal[n]])
      OBVIOUS
    <2>2. \A f : Branch(O, n, c, f) => f = a
      BY <1>7, <2>1 DEF Branch
    <2> QED BY <2>2
  <1> QED BY <1>5, <1>6, <1>7

\* A node but the last is at the place it has in the order of a child.
LEMMA PlaceFacts ==
  ASSUME NEW O, Ordered(O), NEW n \in Nodes, NEW j \in 1 .. Len(O[n]), j # Len(O[n])
  PROVE  \E c, d : /\ Branch(O, n, c, d) /\ c \in Children(n) /\ c \in Nodes
                   /\ d \in Nat /\ O[c] \in Seq(Nodes) /\ Within(O[c], d, O[n])
                   /\ j - d \in 1 .. Len(O[c]) /\ O[n][j] = O[c][j - d]
                   /\ O[n][j] \in Range(O[c])
  <1>1. /\ O[n] \in Seq(Nodes) /\ Len(O[n]) \in Nat
        /\ \A c, d : Branch(O, n, c, d) =>
             /\ c \in Pointers /\ d \in Nat /\ O[c] \in Seq(Nodes) /\ Within(O[c], d, O[n])
        /\ \A k \in 1 .. Len(O[n]) : k = Len(O[n]) \/ \E c, d : Branch(O, n, c, d) /\ Covers(O[c], d, k)
    BY PostsFacts DEF Ordered
  <1>2. PICK c, d : Branch(O, n, c, d) /\ Covers(O[c], d, j)
    BY <1>1
  <1>3. c \in Pointers /\ d \in Nat /\ O[c] \in Seq(Nodes) /\ Within(O[c], d, O[n])
    BY <1>1, <1>2
  <1>4. j - d \in 1 .. Len(O[c])
    BY <1>2 DEF Covers
  <1>5. c # NULL
    BY <1>4 DEF Ordered, Posts
  <1>6. c \in Children(n) /\ c \in Nodes
    BY <1>2, <1>3, <1>5 DEF Branch, Children, Pointers
  <1>7. O[n][d + (j - d)] = O[c][j - d]
    BY <1>3, <1>4 DEF Within
  <1>8. d + (j - d) = j
    BY <1>3
  <1>9. O[c][j - d] \in Range(O[c])
    BY <1>3, <1>4 DEF Range
  <1> QED BY <1>2, <1>3, <1>4, <1>6, <1>7, <1>8, <1>9

\* No node comes twice.
LEMMA PostsOneToOne ==
  ASSUME NEW O, Ordered(O), NEW n \in used, NEW j \in 1 .. Len(O[n]), NEW k \in 1 .. Len(O[n]),
         O[n][j] = O[n][k]
  PROVE  j = k
  <1> DEFINE OneToOne(m) == \A p, q \in 1 .. Len(O[m]) : O[m][p] = O[m][q] => p = q
             S == {m \in Nodes : OneToOne(m)}
  <1>1. TypeOK /\ InOrder /\ Family /\ used \subseteq Nodes
    BY DEF Ordered, TypeOK
  <1>2. ASSUME NEW m \in Nodes, \A c \in Children(m) : c \in S PROVE m \in S
    <2> SUFFICES ASSUME NEW p \in 1 .. Len(O[m]), NEW q \in 1 .. Len(O[m]), O[m][p] = O[m][q]
                 PROVE  p = q
      OBVIOUS
    <2>1. O[m][Len(O[m])] = m
      BY PostsFacts DEF Ordered
    <2>2. ASSUME NEW c \in Children(m) PROVE m \notin Range(O[c])
      <3>1. c \in used /\ m \in used /\ m < c
        BY ChildFacts
      <3>2. m \in Range(O[c]) => c <= m
        BY <3>1, RangeUsed
      <3>3. m \in Nat /\ c \in Nat
        BY <1>1, <3>1, NodesAssumption
      <3> QED BY <3>1, <3>2, <3>3
    <2>3. CASE p # Len(O[m]) /\ q # Len(O[m])
      <3>1. PICK c, d : /\ Branch(O, m, c, d) /\ c \in Children(m) /\ c \in Nodes
                        /\ d \in Nat /\ p - d \in 1 .. Len(O[c]) /\ O[m][p] = O[c][p - d]
                        /\ O[m][p] \in Range(O[c])
        BY <2>3, PlaceFacts
      <3>2. PICK b, e : /\ Branch(O, m, b, e) /\ b \in Children(m) /\ b \in Nodes
                        /\ e \in Nat /\ q - e \in 1 .. Len(O[b]) /\ O[m][q] = O[b][q - e]
                        /\ O[m][q] \in Range(O[b])
        BY <2>3, PlaceFacts
      <3>3. b = c
        BY <3>1, <3>2, SiblingsApart
      <3>4. d = e
        BY <3>1, <3>2, <3>3, BranchOnce, NullAssumption
      <3>5. OneToOne(c)
        BY <1>2, <3>1
      <3>6. p - d = q - d
        BY <3>1, <3>2, <3>3, <3>4, <3>5
      <3> QED BY <3>1, <3>6
    <2>4. CASE p = Len(O[m]) /\ q # Len(O[m])
      <3>1. PICK c, d : c \in Children(m) /\ Branch(O, m, c, d) /\ O[m][q] \in Range(O[c])
        BY <2>4, PlaceFacts
      <3> QED BY <2>1, <2>2, <2>4, <3>1
    <2>5. CASE p # Len(O[m]) /\ q = Len(O[m])
      <3>1. PICK c, d : c \in Children(m) /\ Branch(O, m, c, d) /\ O[m][p] \in Range(O[c])
        BY <2>5, PlaceFacts
      <3> QED BY <2>1, <2>2, <2>5, <3>1
    <2> HIDE DEF OneToOne, S
    <2> QED BY <2>3, <2>4, <2>5
  <1>3. Nodes \subseteq S
    <2> HIDE DEF S
    <2> QED BY <1>1, <1>2, TreeInduction
  <1> QED BY <1>1, <1>3

LEMMA RangePlace ==
  ASSUME NEW V, NEW s \in Seq(V), NEW x \in Range(s)
  PROVE  \E r \in 1 .. Len(s) : s[r] = x
  BY DEF Range

\* A node comes after those below it.
LEMMA BelowIsBefore ==
  ASSUME NEW O, Ordered(O), NEW n \in used, NEW j \in 1 .. Len(O[n]), NEW k \in 1 .. Len(O[n]),
         O[n][j] # O[n][k], O[n][j] \in Range(O[O[n][k]])
  PROVE  j < k
  <1> DEFINE Sorted(m) == \A p, q \in 1 .. Len(O[m]) :
                            O[m][p] # O[m][q] /\ O[m][p] \in Range(O[O[m][q]]) => p < q
             S == {m \in Nodes : m \in used => Sorted(m)}
  <1>1. TypeOK /\ InOrder /\ Family /\ used \subseteq Nodes
    BY DEF Ordered, TypeOK
  <1>2. ASSUME NEW m \in Nodes, \A c \in Children(m) : c \in S PROVE m \in S
    <2> SUFFICES ASSUME m \in used, NEW p \in 1 .. Len(O[m]), NEW q \in 1 .. Len(O[m]),
                        O[m][p] # O[m][q], O[m][p] \in Range(O[O[m][q]])
                 PROVE  p < q
      OBVIOUS
    <2>1. /\ O[m][Len(O[m])] = m /\ Len(O[m]) \in Nat
      BY PostsFacts DEF Ordered
    <2>2. CASE q = Len(O[m])
      <3>1. p # q
        OBVIOUS
      <3> QED BY <2>1, <2>2, <3>1
    <2>3. CASE q # Len(O[m])
      <3>1. PICK c, d : /\ Branch(O, m, c, d) /\ c \in Children(m) /\ c \in Nodes
                        /\ d \in Nat /\ O[c] \in Seq(Nodes) /\ Within(O[c], d, O[m])
                        /\ q - d \in 1 .. Len(O[c]) /\ O[m][q] = O[c][q - d]
                        /\ O[m][q] \in Range(O[c])
        BY <2>3, PlaceFacts
      <3>2. c \in used /\ O[m][q] \in Nodes
        BY <1>1, <3>1, ChildFacts, RangeUsed
      <3>3. O[m][p] \in Range(O[c])
        BY <3>1, <3>2, RangeBelow
      <3>4. PICK r \in 1 .. Len(O[c]) : O[c][r] = O[m][p]
        BY <3>1, <3>3, RangePlace
      <3>5. d + r \in 1 .. Len(O[m]) /\ O[m][d + r] = O[m][p]
        BY <3>1, <3>4 DEF Within
      <3>6. d + r = p
        BY <3>5, PostsOneToOne
      <3>7. Sorted(c)
        BY <1>2, <3>1, <3>2
      <3>8. r < q - d
        BY <3>1, <3>4, <3>7
      <3> QED BY <3>1, <3>6, <3>8
    <2> QED BY <2>2, <2>3
  <1>3. Nodes \subseteq S
    <2> HIDE DEF S
    <2> QED BY <1>1, <1>2, TreeInduction
  <1> QED BY <1>1, <1>3

LEMMA Counting ==
  ASSUME NEW m \in Nat, NEW S, NEW f \in [1 .. m -> S],
         \A j, k \in 1 .. m : f[j] = f[k] => j = k,
         \A x \in S : \E j \in 1 .. m : f[j] = x
  PROVE  Cardinality(S) = m
  <1>1. f \in Bijection(1 .. m, S)
    BY Fun_IsBij
  <1>2. ExistsBijection(1 .. m, S)
    BY <1>1, Fun_ExistsBij
  <1> QED BY <1>2, FS_CountingElements

(* As many entries as different ones, when none comes twice. *)
LEMMA SizeOfRange ==
  ASSUME NEW V, NEW s \in Seq(V), \A j, k \in 1 .. Len(s) : s[j] = s[k] => j = k
  PROVE  Cardinality(Range(s)) = Len(s)
  <1>1. Len(s) \in Nat /\ DOMAIN s = 1 .. Len(s)
    OBVIOUS
  <1>2. s \in [1 .. Len(s) -> Range(s)] /\ \A x \in Range(s) : \E j \in 1 .. Len(s) : s[j] = x
    BY <1>1 DEF Range
  <1> QED BY <1>1, <1>2, Counting

\* Every node is below the root.
LEMMA RootReaches ==
  ASSUME NEW O, Ordered(O), root \in used
  PROVE  Range(O[root]) = used
  <1>1. used \subseteq Nodes /\ used \subseteq Nat /\ Family
    BY NodesAssumption DEF Ordered, TypeOK
  <1> DEFINE S == used \ Range(O[root])
  <1>2. Range(O[root]) \subseteq used
    BY RangeUsed
  <1> SUFFICES ASSUME S # {} PROVE FALSE
    BY <1>2
  <1>3. PICK x \in S : \A y \in S : x <= y
    <2>1. S \in SUBSET Nat
      BY <1>1
    <2> HIDE DEF S
    <2> QED BY <2>1, Least
  <1>4. x # root
    BY <1>1, RangeFacts
  <1>5. PICK m \in used : Points(m, x)
    BY <1>1, <1>4 DEF Family, Parented
  <1>6. m < x
    BY <1>1, <1>5 DEF Family, Below
  <1>7. m \in Range(O[root])
    BY <1>1, <1>3, <1>5, <1>6
  <1>8. x \in Children(m)
    BY <1>5 DEF Points, Children
  <1>9. x \in Range(O[m]) /\ x \in Range(O[x])
    BY <1>1, <1>8, RangeFacts
  <1>10. x \in Range(O[root])
    BY <1>1, <1>7, <1>9, RangeBelow
  <1> QED BY <1>10

\* The order of all nodes of the tree.
LEMMA WholeOrder ==
  ASSUME TypeOK, Shaped
  PROVE  \E O : /\ Ordered(O) /\ PostOrder(root) = O[root]
                /\ O[root] \in Seq(Nodes) /\ Range(O[root]) = used
                /\ \A j, k \in 1 .. Len(O[root]) : O[root][j] = O[root][k] => j = k
                /\ Len(O[root]) = Cardinality(used)
  <1>1. PICK O : Posts(O) /\ \A m \in Pointers : PostOrder(m) = O[m]
    BY PostOrderFacts DEF Shaped
  <1>2. root \in Pointers /\ used \subseteq Nodes
    BY DEF TypeOK, Pointers
  <1>3. Ordered(O) /\ O[root] \in Seq(Nodes)
    BY <1>1, <1>2 DEF Ordered, Shaped, Posts
  <1>4. /\ Range(O[root]) = used
        /\ \A j, k \in 1 .. Len(O[root]) : O[root][j] = O[root][k] => j = k
    <2>1. CASE root = NULL
      <3>1. O[root] = <<>> /\ used = {}
        BY <1>1, <2>1 DEF Posts, Shaped, Family, NoneYet
      <3>2. 1 .. Len(<<>>) = {} /\ Range(<<>>) = {}
        BY DEF Range
      <3> QED BY <3>1, <3>2
    <2>2. CASE root # NULL
      <3>1. root \in used
        BY <2>2 DEF TypeOK
      <3> QED BY <1>3, <3>1, RootReaches, PostsOneToOne
    <2> QED BY <2>1, <2>2
  <1>5. Len(O[root]) = Cardinality(used)
    BY <1>3, <1>4, SizeOfRange
  <1> QED BY <1>1, <1>2, <1>3, <1>4, <1>5

(* TSTree_destroy reaches every node there is and frees none twice, whatever *)
(* was inserted in whatever order.                                           *)
THEOREM DestroyAlwaysFreesAll == Spec => []DestroyFreesAll
  <1>1. TypeOK /\ Shaped => DestroyFreesAll
    BY WholeOrder DEF DestroyFreesAll, TSTree_destroy
  <1>2. IInv => TypeOK
    BY DEF IInv
  <1> QED BY <1>1, <1>2, SpecIInv, SpecShaped, PTL

----------------------------------------------------------------------------
(* The values of the nodes, in that order.                                  *)

LEMMA TraverseFacts ==
  ASSUME TypeOK, Shaped
  PROVE  /\ TSTree_traverse \in Seq(Names) /\ Range(TSTree_traverse) = Stored
         /\ \A j, k \in 1 .. Len(TSTree_traverse) :
              TSTree_traverse[j] = TSTree_traverse[k] => j = k
         /\ \E O : /\ Ordered(O) /\ O[root] \in Seq(Nodes) /\ Range(O[root]) = used
                   /\ \E e \in Seq(1 .. Len(O[root])) :
                        /\ Len(e) = Len(TSTree_traverse)
                        /\ \A j, k \in 1 .. Len(e) : j < k => e[j] < e[k]
                        /\ \A j \in 1 .. Len(e) : TSTree_traverse[j] = value[O[root][e[j]]]
  <1> DEFINE t == TSTree_traverse
             valued == {n \in used : value[n] # NULL}
             found == Select(PostOrder(root), valued)
  <1>1. PICK O : /\ Ordered(O) /\ PostOrder(root) = O[root]
                 /\ O[root] \in Seq(Nodes) /\ Range(O[root]) = used
                 /\ \A j, k \in 1 .. Len(O[root]) : O[root][j] = O[root][k] => j = k
    BY WholeOrder
  <1>2. PICK p : p = O[root]
    OBVIOUS
  <1>3. p \in Seq(Nodes) /\ found = Select(p, valued)
    BY <1>1, <1>2
  <1>4. PICK e : Places(e, p, valued) /\ found = [m \in 1 .. Len(e) |-> p[e[m]]]
    <2> HIDE DEF found, valued
    <2> QED BY <1>3, SelectPlaces
  <1>5. /\ e \in Seq(1 .. Len(p)) /\ Len(e) \in Nat
        /\ \A j, k \in 1 .. Len(e) : j < k => e[j] < e[k]
        /\ {e[m] : m \in 1 .. Len(e)} = {j \in 1 .. Len(p) : p[j] \in valued}
    <2> HIDE DEF valued
    <2> QED BY <1>4 DEF Places
  <1>6. \A j \in 1 .. Len(e) : e[j] \in 1 .. Len(p) /\ p[e[j]] \in valued
    BY <1>5
  <1>7. t = [j \in 1 .. Len(e) |-> value[p[e[j]]]]
    <2>1. DOMAIN found = 1 .. Len(e) /\ \A j \in 1 .. Len(e) : found[j] = p[e[j]]
      <3> HIDE DEF found, valued
      <3> QED BY <1>4
    <2>2. t = [j \in DOMAIN found |-> value[found[j]]]
      BY DEF TSTree_traverse
    <2> HIDE DEF found, valued, t
    <2> QED BY <2>1, <2>2
  <1> HIDE DEF t
  <1>8. used \subseteq Nodes /\ value \in [Nodes -> Names \cup {NULL}]
    BY DEF TypeOK
  <1>9. ASSUME NEW j \in 1 .. Len(e) PROVE t[j] = value[p[e[j]]] /\ t[j] \in Names
    BY <1>6, <1>7, <1>8
  <1>10. t \in Seq(Names) /\ Len(t) = Len(e)
    <2>1. t = [j \in 1 .. Len(e) |-> t[j]]
      BY <1>7
    <2>2. t \in [1 .. Len(e) -> Names]
      BY <1>9, <2>1
    <2> HIDE DEF valued
    <2> QED BY <1>5, <2>2
  <1>11. Range(t) = Stored
    <2>1. DOMAIN t = 1 .. Len(e)
      BY <1>7
    <2>2. ASSUME NEW k \in Stored PROVE k \in Range(t)
      <3>1. PICK n \in used : value[n] = k /\ k # NULL
        BY DEF Stored
      <3>2. PICK j \in 1 .. Len(p) : p[j] = n
        BY <1>1, <1>2, <3>1, RangePlace
      <3>3. j \in {e[m] : m \in 1 .. Len(e)}
        BY <1>5, <3>1, <3>2
      <3>4. PICK m \in 1 .. Len(e) : e[m] = j
        BY <3>3
      <3>5. t[m] = k
        BY <1>9, <3>1, <3>2, <3>4
      <3> QED BY <2>1, <3>5 DEF Range
    <2>3. ASSUME NEW j \in 1 .. Len(e) PROVE t[j] \in Stored
      BY <1>6, <1>9 DEF Stored
    <2> QED BY <2>1, <2>2, <2>3 DEF Range
  <1>12. ASSUME NEW j \in 1 .. Len(t), NEW k \in 1 .. Len(t), t[j] = t[k] PROVE j = k
    <2>1. j \in 1 .. Len(e) /\ k \in 1 .. Len(e)
      BY <1>10
    <2>2. p[e[j]] = p[e[k]]
      BY <1>6, <1>9, <1>12, <2>1 DEF Shaped, Once
    <2>3. e[j] = e[k]
      BY <1>1, <1>2, <1>6, <2>1, <2>2
    <2>4. ~(j < k) /\ ~(k < j)
      BY <1>5, <1>6, <2>1, <2>3
    <2> QED BY <2>1, <2>4
  <1> HIDE DEF valued, found
  <1>13. \E f \in Seq(1 .. Len(O[root])) :
           /\ Len(f) = Len(t)
           /\ \A j, k \in 1 .. Len(f) : j < k => f[j] < f[k]
           /\ \A j \in 1 .. Len(f) : t[j] = value[O[root][f[j]]]
    BY <1>2, <1>5, <1>9, <1>10
  <1>14. \E Q : /\ Ordered(Q) /\ Q[root] \in Seq(Nodes) /\ Range(Q[root]) = used
                /\ \E f \in Seq(1 .. Len(Q[root])) :
                     /\ Len(f) = Len(t)
                     /\ \A j, k \in 1 .. Len(f) : j < k => f[j] < f[k]
                     /\ \A j \in 1 .. Len(f) : t[j] = value[Q[root][f[j]]]
    BY <1>1, <1>13
  <1>15. t \in Seq(Names) /\ Range(t) = Stored /\ \A j, k \in 1 .. Len(t) : t[j] = t[k] => j = k
    BY <1>10, <1>11, <1>12
  <1> QED BY <1>14, <1>15 DEF t

\* A name is below every node it has come to.
LEMMA NameIsBelow ==
  ASSUME TreeOK, Once, ~Inserting, NEW O, Ordered(O), NEW q \in used, value[q] # NULL,
         NEW n \in used, value[q] \in under[n]
  PROVE  q \in Range(O[n])
  <1> DEFINE k == value[q]
             S == {m \in Nodes : m \in used /\ k \in under[m] => q \in Range(O[m])}
  <1>1. TypeOK /\ InOrder /\ Family /\ used \subseteq Nodes
    BY DEF Ordered, TypeOK
  <1>2. k \in Names /\ k \in Seq(Int) /\ Len(k) \in Nat
    <2>1. k \in Names
      BY <1>1 DEF TypeOK
    <2> QED BY <2>1, NameFacts
  <1>3. ASSUME NEW m \in Nodes, \A c \in Children(m) : c \in S PROVE m \in S
    <2> SUFFICES ASSUME m \in used, k \in under[m] PROVE q \in Range(O[m])
      OBVIOUS
    <2>1. Way(m, k)
      BY DEF TreeOK, Ways
    <2>2. pre[m] \in Seq(Int) /\ splitchar[m] \in Int /\ Len(pre[m]) \in Nat
      BY <1>1 DEF TypeOK, Strings
    <2>3. Len(pre[m]) + 1 \in 1 .. Len(k)
      BY <1>2, <2>1, <2>2 DEF Way
    <2>4. k[Len(pre[m]) + 1] \in Int
      BY <1>2, <2>3
    <2>5. value[m] = k \/ \E c \in Children(m) : k \in under[c]
      <3> HIDE DEF k
      <3>1. \/ k[Len(pre[m]) + 1] < splitchar[m] \/ k[Len(pre[m]) + 1] > splitchar[m]
            \/ k[Len(pre[m]) + 1] = splitchar[m]
        BY <2>2, <2>4
      <3> QED BY <2>1, <3>1 DEF Way, Children
    <2>6. CASE value[m] = k
      <3>1. m = q
        BY <2>6 DEF Once
      <3> QED BY <3>1, RangeFacts
    <2>7. ASSUME NEW c \in Children(m), k \in under[c] PROVE q \in Range(O[m])
      <3>1. c \in used /\ c \in S
        BY <1>3, ChildFacts
      <3> QED BY <2>7, <3>1, RangeFacts
    <2> QED BY <2>5, <2>6, <2>7
  <1>4. Nodes \subseteq S
    <2> HIDE DEF S
    <2> QED BY <1>1, <1>3, TreeInduction
  <1> QED BY <1>1, <1>4

\* A name that extends another one has come to its node.
LEMMA ExtensionsComeBy ==
  ASSUME TypeOK, TreeOK, Shaped, ~Inserting, NEW n \in used, value[n] # NULL,
         NEW k \in Stored, Extends(k, value[n])
  PROVE  k \in under[n]
  <1> DEFINE p == value[n]
             S == {m \in Nodes : m \in used /\ p \in under[m] /\ k \in under[m] => k \in under[n]}
  <1>1. InOrder /\ Family /\ Once /\ used \subseteq Nodes
    BY DEF Shaped, TypeOK
  <1>2. p \in Names /\ k \in Names /\ p \in Stored
    BY <1>1 DEF TypeOK, Stored
  <1>3. /\ p \in Seq(Int) /\ Len(p) \in Nat /\ k \in Seq(Int) /\ Len(k) \in Nat
        /\ Len(p) < Len(k) /\ \A j \in 1 .. Len(p) : p[j] = k[j]
    BY <1>2, NameFacts DEF Extends, Map!Extends
  <1>4. ASSUME NEW m \in Nodes, \A c \in Children(m) : c \in S PROVE m \in S
    <2> SUFFICES ASSUME m \in used, p \in under[m], k \in under[m] PROVE k \in under[n]
      OBVIOUS
    <2> HIDE DEF p
    <2>1. Way(m, p) /\ Way(m, k)
      BY DEF TreeOK, Ways
    <2>2. pre[m] \in Seq(Int) /\ splitchar[m] \in Int /\ Len(pre[m]) \in Nat
      BY <1>1 DEF TypeOK, Strings
    <2>3. PICK l : l = Len(pre[m]) + 1
      OBVIOUS
    <2>4. l \in 1 .. Len(p) /\ l \in 1 .. Len(k) /\ l < Len(k)
      <3>1. Len(pre[m]) < Len(p)
        BY <2>1 DEF Way
      <3>2. PICK x, y, z : x = Len(pre[m]) /\ y = Len(p) /\ z = Len(k)
        OBVIOUS
      <3>3. x \in Nat /\ y \in Nat /\ z \in Nat /\ x < y /\ y < z /\ l = x + 1
        BY <1>3, <2>2, <2>3, <3>1, <3>2
      <3>4. l \in 1 .. y /\ l \in 1 .. z /\ l < z
        BY <3>3
      <3> QED BY <3>2, <3>4
    <2>5. p[l] = k[l] /\ p[l] \in Int
      BY <1>3, <2>4
    <2>6. \/ value[m] = p
          \/ \E c \in Children(m) : p \in under[c] /\ k \in under[c]
      <3>1. CASE p[l] < splitchar[m]
        BY <2>1, <2>3, <2>5, <3>1 DEF Way, Children
      <3>2. CASE p[l] > splitchar[m]
        BY <2>1, <2>3, <2>5, <3>2 DEF Way, Children
      <3>3. CASE p[l] = splitchar[m] /\ l < Len(p)
        BY <2>1, <2>3, <2>4, <2>5, <3>3 DEF Way, Children
      <3>4. CASE p[l] = splitchar[m] /\ ~(l < Len(p))
        BY <2>1, <2>3, <3>4 DEF Way
      <3> QED BY <2>2, <2>5, <3>1, <3>2, <3>3, <3>4
    <2>7. CASE value[m] = p
      <3>1. m = n
        BY <1>1, <2>7 DEF Once, p
      <3> QED BY <3>1
    <2>8. ASSUME NEW c \in Children(m), p \in under[c], k \in under[c] PROVE k \in under[n]
      <3>1. c \in Nodes /\ Points(m, c)
        BY DEF Children, Points, TypeOK, Pointers
      <3>2. c \in used
        BY <1>1, <3>1 DEF Family, Below
      <3> QED BY <1>4, <2>8, <3>2
    <2> QED BY <2>6, <2>7, <2>8
  <1>5. Nodes \subseteq S
    <2> HIDE DEF S
    <2> QED BY <1>1, <1>4, TreeInduction
  <1>6. root \in used /\ p \in under[root] /\ k \in under[root]
    BY <1>2 DEF TreeOK, Rooted, TypeOK
  <1> HIDE DEF p
  <1> QED BY <1>1, <1>5, <1>6

\* A name comes after those that extend it.
LEMMA TraverseOrder ==
  ASSUME TypeOK, TreeOK, Shaped, ~Inserting,
         NEW j \in 1 .. Len(TSTree_traverse), NEW k \in 1 .. Len(TSTree_traverse),
         Extends(TSTree_traverse[j], TSTree_traverse[k])
  PROVE  j < k
  <1> DEFINE t == TSTree_traverse
  <1>1. PICK O : /\ Ordered(O) /\ O[root] \in Seq(Nodes) /\ Range(O[root]) = used
                 /\ \E e \in Seq(1 .. Len(O[root])) :
                        /\ Len(e) = Len(TSTree_traverse)
                        /\ \A l, m \in 1 .. Len(e) : l < m => e[l] < e[m]
                        /\ \A l \in 1 .. Len(e) : TSTree_traverse[l] = value[O[root][e[l]]]
    BY TraverseFacts
  <1>2. PICK e \in Seq(1 .. Len(O[root])) :
          /\ Len(e) = Len(TSTree_traverse)
          /\ \A l, m \in 1 .. Len(e) : l < m => e[l] < e[m]
          /\ \A l \in 1 .. Len(e) : TSTree_traverse[l] = value[O[root][e[l]]]
    BY <1>1
  <1>3. t \in Seq(Names) /\ Range(t) = Stored
    BY TraverseFacts
  <1>4. t[j] \in Names /\ t[k] \in Names /\ t[j] \in Stored /\ t[k] \in Stored
    BY <1>3 DEF Range
  <1>5. PICK x, y : x = O[root][e[j]] /\ y = O[root][e[k]]
    OBVIOUS
  <1>6. e[j] \in 1 .. Len(O[root]) /\ e[k] \in 1 .. Len(O[root])
    BY <1>2
  <1>7. x \in used /\ y \in used /\ value[x] = t[j] /\ value[y] = t[k]
    BY <1>1, <1>2, <1>5, <1>6 DEF Range
  <1>8. Extends(t[j], t[k]) /\ t[j] # NULL /\ t[k] # NULL
    BY <1>4, NameFacts
  <1> HIDE DEF t
  <1>9. value[x] \in under[y]
    BY <1>4, <1>7, <1>8, ExtensionsComeBy
  <1>10. x \in Range(O[y])
    BY <1>1, <1>7, <1>8, <1>9, NameIsBelow DEF Shaped
  <1>11. x # y
    <2>1. Len(t[j]) \in Nat /\ Len(t[k]) \in Nat /\ Len(t[k]) < Len(t[j])
      BY <1>4, <1>8, NameFacts DEF Extends, Map!Extends
    <2>2. t[j] # t[k]
      BY <2>1
    <2> QED BY <1>7, <2>2
  <1>12. root \in used
    <2>1. root # NULL
      BY <1>4 DEF TreeOK, Rooted
    <2> QED BY <2>1 DEF TypeOK
  <1>13. e[j] < e[k]
    BY <1>1, <1>5, <1>6, <1>10, <1>11, <1>12, BelowIsBefore
  <1>14. ~(k < j) /\ j # k
    BY <1>2, <1>6, <1>13
  <1> QED BY <1>14

----------------------------------------------------------------------------
(* The text of the list.                                                    *)

LEMMA NothingFacts ==
  ASSUME NEW oom \in BOOLEAN
  PROVE  bfromcstr(<<>>, oom) \ {NullBstr} = {[data |-> <<>>, mlen |-> 8]}
  <1>1. snapUpSize(2) = 8 /\ Len(<<>>) = 0
    BY DEF snapUpSize
  <1>2. ~(8 <= 0 \/ 8 > IntMax)
    BY IntMaxAssumption
  <1>3. bfromcstr(<<>>, oom) =
          {[data |-> <<>>, mlen |-> 8]} \cup (IF oom THEN {NullBstr} ELSE {})
    BY <1>1, <1>2 DEF bfromcstr
  <1>4. [data |-> <<>>, mlen |-> 8] # NullBstr
    BY DEF NullBstr
  <1> QED BY <1>3, <1>4

LEMMA KeyFacts ==
  ASSUME NEW k \in Names
  PROVE  /\ KeyOf(k) \in Bstring
         /\ KeyOf(k) # NullBstr => KeyOf(k).data = k
         /\ Len(k) < IntMax => KeyOf(k) # NullBstr
  <1> DEFINE size == snapUpSize(Len(k) + 1)
             rec == [data |-> k, mlen |-> size]
  <1>1. k \in Seq(Int) /\ Len(k) \in Nat /\ k # <<>> /\ IntMax \in Nat
    BY NameFacts, NamesAssumption, IntMaxAssumption
  <1>2. bfromcstr(k, FALSE) = IF size <= Len(k) \/ size > IntMax THEN {NullBstr} ELSE {rec}
    BY <1>1 DEF bfromcstr
  <1>3. KeyOf(k) \in bfromcstr(k, FALSE)
    BY <1>2 DEF KeyOf
  <1>4. NullBstr \in Bstring
    BY DEF NullBstr, Bstring
  <1>5. CASE Len(k) < IntMax
    <2>1. size \in Nat /\ size <= IntMax /\ size >= Len(k) + 1
      BY <1>1, <1>5, SnapFacts
    <2>2. ~(size <= Len(k) \/ size > IntMax) /\ size # 0
      BY <1>1, <2>1
    <2>3. KeyOf(k) = rec
      BY <1>2, <1>3, <2>2
    <2>4. rec \in Bstring /\ rec # NullBstr /\ rec.data = k
      BY <1>1, <2>1, <2>2 DEF Bstring, NullBstr
    <2> QED BY <2>3, <2>4
  <1>6. CASE ~(Len(k) < IntMax)
    <2>1. \A p \in NextPower(Len(k) + 1) : p \in Nat /\ Len(k) + 1 < p /\ p <= IntMax
      BY DEF NextPower, PowersOfTwo
    <2>2. NextPower(Len(k) + 1) = {}
      BY <1>1, <1>6, <2>1
    <2>3. size = Len(k) + 1
      BY <1>1, <1>6, <2>2, IntMaxAssumption DEF snapUpSize
    <2>4. size > IntMax
      BY <1>1, <1>6, <2>3
    <2>5. KeyOf(k) = NullBstr
      BY <1>2, <1>3, <2>4
    <2> QED BY <1>4, <1>6, <2>5
  <1> QED BY <1>5, <1>6

LEMMA ConcatFacts ==
  ASSUME NEW b, Valid(b), NEW c \in Bstring, NEW oom \in BOOLEAN, NEW r \in bconcat(b, c, oom)
  PROVE  /\ Valid(r.b)
         /\ r.rc = BSTR_OK => r.b.data = b.data \o c.data
         /\ ~oom /\ c # NullBstr /\ Len(b.data) + Len(c.data) + 1 <= IntMax => r.rc = BSTR_OK
  <1> DEFINE len == blength(b) + blength(c)
             R(m) == IF m = 0 THEN [rc |-> BSTR_ERR, b |-> b]
                     ELSE [rc |-> BSTR_OK, b |-> [data |-> b.data \o c.data, mlen |-> m]]
  <1>1. /\ b \in Bstring /\ b.data \in Seq(Int) /\ c.data \in Seq(Int) /\ b.mlen \in Nat
        /\ Len(b.data) \in Nat /\ Len(c.data) \in Nat /\ Len(b.data) + 1 <= b.mlen
        /\ b.mlen <= IntMax /\ IntMax \in Nat /\ b # NullBstr
    BY IntMaxAssumption DEF Valid, Bstring, NullBstr
  <1> HIDE DEF len, R
  <1>a. PICK u, v, n : u = b.data /\ v = c.data /\ n = len
    OBVIOUS
  <1>2. /\ u \in Seq(Int) /\ v \in Seq(Int) /\ Len(u) \in Nat /\ Len(v) \in Nat /\ n \in Nat
        /\ n = Len(u) + Len(v) /\ u \o v \in Seq(Int) /\ Len(u \o v) = n /\ Len(u) + 1 <= b.mlen
    <2>1. u \in Seq(Int) /\ v \in Seq(Int)
      BY <1>1, <1>a
    <2>2. n = Len(u) + Len(v)
      BY <1>a DEF len, blength
    <2>3. Len(u) \in Nat /\ Len(v) \in Nat /\ u \o v \in Seq(Int) /\ Len(u \o v) = Len(u) + Len(v)
      BY <2>1
    <2>4. n \in Nat /\ Len(u \o v) = n
      BY <2>2, <2>3
    <2>5. Len(u) + 1 <= b.mlen
      BY <1>1, <1>a
    <2> QED BY <2>1, <2>2, <2>3, <2>4, <2>5
  <1>4. ASSUME r = R(0), oom \/ c = NullBstr \/ n + 1 > IntMax
        PROVE  /\ Valid(r.b)
               /\ r.rc = BSTR_OK => r.b.data = b.data \o c.data
               /\ ~oom /\ c # NullBstr /\ Len(b.data) + Len(c.data) + 1 <= IntMax => r.rc = BSTR_OK
    <2>1. r.rc # BSTR_OK /\ r.b = b
      BY <1>4 DEF BSTR_ERR, BSTR_OK, R
    <2>2. oom \/ c = NullBstr \/ ~(Len(b.data) + Len(c.data) + 1 <= IntMax)
      <3>1. Len(b.data) + Len(c.data) = n
        BY <1>2, <1>a
      <3>2. n + 1 > IntMax => ~(n + 1 <= IntMax)
        BY <1>1, <1>2
      <3> QED BY <1>4, <3>1, <3>2
    <2> QED BY <2>1, <2>2
  <1>5. CASE c = NullBstr \/ n > IntMax
    <2>1. r = R(0)
      BY <1>5, <1>a DEF bconcat, len, R
    <2>2. c = NullBstr \/ n + 1 > IntMax
      BY <1>1, <1>2, <1>5
    <2> QED BY <1>4, <2>1, <2>2
  <1>6. CASE ~(c = NullBstr \/ n > IntMax)
    <2> DEFINE M == IF b.mlen <= n + 1 THEN balloc(b, n + 1, oom) ELSE {b.mlen}
    <2>1. PICK m \in M : r = R(m)
      BY <1>1, <1>6, <1>a DEF bconcat, len, R
    <2>2. n + 1 \in Nat /\ n + 1 > 0
      BY <1>2
    <2>3. ASSUME m # 0 PROVE m \in Nat /\ m <= IntMax /\ n + 1 <= m
      <3>1. CASE b.mlen <= n + 1
        <4>1. m \in balloc(b, n + 1, oom)
          BY <2>1, <3>1
        <4> QED BY <1>1, <2>2, <2>3, <4>1, BallocFacts
      <3>2. CASE ~(b.mlen <= n + 1)
        <4>1. m = b.mlen
          BY <2>1, <3>2
        <4> QED BY <1>1, <2>2, <3>2, <4>1
      <3> QED BY <3>1, <3>2
    <2>4. ASSUME m = 0 PROVE oom \/ n + 1 > IntMax
      <3> SUFFICES ASSUME ~oom, n + 1 <= IntMax PROVE FALSE
        BY <1>1, <2>2
      <3>1. snapUpSize(n + 1) \in Nat /\ snapUpSize(n + 1) >= 8
        BY <2>2, SnapFacts
      <3>2. b.mlen # 0
        BY <1>1
      <3>3. 0 \in balloc(b, n + 1, oom)
        BY <2>1, <2>4, <3>2
      <3>4. balloc(b, n + 1, oom) \subseteq {b.mlen, snapUpSize(n + 1)}
        <4>1. ~(b.mlen = 0 \/ n + 1 <= 0 \/ n + 1 > IntMax)
          BY <1>1, <2>2, <3>2
        <4> QED BY <4>1 DEF balloc, Sizes
      <3> QED BY <3>1, <3>2, <3>3, <3>4
    <2>5. CASE m = 0
      BY <1>4, <2>1, <2>4, <2>5
    <2>6. CASE m # 0
      <3>1. r.rc = BSTR_OK /\ r.b = [data |-> b.data \o c.data, mlen |-> m]
        BY <2>1, <2>6 DEF R
      <3>2. r.b \in Bstring /\ r.b.data = b.data \o c.data /\ r.b.mlen = m
        BY <1>2, <1>a, <2>3, <2>6, <3>1 DEF Bstring
      <3>3. Valid(r.b)
        BY <1>2, <1>a, <2>3, <2>6, <3>2 DEF Valid
      <3> QED BY <3>1, <3>2, <3>3
    <2> QED BY <2>5, <2>6
  <1> QED BY <1>5, <1>6

LEMMA CharFacts ==
  ASSUME NEW b, Valid(b), NEW c \in Int, NEW oom \in BOOLEAN, NEW r \in bconchar(b, c, oom)
  PROVE  /\ Valid(r.b)
         /\ r.b.data = b.data \/ r.b.data = Append(b.data, c)
         /\ ~oom /\ Len(b.data) + 2 <= IntMax => r.b.data = Append(b.data, c)
  <1> DEFINE len == blength(b)
  <1>1. /\ b \in Bstring /\ b.data \in Seq(Int) /\ b.mlen \in Nat
        /\ Len(b.data) \in Nat /\ Len(b.data) + 1 <= b.mlen
        /\ b.mlen <= IntMax /\ IntMax \in Nat
    BY IntMaxAssumption DEF Valid, Bstring
  <1>2. /\ len \in Nat /\ len = Len(b.data)
        /\ Len(Append(b.data, c)) = len + 1 /\ Append(b.data, c) \in Seq(Int)
    BY <1>1 DEF blength
  <1>3. PICK m \in balloc(b, len + 2, oom) :
          r = IF m = 0 THEN [rc |-> BSTR_ERR, b |-> b]
              ELSE [rc |-> BSTR_OK, b |-> [data |-> Append(b.data, c), mlen |-> m]]
    BY DEF bconchar
  <1> HIDE DEF len
  <1>4. m # 0 => m \in Nat /\ m <= IntMax /\ len + 2 <= m
    <2>1. len + 2 \in Nat
      BY <1>2
    <2> QED BY <1>1, <1>3, <2>1, BallocFacts
  <1>5. ~oom /\ len + 2 <= IntMax => m # 0
    <2> SUFFICES ASSUME ~oom, len + 2 <= IntMax PROVE m # 0
      OBVIOUS
    <2>1. snapUpSize(len + 2) # 0
      BY <1>2, SnapFacts
    <2> QED BY <1>1, <1>2, <1>3, <2>1 DEF balloc, Sizes
  <1>6. CASE m = 0
    BY <1>2, <1>3, <1>5, <1>6
  <1>7. CASE m # 0
    <2>1. r.b = [data |-> Append(b.data, c), mlen |-> m]
      BY <1>3, <1>7
    <2>2. Valid(r.b)
      BY <1>2, <1>4, <1>7, <2>1 DEF Valid, Bstring
    <2> QED BY <2>1, <2>2
  <1> QED BY <1>6, <1>7

\* What one name adds to the text, or what is there of it without the memory.
LEMMA TreeTextFacts ==
  ASSUME NEW b, Valid(b), NEW k \in Names, NEW D, NEW oom \in BOOLEAN,
         NEW r \in traverse_tree(k, D, b, oom)
  PROVE  /\ Valid(r)
         /\ k \in D => r = b
         /\ k \notin D /\ ~oom /\ Len(b.data) + Len(k) + 2 <= IntMax =>
              r.data = Append(b.data \o k, NewLine)
  <1>1. /\ IntMax \in Nat /\ Len(k) \in Nat /\ k \in Seq(Int) /\ b.data \in Seq(Int)
        /\ Len(b.data) \in Nat /\ NewLine \in Int
    BY NameFacts, IntMaxAssumption DEF Valid, Bstring, NewLine
  <1>2. CASE k \in D
    BY <1>2 DEF traverse_tree
  <1>3. CASE k \notin D
    <2> DEFINE M(q) == IF q.rc = BSTR_OK THEN {x.b : x \in bconchar(q.b, NewLine, oom)} ELSE {q.b}
    <2>1. PICK c : c = KeyOf(k)
      OBVIOUS
    <2>2. c \in Bstring /\ (c # NullBstr => c.data = k) /\ (Len(k) < IntMax => c # NullBstr)
      BY <2>1, KeyFacts
    <2>3. traverse_tree(k, D, b, oom) = UNION {M(q) : q \in bconcat(b, c, oom)}
      BY <1>3, <2>1 DEF traverse_tree
    <2>4. PICK q \in bconcat(b, c, oom) : r \in M(q)
      <3> HIDE DEF M
      <3> QED BY <2>3
    <2>5. Valid(q.b) /\ (q.rc = BSTR_OK => q.b.data = b.data \o c.data)
      BY <2>2, ConcatFacts
    <2>6. ASSUME ~oom, Len(b.data) + Len(k) + 2 <= IntMax
          PROVE  q.rc = BSTR_OK /\ q.b.data = b.data \o k
      <3>1. Len(k) < IntMax
        BY <1>1, <2>6
      <3>2. c # NullBstr /\ c.data = k
        BY <2>2, <3>1
      <3>3. Len(b.data) + Len(c.data) + 1 <= IntMax
        BY <1>1, <2>6, <3>2
      <3>4. q.rc = BSTR_OK
        BY <2>2, <2>6, <3>2, <3>3, ConcatFacts
      <3> QED BY <2>5, <3>2, <3>4
    <2>7. CASE q.rc = BSTR_OK
      <3>1. PICK x \in bconchar(q.b, NewLine, oom) : r = x.b
        BY <2>4, <2>7
      <3>2. PICK d : d = q.b
        OBVIOUS
      <3>3. Valid(d) /\ x \in bconchar(d, NewLine, oom)
        BY <2>5, <3>1, <3>2
      <3>4. Valid(x.b) /\ (~oom /\ Len(d.data) + 2 <= IntMax => x.b.data = Append(d.data, NewLine))
        BY <1>1, <3>3, CharFacts
      <3>5. ASSUME ~oom, Len(b.data) + Len(k) + 2 <= IntMax
            PROVE  r.data = Append(b.data \o k, NewLine)
        <4>1. d.data = b.data \o k
          BY <2>6, <3>2, <3>5
        <4>2. Len(b.data \o k) = Len(b.data) + Len(k)
          <5> DEFINE u == b.data
          <5>1. u \in Seq(Int)
            BY <1>1
          <5> HIDE DEF u
          <5>2. Len(u \o k) = Len(u) + Len(k)
            BY <1>1, <5>1
          <5> QED BY <5>2 DEF u
        <4> QED BY <3>1, <3>4, <3>5, <4>1, <4>2
      <3> QED BY <1>3, <3>1, <3>4, <3>5
    <2>8. CASE q.rc # BSTR_OK
      <3>1. r = q.b
        BY <2>4, <2>8
      <3> QED BY <1>3, <2>5, <2>6, <2>8, <3>1
    <2> QED BY <2>7, <2>8
  <1> QED BY <1>2, <1>3

\* What sslist has accumulated after each name.
Accumulates(A, t, D, oom) ==
  /\ A[0] = bfromcstr(<<>>, oom) \ {NullBstr}
  /\ \A n \in 1 .. Len(t) : A[n] = UNION {traverse_tree(t[n], D, b, oom) : b \in A[n - 1]}
  /\ \A n \in 0 .. Len(t) : \A b \in A[n] : Valid(b)

LEMMA AccumulatedFacts ==
  ASSUME TypeOK, Shaped, NEW D, NEW oom \in BOOLEAN
  PROVE  \E A : /\ Accumulates(A, TSTree_traverse, D, oom)
                /\ \A j \in 0 .. Len(TSTree_traverse) : Accumulated(D, j, oom) = A[j]
  <1> DEFINE s == TSTree_traverse
             W == {b \in Bstring : Valid(b)}
             V == SUBSET W
             start == bfromcstr(<<>>, oom) \ {NullBstr}
             Nx(n, B) == UNION {traverse_tree(s[n], D, b, oom) : b \in B}
             step == [n \in Nat |-> [B \in V |-> IF n \in 1 .. Len(s) THEN Nx(n, B) ELSE B]]
             IsA(A) == A = [n \in 0 .. Len(s) |-> IF n = 0 THEN start ELSE Nx(n, A[n - 1])]
             C == CHOOSE f : IsA(f)
  <1>1. s \in Seq(Names) /\ Len(s) \in Nat
    BY TraverseFacts
  <1> HIDE DEF s
  <1>2. start \in V
    <2>1. start = {[data |-> <<>>, mlen |-> 8]}
      BY NothingFacts
    <2>2. [data |-> <<>>, mlen |-> 8] \in Bstring
      BY DEF Bstring
    <2>3. Valid([data |-> <<>>, mlen |-> 8])
      <3>1. Len(<<>>) = 0
        OBVIOUS
      <3> QED BY <2>2, <3>1, IntMaxAssumption DEF Valid
    <2> HIDE DEF start
    <2> QED BY <2>1, <2>2, <2>3
  <1>3. ASSUME NEW n \in 1 .. Len(s), NEW B \in V PROVE Nx(n, B) \in V
    <2>1. s[n] \in Names
      BY <1>1
    <2>2. ASSUME NEW b \in B, NEW r \in traverse_tree(s[n], D, b, oom) PROVE r \in W
      <3>1. Valid(b)
        OBVIOUS
      <3>2. Valid(r)
        BY <2>1, <3>1, TreeTextFacts
      <3> QED BY <3>2 DEF Valid
    <2> HIDE DEF W
    <2> QED BY <2>2
  <1>4. step \in [Nat -> [V -> V]]
    <2>1. ASSUME NEW n \in Nat, NEW B \in V
          PROVE  (IF n \in 1 .. Len(s) THEN Nx(n, B) ELSE B) \in V
      <3> HIDE DEF V, Nx
      <3> QED BY <1>3
    <2> HIDE DEF V, Nx
    <2> QED BY <2>1
  <1>5. PICK f \in [Nat -> V] : Iterates(f, start, step)
    <2> HIDE DEF V, step, start
    <2> QED BY <1>2, <1>4, RecursionExists
  <1> DEFINE g == [n \in 0 .. Len(s) |-> f[n]]
  <1>6. f[0] = start /\ \A n \in 1 .. Len(s) : f[n] = Nx(n, f[n - 1])
    <2>1. \A n \in 1 .. Len(s) : /\ n \in Nat /\ n - 1 \in Nat /\ n # 0 /\ f[n - 1] \in V
      <3> HIDE DEF V
      <3> QED OBVIOUS
    <2>2. \A n \in Nat : f[n] = IF n = 0 THEN start ELSE step[n][f[n - 1]]
      <3> HIDE DEF V, step, start
      <3> QED BY <1>5 DEF Iterates
    <2>3. \A n \in 1 .. Len(s) : step[n][f[n - 1]] = Nx(n, f[n - 1])
      <3> HIDE DEF V, Nx
      <3> QED BY <2>1
    <2> HIDE DEF V, Nx, step, start
    <2> QED BY <2>1, <2>2, <2>3
  <1>7. IsA(g)
    <2>1. \A n \in 0 .. Len(s) : n # 0 => g[n - 1] = f[n - 1] /\ n \in 1 .. Len(s)
      BY <1>1
    <2>2. \A n \in 0 .. Len(s) : g[n] = f[n]
      OBVIOUS
    <2>3. \A n \in 0 .. Len(s) : f[n] = IF n = 0 THEN start ELSE Nx(n, g[n - 1])
      <3> HIDE DEF g, Nx, start
      <3> QED BY <1>6, <2>1
    <2> HIDE DEF Nx, start
    <2> QED BY <2>3
  <1>8. IsA(C)
    <2> HIDE DEF IsA
    <2> QED BY <1>7 DEF C
  <1>9. ASSUME NEW j \in 0 .. Len(s) PROVE Accumulated(D, j, oom) = C[j]
    BY DEF Accumulated, s
  <1> HIDE DEF C, g
  <1>10. C[0] = start /\ \A n \in 1 .. Len(s) : C[n] = Nx(n, C[n - 1])
    <2>1. 0 \in 0 .. Len(s) /\ \A n \in 1 .. Len(s) : n \in 0 .. Len(s) /\ n # 0
      BY <1>1
    <2> HIDE DEF Nx, start
    <2> QED BY <1>8, <2>1
  <1> HIDE DEF IsA
  <1> DEFINE T == {n \in Nat : n <= Len(s) => C[n] \in V}
  <1>11. 0 \in T
    <2> HIDE DEF V, start
    <2> QED BY <1>2, <1>10
  <1>12. ASSUME NEW n \in Nat, n \in T PROVE n + 1 \in T
    <2> SUFFICES ASSUME n + 1 <= Len(s) PROVE C[n + 1] \in V
      <3> HIDE DEF V
      <3> QED OBVIOUS
    <2>1. n + 1 \in 1 .. Len(s) /\ (n + 1) - 1 = n
      BY <1>1
    <2>2. C[n] \in V
      <3> HIDE DEF V
      <3> QED BY <1>1, <1>12
    <2>3. C[n + 1] = Nx(n + 1, C[n])
      <3> HIDE DEF Nx
      <3> QED BY <1>10, <2>1
    <2> HIDE DEF V, Nx
    <2> QED BY <1>3, <2>1, <2>2, <2>3
  <1>13. Nat \subseteq T
    <2> HIDE DEF T
    <2> QED BY <1>11, <1>12, Induction
  <1>14. \A n \in 0 .. Len(s) : \A b \in C[n] : Valid(b)
    <2>1. \A n \in 0 .. Len(s) : n \in Nat /\ n <= Len(s)
      BY <1>1
    <2>2. \A n \in 0 .. Len(s) : C[n] \in V
      <3> HIDE DEF V
      <3> QED BY <1>13, <2>1
    <2> QED BY <2>2
  <1>15. Accumulates(C, s, D, oom)
    BY <1>10, <1>14 DEF Accumulates
  <1> QED BY <1>9, <1>15 DEF s

(* The accumulator of sslist stays a bstring whose NUL is in its memory,    *)
(* whichever of its allocations fail.                                       *)
THEOREM AccumulatorAlwaysHolds == Spec => []AccumulatorHolds
  <1>1. TypeOK /\ Shaped => AccumulatorHolds
    <2> SUFFICES ASSUME TypeOK, Shaped, NEW j \in 0 .. Len(TSTree_traverse),
                        NEW b \in Accumulated({}, j, TRUE)
                 PROVE  Valid(b)
      BY DEF AccumulatorHolds
    <2>1. PICK A : /\ Accumulates(A, TSTree_traverse, {}, TRUE)
                   /\ \A n \in 0 .. Len(TSTree_traverse) : Accumulated({}, n, TRUE) = A[n]
      BY AccumulatedFacts
    <2> QED BY <2>1 DEF Accumulates
  <1>2. IInv => TypeOK
    BY DEF IInv
  <1> QED BY <1>1, <1>2, SpecIInv, SpecShaped, PTL

\* A line behind full lines is one more of them.
LEMMA PiecesOfLine ==
  ASSUME NEW V, NEW c \in V, NEW s \in Seq(V), NEW w \in Seq(Seq(V)), NEW k \in Seq(V),
         Pieces(s, c) = Append(w, <<>>), \A j \in 1 .. Len(k) : k[j] # c
  PROVE  Pieces(Append(s \o k, c), c) = Append(Append(w, k), <<>>)
  <1> DEFINE T == {r \in Seq(V) : (\A j \in 1 .. Len(r) : r[j] # c) => Pieces(s \o r, c) = Append(w, r)}
  <1>1. <<>> \in T
    <2>1. s \o <<>> = s /\ <<>> \in Seq(V)
      OBVIOUS
    <2> QED BY <2>1
  <1>2. ASSUME NEW r \in Seq(V), NEW x \in V, r \in T PROVE Append(r, x) \in T
    <2>1. /\ Append(r, x) \in Seq(V) /\ Len(Append(r, x)) = Len(r) + 1 /\ Append(r, x)[Len(r) + 1] = x
          /\ \A j \in 1 .. Len(r) : Append(r, x)[j] = r[j]
      OBVIOUS
    <2> SUFFICES ASSUME \A j \in 1 .. Len(Append(r, x)) : Append(r, x)[j] # c
                 PROVE  Pieces(s \o Append(r, x), c) = Append(w, Append(r, x))
      BY <2>1
    <2>2. x # c /\ \A j \in 1 .. Len(r) : r[j] # c
      <3>1. Len(r) \in Nat
        OBVIOUS
      <3> QED BY <2>1, <3>1
    <2>3. Pieces(s \o r, c) = Append(w, r)
      BY <1>2, <2>2
    <2>4. s \o r \in Seq(V) /\ s \o Append(r, x) = Append(s \o r, x)
      OBVIOUS
    <2>5. PICK v \in Seq(Seq(V)), u \in Seq(V) :
            Pieces(s \o r, c) = Append(v, u) /\ Cut(Pieces(Append(s \o r, x), c), v, u, x, c)
      BY <2>4, PiecesOfAppend
    <2>7. Append(v, u) = Append(w, r)
      BY <2>3, <2>5
    <2>6. v = w /\ u = r
      BY <2>7, LastLine
    <2> QED BY <2>2, <2>4, <2>5, <2>6 DEF Cut
  <1>3. Seq(V) \subseteq T
    <2> HIDE DEF T
    <2> QED BY <1>1, <1>2, SequenceInduction
  <1>4. Pieces(s \o k, c) = Append(w, k) /\ s \o k \in Seq(V)
    BY <1>3
  <1>5. PICK v \in Seq(Seq(V)), u \in Seq(V) :
          Pieces(s \o k, c) = Append(v, u) /\ Cut(Pieces(Append(s \o k, c), c), v, u, c, c)
    BY <1>4, PiecesOfAppend
  <1>7. Append(v, u) = Append(w, k)
    BY <1>4, <1>5
  <1> HIDE DEF T
  <1>8. v \in Seq(Seq(V)) /\ w \in Seq(Seq(V)) /\ u \in Seq(V) /\ k \in Seq(V)
    OBVIOUS
  <1>6. v = w /\ u = k
    BY ONLY <1>7, <1>8, LastLine
  <1> QED BY <1>5, <1>6 DEF Cut

(* The stored names have fewer than most characters each, and with so many   *)
(* for each of them the text and its NUL have a size that is an int.         *)
Fits(most) ==
  /\ \A k \in Stored : Len(k) < most
  /\ Cardinality(Stored) * most + 1 <= IntMax

\* b is the text of the lines w, of at most size characters.
TextOf(b, w, size) ==
  /\ Valid(b)
  /\ Len(b.data) <= size
  /\ \A j \in 1 .. Len(b.data) : b.data[j] # 0
  /\ Pieces(b.data, NewLine) = Append(w, <<>>)

(* A name that is not deleted becomes one more line.                         *)
LEMMA LineStep ==
  ASSUME NEW b, NEW w \in Seq(Seq(Int)), NEW size \in Nat, NEW most \in Nat, TextOf(b, w, size),
         NEW k \in Names, Len(k) < most, size + most + 1 <= IntMax, NEW D, k \notin D,
         NEW r \in traverse_tree(k, D, b, FALSE)
  PROVE  TextOf(r, Append(w, k), size + most)
  <1>1. PICK s : s = b.data
    OBVIOUS
  <1>2. /\ s \in Seq(Int) /\ Len(s) \in Nat /\ k \in Seq(Int) /\ Len(k) \in Nat /\ IntMax \in Nat
        /\ Len(s) <= size /\ NewLine \in Int /\ NewLine # 0 /\ Pieces(s, NewLine) = Append(w, <<>>)
        /\ \A j \in 1 .. Len(s) : s[j] # 0
    BY <1>1, NameFacts, IntMaxAssumption DEF TextOf, Valid, Bstring, NewLine
  <1>3. Len(s) + Len(k) + 2 <= IntMax
    BY <1>2
  <1>4. PICK q : q = Append(s \o k, NewLine)
    OBVIOUS
  <1>5. Valid(r) /\ r.data = q
    <2>1. Valid(b) /\ FALSE \in BOOLEAN
      BY DEF TextOf
    <2>2. Len(b.data) + Len(k) + 2 <= IntMax
      BY <1>1, <1>3
    <2>3. PICK oom : oom = FALSE
      OBVIOUS
    <2>4. r \in traverse_tree(k, D, b, oom) /\ oom \in BOOLEAN
      BY <2>3
    <2>5. /\ Valid(r)
          /\ k \notin D /\ ~oom /\ Len(b.data) + Len(k) + 2 <= IntMax =>
               r.data = Append(b.data \o k, NewLine)
      BY <2>1, <2>4, TreeTextFacts
    <2> QED BY <1>1, <1>4, <2>2, <2>3, <2>5
  <1>6. \A j \in 1 .. Len(k) : k[j] # 0 /\ k[j] # NewLine
    BY <1>2, TextAssumption
  <1>7. Pieces(q, NewLine) = Append(Append(w, k), <<>>)
    BY <1>2, <1>4, <1>6, PiecesOfLine
  <1>8. /\ Len(q) = Len(s) + Len(k) + 1
        /\ \A j \in 1 .. Len(s) : q[j] = s[j]
        /\ \A j \in 1 .. Len(k) : q[Len(s) + j] = k[j]
        /\ q[Len(s) + Len(k) + 1] = NewLine
    <2>1. s \o k \in Seq(Int) /\ Len(s \o k) = Len(s) + Len(k)
      BY <1>2
    <2>2. \A j \in 1 .. Len(s) : (s \o k)[j] = s[j]
      BY <1>2
    <2>3. \A j \in 1 .. Len(k) : (s \o k)[Len(s) + j] = k[j]
      BY <1>2
    <2>4. PICK p : p = s \o k
      OBVIOUS
    <2>5. /\ Len(q) = Len(p) + 1 /\ q[Len(p) + 1] = NewLine
          /\ \A j \in 1 .. Len(p) : q[j] = p[j]
      BY <1>2, <1>4, <2>1, <2>4
    <2>6. /\ \A j \in 1 .. Len(s) : j \in 1 .. Len(p)
          /\ \A j \in 1 .. Len(k) : Len(s) + j \in 1 .. Len(p)
      BY <1>2, <2>1, <2>4
    <2> QED BY <1>2, <2>1, <2>2, <2>3, <2>4, <2>5, <2>6
  <1>9. \A j \in 1 .. Len(q) : q[j] # 0
    <2>1. PICK l, m, n : l = Len(s) /\ m = Len(k) /\ n = Len(q)
      OBVIOUS
    <2>2. l \in Nat /\ m \in Nat /\ n = l + m + 1
      BY <1>2, <1>8, <2>1
    <2>3. \A j \in 1 .. l : q[j] # 0
      BY <1>2, <1>8, <2>1
    <2>4. \A j \in 1 .. m : q[l + j] # 0
      BY <1>6, <1>8, <2>1
    <2>5. q[n] # 0
      BY <1>2, <1>8, <2>1, <2>2
    <2>6. ASSUME NEW j \in 1 .. n, l < j, j # n PROVE q[j] # 0
      <3>1. j - l \in 1 .. m /\ l + (j - l) = j
        BY <2>2, <2>6
      <3>2. q[l + (j - l)] # 0
        BY <2>4, <3>1
      <3> QED BY <3>1, <3>2
    <2>7. \A j \in 1 .. n : j \in 1 .. l \/ l < j
      BY <2>2
    <2> QED BY <2>1, <2>3, <2>5, <2>6, <2>7
  <1>10. Len(q) <= size + most
    BY <1>2, <1>8
  <1> QED BY <1>5, <1>7, <1>9, <1>10 DEF TextOf

LEMMA Nothing ==
  ASSUME NEW b \in bfromcstr(<<>>, FALSE) \ {NullBstr}
  PROVE  TextOf(b, <<>>, 0)
  <1>1. b = [data |-> <<>>, mlen |-> 8]
    BY NothingFacts
  <1>2. b \in Bstring /\ b.data = <<>> /\ b.mlen = 8
    BY <1>1 DEF Bstring
  <1>3. Pieces(<<>>, NewLine) = << <<>> >>
    BY PiecesOfNone
  <1>4. Append(<<>>, <<>>) = << <<>> >> /\ Len(<<>>) = 0
    OBVIOUS
  <1> QED BY <1>2, <1>3, <1>4, IntMaxAssumption DEF TextOf, Valid

(* Lines that fit before and after.                                          *)
LEMMA Products ==
  ASSUME NEW j \in Nat, NEW n \in Nat, j < n, NEW most \in Nat
  PROVE  /\ j * most \in Nat /\ (j + 1) * most = j * most + most
         /\ j * most + most <= n * most
  <1>1. j * most \in Nat /\ (j + 1) * most = j * most + most
    OBVIOUS
  <1> DEFINE d == n - (j + 1)
  <1>2. d \in Nat /\ n = (j + 1) + d
    OBVIOUS
  <1> HIDE DEF d
  <1>3. d * most \in Nat
    BY <1>2
  <1>4. n * most = (j + 1) * most + d * most
    BY <1>2
  <1> QED BY <1>1, <1>3, <1>4

(* The text after all names has a line for each that is not deleted.         *)
LEMMA AllLines ==
  ASSUME TypeOK, Shaped, NEW most \in Nat, Fits(most), NEW D,
         NEW b \in Accumulated(D, Len(TSTree_traverse), FALSE)
  PROVE  \E size \in Nat : TextOf(b, Select(TSTree_traverse, Stored \ D), size)
  <1> DEFINE t == TSTree_traverse
             S == Stored \ D
  <1>1. /\ t \in Seq(Names) /\ Len(t) \in Nat /\ Range(t) = Stored /\ Cardinality(Stored) = Len(t)
    <2>1. t \in Seq(Names) /\ Range(t) = Stored /\ \A j, k \in 1 .. Len(t) : t[j] = t[k] => j = k
      BY TraverseFacts
    <2> HIDE DEF t
    <2>2. Cardinality(Range(t)) = Len(t)
      BY <2>1, SizeOfRange
    <2> QED BY <2>1, <2>2
  <1>2. PICK A : /\ Accumulates(A, t, D, FALSE)
                 /\ \A j \in 0 .. Len(t) : Accumulated(D, j, FALSE) = A[j]
    BY AccumulatedFacts
  <1> HIDE DEF t
  <1>3. PICK R : Selects(R, t, S) /\ Select(t, S) = R[Len(t)]
    <2> HIDE DEF S
    <2> QED BY <1>1, SelectScan
  <1>4. \A n \in 0 .. Len(t) : R[n] \in Seq(Seq(Int))
    <2>1. \A j \in 1 .. Len(t) : t[j] \in Seq(Int)
      BY <1>1, NameFacts
    <2>2. {t[j] : j \in 1 .. Len(t)} \subseteq Seq(Int)
      BY <2>1
    <2>3. \A n \in 0 .. Len(t) : R[n] \in Seq({t[j] : j \in 1 .. Len(t)})
      BY <1>3 DEF Selects
    <2>4. \A X, Y : X \subseteq Y => Seq(X) \subseteq Seq(Y)
      OBVIOUS
    <2> QED BY <2>2, <2>3, <2>4
  <1> DEFINE T == {n \in Nat : n <= Len(t) => \A c \in A[n] : TextOf(c, R[n], n * most)}
  <1>5. 0 \in T
    <2>1. \A c \in A[0] : TextOf(c, <<>>, 0)
      BY <1>2, Nothing DEF Accumulates
    <2>2. R[0] = <<>> /\ 0 * most = 0
      BY <1>3 DEF Selects
    <2> QED BY <2>1, <2>2
  <1>6. ASSUME NEW n \in Nat, n \in T PROVE n + 1 \in T
    <2> SUFFICES ASSUME n + 1 <= Len(t), NEW c \in A[n + 1]
                 PROVE  TextOf(c, R[n + 1], (n + 1) * most)
      OBVIOUS
    <2>1. n + 1 \in 1 .. Len(t) /\ (n + 1) - 1 = n /\ n < Len(t) /\ n \in 0 .. Len(t)
      BY <1>1
    <2>2. \A a \in A[n] : TextOf(a, R[n], n * most)
      BY <1>6, <2>1
    <2>3. PICK k : k = t[n + 1]
      OBVIOUS
    <2>4. k \in Names /\ k \in Stored /\ Len(k) < most
      BY <1>1, <2>1, <2>3 DEF Range, Fits
    <2>5. PICK a \in A[n] : c \in traverse_tree(k, D, a, FALSE)
      <3>1. A[n + 1] = UNION {traverse_tree(k, D, a, FALSE) : a \in A[n]}
        BY <1>2, <2>1, <2>3 DEF Accumulates
      <3> QED BY <3>1
    <2>6. PICK size, w : size = n * most /\ w = R[n]
      OBVIOUS
    <2>7. size \in Nat /\ (n + 1) * most = size + most /\ size + most + 1 <= IntMax
      <3>1. size \in Nat /\ (n + 1) * most = size + most /\ size + most <= Len(t) * most
        BY <1>1, <2>1, <2>6, Products
      <3>2. Len(t) * most + 1 <= IntMax
        BY <1>1 DEF Fits
      <3>3. Len(t) * most \in Nat /\ IntMax \in Nat
        BY <1>1, IntMaxAssumption
      <3> QED BY <3>1, <3>2, <3>3
    <2>8. TextOf(a, w, size) /\ w \in Seq(Seq(Int))
      BY <1>4, <2>1, <2>2, <2>6
    <2>9. R[n + 1] = IF k \in S THEN Append(w, k) ELSE w
      BY <1>3, <2>1, <2>3, <2>6 DEF Selects
    <2>10. CASE k \in D
      <3>1. c = a
        BY <2>5, <2>10 DEF traverse_tree
      <3>2. R[n + 1] = w
        BY <2>9, <2>10
      <3>3. Len(a.data) \in Nat
        BY <2>8 DEF TextOf, Valid, Bstring
      <3>4. TextOf(a, w, size + most)
        BY <2>7, <2>8, <3>3 DEF TextOf
      <3> QED BY <2>7, <3>1, <3>2, <3>4
    <2>11. CASE k \notin D
      <3>1. R[n + 1] = Append(w, k)
        BY <2>4, <2>9, <2>11
      <3>2. TextOf(c, Append(w, k), size + most)
        BY <2>4, <2>5, <2>7, <2>8, <2>11, LineStep
      <3> QED BY <2>7, <3>1, <3>2
    <2> QED BY <2>10, <2>11
  <1>7. Nat \subseteq T
    <2> HIDE DEF T
    <2> QED BY <1>5, <1>6, Induction
  <1>8. b \in A[Len(t)]
    <2>1. Len(t) \in 0 .. Len(t)
      BY <1>1
    <2>2. b \in Accumulated(D, Len(t), FALSE)
      BY DEF t
    <2> QED BY <1>2, <2>1, <2>2
  <1>9. TextOf(b, R[Len(t)], Len(t) * most) /\ Len(t) * most \in Nat
    BY <1>1, <1>7, <1>8
  <1> QED BY <1>3, <1>9 DEF t

(* The lines are the names that are not deleted, each once, in the order of *)
(* the tree.                                                                *)
LEMMA LinesOfList ==
  ASSUME TypeOK, TreeOK, Shaped, ~Inserting, NEW D, NEW w, w = Select(TSTree_traverse, Stored \ D)
  PROVE  /\ w \in Seq(Names)
         /\ Len(w) = Cardinality(Stored \ D) /\ Range(w) = Stored \ D
         /\ \A m, n \in DOMAIN w : Extends(w[m], w[n]) => m < n
  <1> DEFINE t == TSTree_traverse
             S == Stored \ D
  <1>1. /\ t \in Seq(Names) /\ Range(t) = Stored
        /\ \A j, k \in 1 .. Len(t) : t[j] = t[k] => j = k
    BY TraverseFacts
  <1>2. \A j, k \in 1 .. Len(t) : Extends(t[j], t[k]) => j < k
    BY TraverseOrder
  <1> HIDE DEF t
  <1>3. PICK e : Places(e, t, S) /\ w = [m \in 1 .. Len(e) |-> t[e[m]]]
    <2>1. w = Select(t, S)
      BY DEF t
    <2> HIDE DEF S
    <2>2. \E e : Places(e, t, S) /\ Select(t, S) = [m \in 1 .. Len(e) |-> t[e[m]]]
      BY <1>1, SelectPlaces
    <2> QED BY <2>1, <2>2
  <1>4. /\ e \in Seq(1 .. Len(t)) /\ Len(e) \in Nat
        /\ \A m, n \in 1 .. Len(e) : m < n => e[m] < e[n]
        /\ {e[m] : m \in 1 .. Len(e)} = {j \in 1 .. Len(t) : t[j] \in S}
    <2> HIDE DEF S
    <2>1. Places(e, t, S)
      BY <1>3
    <2>2. /\ e \in Seq(1 .. Len(t))
          /\ \A m, n \in 1 .. Len(e) : m < n => e[m] < e[n]
          /\ {e[m] : m \in 1 .. Len(e)} = {j \in 1 .. Len(t) : t[j] \in S}
      BY ONLY <2>1 DEF Places
    <2>3. Len(e) \in Nat
      BY <2>2
    <2> QED BY <2>2, <2>3
  <1>5. \A m \in 1 .. Len(e) : e[m] \in 1 .. Len(t) /\ t[e[m]] \in S /\ w[m] = t[e[m]]
    BY <1>3, <1>4
  <1>6. w \in Seq(Names) /\ Len(w) = Len(e) /\ DOMAIN w = 1 .. Len(e)
    <2>1. \A m \in 1 .. Len(e) : t[e[m]] \in Names
      BY <1>1, <1>5
    <2>2. w \in [1 .. Len(e) -> Names]
      BY <1>3, <2>1
    <2>3. PICK l : l = Len(e)
      OBVIOUS
    <2>4. l \in Nat /\ w \in [1 .. l -> Names]
      BY <1>4, <2>2, <2>3
    <2>5. w \in Seq(Names) /\ Len(w) = l /\ DOMAIN w = 1 .. l
      BY ONLY <2>4
    <2> QED BY <2>3, <2>5
  <1>7. Range(w) = S
    <2>1. ASSUME NEW k \in S PROVE \E m \in 1 .. Len(e) : w[m] = k
      <3>1. PICK j \in 1 .. Len(t) : t[j] = k
        BY <1>1 DEF Range
      <3>2. j \in {e[m] : m \in 1 .. Len(e)}
        BY <1>4, <3>1
      <3> QED BY <1>5, <3>1, <3>2
    <2> QED BY <1>5, <1>6, <2>1 DEF Range
  <1>8. ASSUME NEW m \in 1 .. Len(w), NEW n \in 1 .. Len(w), w[m] = w[n] PROVE m = n
    <2>1. m \in 1 .. Len(e) /\ n \in 1 .. Len(e)
      BY <1>6
    <2>3. PICK j, k : j = e[m] /\ k = e[n]
      OBVIOUS
    <2>4. j \in 1 .. Len(t) /\ k \in 1 .. Len(t) /\ t[j] = t[k]
      <3>1. e[m] \in 1 .. Len(t) /\ e[n] \in 1 .. Len(t) /\ w[m] = t[e[m]] /\ w[n] = t[e[n]]
        BY <1>5, <2>1
      <3> QED BY <1>8, <2>3, <3>1
    <2>5. j = k
      BY <1>1, <2>4
    <2>2. ~(m < n) /\ ~(n < m)
      <3>1. ~(j < k) /\ ~(k < j)
        BY <2>4, <2>5
      <3> QED BY <1>4, <2>1, <2>3, <3>1
    <2> QED BY <2>1, <2>2
  <1>9. Cardinality(S) = Len(w)
    <2>1. Cardinality(Range(w)) = Len(w)
      BY <1>6, <1>8, SizeOfRange
    <2> QED BY <1>7, <2>1
  <1>10. ASSUME NEW m \in DOMAIN w, NEW n \in DOMAIN w, Extends(w[m], w[n]) PROVE m < n
    <2>1. m \in 1 .. Len(e) /\ n \in 1 .. Len(e) /\ Extends(t[e[m]], t[e[n]])
      BY <1>5, <1>6, <1>10
    <2>2. e[m] < e[n]
      BY <1>2, <1>5, <2>1
    <2>3. ~(n < m) /\ m # n
      BY <1>4, <1>5, <2>1, <2>2
    <2> QED BY <2>1, <2>3
  <1> QED BY <1>6, <1>7, <1>9, <1>10

LEMMA ListExact ==
  ASSUME IInv, Shaped, NEW most \in Nat, Fits(most)
  PROVE  ListIsExact
  <1> SUFFICES ASSUME AtRest, root # NULL, NEW D \in SUBSET Stored, NEW text \in sslist(D),
                      NEW lines, lines = Front(Pieces(text, NewLine))
               PROVE  /\ Last(Pieces(text, NewLine)) = <<>>
                      /\ Len(lines) = Cardinality(Stored \ D)
                      /\ Range(lines) = Stored \ D
                      /\ \A m, n \in DOMAIN lines : Extends(lines[m], lines[n]) => m < n
    BY DEF ListIsExact
  <1>1. TypeOK /\ TreeOK /\ ~Inserting
    BY NotCalling DEF IInv, AtRest, Inserting
  <1>2. PICK b \in Accumulated(D, Len(TSTree_traverse), FALSE) : text = bstr2cstr(b, 32)
    BY DEF sslist
  <1>3. PICK w : w = Select(TSTree_traverse, Stored \ D)
    OBVIOUS
  <1>4. PICK size \in Nat : TextOf(b, w, size)
    BY <1>1, <1>2, <1>3, AllLines
  <1>5. text = b.data
    <2>1. PICK s : s = b.data
      OBVIOUS
    <2>2. s \in Seq(Int) /\ \A j \in 1 .. Len(s) : s[j] # 0
      BY <1>4, <2>1 DEF TextOf, Valid, Bstring
    <2>3. text = [j \in 1 .. Len(s) |-> IF s[j] = 0 THEN 32 ELSE s[j]]
      BY <1>2, <2>1 DEF bstr2cstr, blength
    <2>4. text = s
      BY <2>2, <2>3
    <2> QED BY <2>1, <2>4
  <1>6. Pieces(text, NewLine) = Append(w, <<>>)
    BY <1>4, <1>5 DEF TextOf
  <1>7. /\ w \in Seq(Names)
        /\ Len(w) = Cardinality(Stored \ D) /\ Range(w) = Stored \ D
        /\ \A m, n \in DOMAIN w : Extends(w[m], w[n]) => m < n
    BY <1>1, <1>3, LinesOfList
  <1>8. Front(Append(w, <<>>)) = w /\ Last(Append(w, <<>>)) = <<>>
    <2>1. w \in Seq(Names \cup {<<>>}) /\ <<>> \in Names \cup {<<>>}
      BY <1>7
    <2>2. PICK q : q = Append(w, <<>>)
      OBVIOUS
    <2>3. /\ q \in Seq(Names \cup {<<>>}) /\ Len(q) = Len(w) + 1 /\ q[Len(w) + 1] = <<>>
          /\ \A j \in 1 .. Len(w) : q[j] = w[j]
      BY <2>1, <2>2
    <2>4. SubSeq(q, 1, Len(q) - 1) = w
      BY <2>1, <2>3
    <2> QED BY <2>2, <2>3, <2>4 DEF Front, Last
  <1>9. lines = w
    BY <1>6, <1>8
  <1> QED BY <1>6, <1>7, <1>8, <1>9

(* Whatever was inserted in whatever order, the text of /list has each name  *)
(* that is not deleted on a line of its own, once, and nothing else, and a   *)
(* name after those that extend it: as long as the text fits, which it does  *)
(* when the names have fewer than most characters and so many lines do.      *)
THEOREM ListIsAlwaysExact ==
  ASSUME NEW most \in Nat
  PROVE  Spec => [](Fits(most) => ListIsExact)
  <1>1. IInv /\ Shaped => (Fits(most) => ListIsExact)
    BY ListExact
  <1> QED BY <1>1, SpecIInv, SpecShaped, PTL
=============================================================================
