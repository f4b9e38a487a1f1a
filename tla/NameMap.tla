------------------------------- MODULE NameMap -------------------------------
(***************************************************************************)
(* What a caller of the ternary search tree (src/tstree.h) relies on: a    *)
(* set of names, each with its Record, that can be asked for a name and    *)
(* for the nearest name a key extends.  A Record stands for the name it    *)
(* was inserted under.  Module TSTree implements this; the key store of    *)
(* module Protocol is written against it.                                  *)
(***************************************************************************)
EXTENDS Integers, Sequences

CONSTANTS
  Names,  \* keys, as sequences of characters
  NULL

VARIABLES
  names,  \* the names inserted so far
  call,   \* the call being made, or Idle
  reply   \* the last call that has returned, with its result

mapvars == <<names, call, reply>>

Calls == [op : {"insert", "search", "prefix", "collect"}, key : Names]
Idle == [op |-> "idle"]
Aborted == [op |-> "aborted"]
NoReply == [op |-> "none"]

\* k is longer than p and begins with it.
Extends(k, p) == Len(p) < Len(k) /\ \A j \in 1 .. Len(p) : p[j] = k[j]

\* r is the answer to the call c when N are the names.
Answers(c, N, r) ==
  \/ c.op = "search" /\ r = IF c.key \in N THEN c.key ELSE NULL
  \/ /\ c.op = "prefix"
     /\ \/ r = NULL /\ \A q \in N : ~Extends(c.key, q)
        \/ /\ r \in N /\ Extends(c.key, r)
           /\ \A q \in N : Extends(c.key, q) => Len(q) <= Len(r)
  \/ c.op \in {"insert", "collect"} /\ r = NULL

MapInit == names = {} /\ call = Idle /\ reply = NoReply

MapCall(c) ==
  /\ call = Idle
  /\ call' = c
  /\ reply' = NoReply
  /\ UNCHANGED names

MapReturn ==
  /\ call \in Calls
  /\ names' = names \cup (IF call.op = "insert" THEN {call.key} ELSE {})
  /\ \E r \in Names \cup {NULL} :
       /\ Answers(call, names, r)
       /\ reply' = [op |-> call.op, key |-> call.key, ret |-> r]
  /\ call' = Idle

\* No memory for a node, or a fault of a collection, ends the process.
MapAbort ==
  /\ call \in Calls \cup {Idle}
  /\ call' = Aborted
  /\ UNCHANGED <<names, reply>>

MapNext == (\E c \in Calls : MapCall(c)) \/ MapReturn \/ MapAbort

Spec == MapInit /\ [][MapNext]_mapvars
=============================================================================
