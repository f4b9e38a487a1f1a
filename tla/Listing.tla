------------------------------- MODULE Listing -------------------------------
(***************************************************************************)
(* What is done with a whole tree: the text of /list (sslist and its       *)
(* callback traverse_tree in src/protocol.c), put together with            *)
(* src/bstrlib.c, and the order in which nodes are freed.                  *)
(***************************************************************************)
EXTENDS TSTree, Bstr

NewLine == 10
Empty == <<69, 77, 80, 84, 89, 10, 13>>   \* "EMPTY\n\r"

\* A name is what is left of a command, which ends where its line or its text does.
ASSUME TextAssumption == \A k \in Names : \A j \in DOMAIN k : k[j] \notin {0, NewLine}

\* A name as the bstring it is kept in.
KeyOf(k) == CHOOSE b \in bfromcstr(k, FALSE) : TRUE

\* Mutant: the deleted ones are listed, too.
traverse_tree_All(k, D, b, oom) ==
  {q.b : q \in UNION {bconchar(r.b, NewLine, oom) : r \in bconcat(b, KeyOf(k), oom)}}

\* traverse_tree: the bstrings b may have become.  When there is no memory for
\* the name it is missing, when there is none for the newline it stands alone.
traverse_tree(k, D, b, oom) ==
  IF k \in D THEN {b}
  ELSE UNION {IF r.rc = BSTR_OK THEN {q.b : q \in bconchar(r.b, NewLine, oom)} ELSE {r.b} :
                r \in bconcat(b, KeyOf(k), oom)}

\* The accumulators of sslist after the first j values, when the names in D are
\* deleted.
Accumulated(D, j, oom) ==
  LET A[n \in 0 .. Len(TSTree_traverse)] ==
        IF n = 0 THEN bfromcstr(<<>>, oom) \ {NullBstr}
        ELSE UNION {traverse_tree(TSTree_traverse[n], D, b, oom) : b \in A[n - 1]}
  IN  A[j]

sslist(D) ==
  IF root = NULL THEN {Empty}
  ELSE {bstr2cstr(b, 32) : b \in Accumulated(D, Len(TSTree_traverse), FALSE)}

----------------------------------------------------------------------------
(* PROPERTIES *)

\* A tree an insertion has just been made into, or the empty one.
AtRest == call = Idle /\ reply.op \in {"insert", "none"}

\* The list has each name that is not deleted on a line of its own, once, and
\* nothing else, whatever was deleted; a name comes after those that extend it.
ListIsExact ==
  AtRest /\ root # NULL =>
    \A D \in SUBSET Stored : \A text \in sslist(D) :
      LET lines == Front(Pieces(text, NewLine))
      IN  /\ Last(Pieces(text, NewLine)) = <<>>
          /\ Len(lines) = Cardinality(Stored \ D)
          /\ Range(lines) = Stored \ D
          /\ \A m, n \in DOMAIN lines : Extends(lines[m], lines[n]) => m < n

\* Whatever memory the accumulator gets or fails to get, its NUL is within it.
AccumulatorHolds ==
  AtRest /\ root # NULL =>
    \A j \in 0 .. Len(TSTree_traverse) : \A b \in Accumulated({}, j, TRUE) : Valid(b)

\* Every node is reached, and once: a destruction frees all nodes there are and
\* none twice.
DestroyFreesAll ==
  AtRest => Range(TSTree_destroy) = used /\ Len(TSTree_destroy) = Cardinality(used)
=============================================================================
