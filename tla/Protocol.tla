------------------------------ MODULE Protocol ------------------------------
(***************************************************************************)
(* The key store of one session (src/protocol.c): the tree of records, the *)
(* heap blocks its statistics live in, and the database file.              *)
(*                                                                         *)
(* Each operator named ss... is one call of the C function of that name    *)
(* and the value it returns; every call it makes, to the statistics, the   *)
(* tree and the database, is part of the step.  A call of db_store or      *)
(* db_load is atomic here: module Db takes them apart.                     *)
(***************************************************************************)
EXTENDS Stats

CONSTANTS
  Keys,      \* names, as sequences of characters
  Blocks,    \* heap blocks of the size of a Stats
  NULL,      \* the null pointer
  NoText,    \* "no such key" in the database
  Junk,      \* what a block may hold after it was freed
  MaxFree,   \* bound: how often one block may sit in the free list
  Faults     \* what may go wrong around the session: "oom" (no memory), "db"
             \* (a database call fails), "send" (the client is gone),
             \* "overread" (a text read from the database has no end mark and
             \* is followed by something that can pass for more of it)

ASSUME KeysAssumption == Keys \subseteq Seq(Int) /\ <<>> \notin Keys
ASSUME NullAssumption == NULL \notin Blocks
ASSUME NoTextAssumption == NoText \notin Stats
ASSUME JunkAssumption == Junk \subseteq Stats /\ Junk # {}
ASSUME FaultsAssumption == Faults \subseteq {"oom", "db", "overread", "send"}
ASSUME MaxFreeAssumption == MaxFree \in Nat \ {0}

VARIABLES
  tst,       \* the tree: for each name its Record, if there is one
  mem,       \* contents of the heap blocks
  free,      \* how often each block is in the allocator's free list
  db,        \* nserver.db
  loaded,    \* history: names whose statistics came from the database
  counted,   \* history: for each name the samples that count for it, see Counting
  redeleted  \* history: ssdelete has freed the st of a deleted Record

heap   == <<mem, free>>
ssvars == <<tst, mem, free, db, loaded, counted, redeleted>>

Record == [status : {"absent", "live", "deleted"}, st : Blocks \cup {NULL}]
NoRecord == [status |-> "absent", st |-> NULL]

StoreTypeOK ==
  /\ tst \in [Keys -> Record]
  /\ mem \in [Blocks -> Stats]
  /\ free \in [Blocks -> 0 .. MaxFree]
  /\ db \in [Keys -> Stats \cup {NoText}]
  /\ loaded \subseteq Keys
  /\ counted \in [Keys -> Seq(Int)]
  /\ redeleted \in BOOLEAN

\* The memory a session starts with: the listener it is forked from has an
\* empty tree, and nothing else survives from one session to the next.
EmptyTree == [k \in Keys |-> NoRecord]
EmptyMem  == [b \in Blocks |-> Stats_create]
EmptyFree == [b \in Blocks |-> 1]
NoSamples == [k \in Keys |-> <<>>]

----------------------------------------------------------------------------
Live(k)    == tst[k].status = "live"
Deleted(k) == tst[k].status = "deleted"

\* The tree pointer is NULL until the first insertion; nothing is removed.
TreeIsNull == \A k \in Keys : tst[k].status = "absent"

\* TSTree_search_prefix: the longest name in the tree t that is a proper prefix
\* of k, deleted or not.  The set has one element or none.
TSTree_search_prefix(t, k) ==
  LET P == {p \in Keys : IsStrictPrefix(p, k) /\ t[p].status # "absent"}
  IN  {p \in P : \A q \in P : Len(q) <= Len(p)}

OutOfMemory == "oom" \in Faults \/ \A b \in Blocks : free[b] = 0

\* malloc hands out block b, which is filled with st.
Allocate(b, st) ==
  /\ free[b] > 0
  /\ free' = [free EXCEPT ![b] = @ - 1]
  /\ mem' = [mem EXCEPT ![b] = st]

\* free(b); what the block holds from now on is up to the allocator.
Release(b) ==
  /\ free' = [free EXCEPT ![b] = @ + 1]
  /\ \E st \in Junk : mem' = [mem EXCEPT ![b] = st]

\* rec->deleted = 0 with a new st, in a Record that is inserted if it is new.
Insert(k, st) == tst' = [tst EXCEPT ![k] = [status |-> "live", st |-> st]]

\* rec->deleted = 1; st keeps pointing to the block.
MarkDeleted_Forgotten(k) == k \in Keys /\ UNCHANGED tst       \* mutant
MarkDeleted(k) == tst' = [tst EXCEPT ![k].status = "deleted"]

----------------------------------------------------------------------------
sscreate(k, rc) ==
  /\ UNCHANGED <<db, redeleted>>
  /\ \/ \* Already there.
        /\ Live(k)
        /\ rc = 1
        /\ UNCHANGED <<tst, mem, free, loaded, counted>>
     \/ \* Undeleted, or inserted.
        /\ ~Live(k)
        /\ rc = IF Deleted(k) THEN 2 ELSE 0
        /\ \E b \in Blocks : Allocate(b, Stats_create) /\ Insert(k, b)
        /\ loaded' = loaded \ {k}
        /\ counted' = [counted EXCEPT ![k] = <<>>]
     \/ \* Undeleted before its Stats could be allocated.
        /\ Deleted(k) /\ OutOfMemory
        /\ rc = -1
        /\ Insert(k, NULL)
        /\ loaded' = loaded \ {k}
        /\ UNCHANGED <<mem, free, counted>>
     \/ \* No memory for the key or the Stats.
        /\ tst[k].status = "absent" /\ OutOfMemory
        /\ rc = -1
        /\ UNCHANGED <<tst, mem, free, loaded, counted>>
     \/ \* No memory for the Record: the Stats already allocated is lost.
        /\ tst[k].status = "absent" /\ "oom" \in Faults
        /\ rc = -1
        /\ \E b \in Blocks : Allocate(b, Stats_create)
        /\ UNCHANGED <<tst, loaded, counted>>

\* TSTree_insert_base writes through the node it could not allocate.
sscreate_aborts(k) == tst[k].status = "absent" /\ "oom" \in Faults

ssdelete(k, rc) ==
  /\ UNCHANGED <<db, loaded>>
  /\ \/ /\ TreeIsNull
        /\ rc = -1
        /\ UNCHANGED <<tst, mem, free, counted, redeleted>>
     \/ \* No such key.
        /\ ~TreeIsNull /\ tst[k].status = "absent"
        /\ rc = 0
        /\ UNCHANGED <<tst, mem, free, counted, redeleted>>
     \/ /\ tst[k].status # "absent"
        /\ rc = 0
        /\ MarkDeleted(k)
        /\ \/ tst[k].st = NULL /\ UNCHANGED heap
           \/ tst[k].st # NULL /\ free[tst[k].st] < MaxFree /\ Release(tst[k].st)
        /\ counted' = [counted EXCEPT ![k] = <<>>]
        /\ redeleted' = (redeleted \/ (Deleted(k) /\ tst[k].st # NULL))

\* The allocator may notice that the block it is given is already free.
ssdelete_aborts(k) == tst[k].st # NULL /\ free[tst[k].st] > 0

----------------------------------------------------------------------------
\* The sample s turns the block contents m into mnext, by way of block b.
Sampled(b, s, m, mnext) ==
  \E st \in Stats_sample(m[b], s) : mnext = [m EXCEPT ![b] = st]

\* A deleted parent is sampled, too.
sssample_parent_Deleted(k, s, m, mnext, rc) ==                  \* mutant
  \/ TSTree_search_prefix(tst, k) = {} /\ rc = 0 /\ mnext = m
  \/ \E p \in TSTree_search_prefix(tst, k) :
       \/ tst[p].st = NULL /\ rc = -1 /\ mnext = m
       \/ /\ tst[p].st # NULL /\ rc = 1
          /\ Sampled(tst[p].st, s, m, mnext)

\* sssample_parent turns the block contents m into mnext and returns rc.
sssample_parent(k, s, m, mnext, rc) ==
  \/ /\ TSTree_search_prefix(tst, k) = {}
     /\ rc = 0
     /\ mnext = m
  \/ \E p \in TSTree_search_prefix(tst, k) :
       \/ tst[p].st = NULL /\ rc = -1 /\ mnext = m
       \/ tst[p].st # NULL /\ Deleted(p) /\ rc = 0 /\ mnext = m
       \/ /\ tst[p].st # NULL /\ Live(p) /\ rc = 1
          /\ Sampled(tst[p].st, s, m, mnext)

\* The checks sssample, ssmean, ssdump and ssstore share.
HasStats(k) == Live(k) /\ tst[k].st # NULL

\* A sample of k counts for k and for the nearest ancestor of k that is or was
\* in the tree, if that is alive; not for ancestors farther up.  What has been
\* counted for a name starts anew with its record.
Counting(k) == {j \in {k} \cup TSTree_search_prefix(tst, k) : HasStats(j)}

\* sssample and ssmean answer with a mean (ok) or with -1.
sssample(k, s, ok) ==
  /\ UNCHANGED <<tst, free, db, loaded, redeleted>>
  /\ \/ ~HasStats(k) /\ ~ok /\ UNCHANGED <<mem, counted>>
     \/ /\ HasStats(k)
        /\ \E rc \in -1 .. 1, st \in Stats_sample(mem[tst[k].st], s) :
             /\ sssample_parent(k, s, [mem EXCEPT ![tst[k].st] = st], mem', rc)
             /\ ok = (rc >= 0)
        /\ counted' = [j \in Keys |-> IF j \in Counting(k) /\ ~redeleted
                                      THEN Append(counted[j], s) ELSE counted[j]]

ssmean(k, ok) == ok = HasStats(k) /\ UNCHANGED ssvars

ssdump(k, ok) ==
  /\ UNCHANGED ssvars
  /\ \/ ok = HasStats(k)
     \/ "oom" \in Faults /\ ~ok

sslist(list) ==
  /\ UNCHANGED ssvars
  /\ list = IF TreeIsNull THEN "EMPTY"
            ELSE IF \E k \in Keys : Live(k) THEN "keys" ELSE ""

----------------------------------------------------------------------------
\* A database call that fails may still have written: db_store reports a
\* failed gdbm_close after a gdbm_store that succeeded.
ssstore(k, rc) ==
  /\ UNCHANGED <<tst, mem, free, loaded, counted, redeleted>>
  /\ \/ ~HasStats(k) /\ rc = -1 /\ UNCHANGED db
     \/ HasStats(k) /\ Faults \cap {"oom", "db"} # {} /\ rc = -1 /\ UNCHANGED db
     \/ /\ HasStats(k)
        /\ rc = 0 \/ ("db" \in Faults /\ rc = -1)
        /\ \E text \in Stats_stringify(mem[tst[k].st]) :
             db' = [db EXCEPT ![k] = text]

\* "to" may be in use.
CanLoad_Replace(from, to) == ~TreeIsNull /\ to \in Keys /\ db[from] # NoText  \* mutant

\* db_load and Stats_unstringify give a new Stats, or fail.
CanLoad(from, to) == ~TreeIsNull /\ ~Live(to) /\ db[from] # NoText

ssload(from, to, rc) ==
  /\ UNCHANGED <<db, redeleted>>
  /\ \/ \* No tree yet, "to" exists (-2), or "from" was never stored.
        /\ ~CanLoad(from, to)
        /\ rc = IF ~TreeIsNull /\ Live(to) THEN -2 ELSE -1
        /\ UNCHANGED <<tst, mem, free, loaded, counted>>
     \/ \* No memory, no database, or too many parts in the text read.
        /\ CanLoad(from, to)
        /\ Faults \cap {"db", "overread"} # {} \/ OutOfMemory
        /\ rc = -1
        /\ UNCHANGED <<tst, mem, free, loaded, counted>>
     \/ \* The Stats is lost when the Record or its key gets no memory.
        /\ CanLoad(from, to) /\ "oom" \in Faults
        /\ rc = -1
        /\ \E b \in Blocks : Allocate(b, db[from])
        /\ UNCHANGED <<tst, loaded, counted>>
     \/ /\ CanLoad(from, to)
        /\ rc = 0
        /\ \E b \in Blocks, st \in Stats_unstringify(db[from], "overread" \in Faults) :
             Allocate(b, st) /\ Insert(to, b)
        /\ loaded' = loaded \cup {to}
        /\ counted' = [counted EXCEPT ![to] = <<>>]

\* As sscreate_aborts: a new name needs new tree nodes.
ssload_aborts(from, to) ==
  CanLoad(from, to) /\ tst[to].status = "absent" /\ "oom" \in Faults
=============================================================================
