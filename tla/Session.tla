------------------------------- MODULE Session -------------------------------
(***************************************************************************)
(* One client session: the child process of the server that runs nserve    *)
(* (src/nserve.c), and the command it carries out with call_function and   *)
(* process (src/ncmd.c) on the key store of module Protocol.               *)
(*                                                                         *)
(* The child receives a line, runs the command and fills the buffer "out", *)
(* then sends "out" and receives again; when the command or a socket call  *)
(* fails it overwrites "out" with its farewell, sends that, and exits.     *)
(* Sessions follow one another; those that run beside this one show up as  *)
(* stores into the shared database.                                        *)
(***************************************************************************)
EXTENDS Protocol

CONSTANTS
  Samples,     \* values a client samples, in units of module Stats
  MaxN,        \* bound: samples one record receives
  Stored,      \* bound: the names a client stores
  Redelete,    \* whether the client deletes names that are already deleted
  OtherStores  \* what other sessions store: pairs of a name and a text

ASSUME SamplesAssumption == Samples \subseteq Int
ASSUME StoredAssumption == Stored \subseteq Keys
ASSUME MaxNAssumption == MaxN \in Nat
ASSUME OtherStoresAssumption ==
  \A w \in OtherStores : w[2] \in Stats /\ Stable(w[2])

VARIABLES
  pc,    \* where nserve is: "recv", "respond", "closing" or "exited"
  out    \* the response buffer, which barfsock sends

vars == <<tst, mem, free, db, loaded, counted, redeleted, pc, out>>

Texts == {"", "OK", "Mean", "dump", "keys", "EMPTY", "error"}

TypeOK ==
  /\ StoreTypeOK
  /\ pc \in {"recv", "respond", "closing", "exited"}
  /\ out \in Texts

Init ==
  /\ tst = EmptyTree /\ mem = EmptyMem /\ free = EmptyFree
  /\ loaded = {} /\ counted = NoSamples /\ redeleted = FALSE
  /\ db = [k \in Keys |-> NoText]
  /\ pc = "exited" /\ out = ""

----------------------------------------------------------------------------
\* process returned 0 with text in out, or -1 with an error text.
Answer(ok, text) ==
  /\ pc = "recv"
  /\ pc' = IF ok THEN "respond" ELSE "closing"
  /\ out' = IF ok THEN text ELSE "error"

\* The answer is OK whatever sscreate returned.
NS_CREATE_Unchecked(k) ==                                       \* mutant
  \E rc \in {-1, 0, 1, 2} : sscreate(k, rc) /\ Answer(TRUE, "OK")

NS_CREATE(k) == \E rc \in {-1, 0, 1, 2} : sscreate(k, rc) /\ Answer(rc >= 0, "OK")

NS_DELETE(k) ==
  /\ Deleted(k) => Redelete
  /\ \E rc \in {-1, 0} : ssdelete(k, rc) /\ Answer(rc = 0, "OK")

\* Bound: the records that would count the sample have room for it.
CanCount(k) ==
  \A j \in {k} \cup TSTree_search_prefix(tst, k) :
    tst[j].st # NULL => mem[tst[j].st].n < MaxN

\* A mean below zero is taken for sssample's or ssmean's error value.
NS_SAMPLE(k, s) ==
  /\ CanCount(k)
  /\ \E ok \in BOOLEAN :
       /\ sssample(k, s, ok)
       /\ Answer(ok /\ ~MeanIsNegative(mem'[tst[k].st]), "Mean")

NS_MEAN(k) ==
  \E ok \in BOOLEAN :
    ssmean(k, ok) /\ Answer(ok /\ ~MeanIsNegative(mem[tst[k].st]), "Mean")

NS_DUMP(k) == \E ok \in BOOLEAN : ssdump(k, ok) /\ Answer(ok, "dump")

NS_LIST == \/ \E list \in {"EMPTY", "keys", ""} : sslist(list) /\ Answer(TRUE, list)
           \/ "oom" \in Faults /\ UNCHANGED ssvars /\ Answer(FALSE, "")

NS_STORE(k) == \E rc \in {-1, 0} : ssstore(k, rc) /\ Answer(rc = 0, "OK")

NS_LOAD(from, to) ==
  \E rc \in {-2, -1, 0} : ssload(from, to, rc) /\ Answer(rc = 0, "OK")

\* The line is empty, too short or too long, names no command, or has the
\* wrong number of parts (process); or nothing came for 30 seconds (recv).
NS_NOP ==
  /\ pc = "recv"
  /\ pc' = "closing"
  /\ out' \in {"", "error"}
  /\ UNCHANGED ssvars

----------------------------------------------------------------------------
\* The rest of the loop body of nserve, and the clearing at its start.
Respond ==
  /\ pc = "respond"
  /\ \/ out' = "" /\ pc' = "recv"
     \/ "send" \in Faults /\ pc' = "closing" /\ UNCHANGED out
  /\ UNCHANGED ssvars

\* The child is gone, and all it had in memory.
Exit ==
  /\ pc' = "exited" /\ out' = ""
  /\ tst' = EmptyTree /\ mem' = EmptyMem /\ free' = EmptyFree
  /\ loaded' = {} /\ counted' = NoSamples /\ redeleted' = FALSE
  /\ UNCHANGED db

\* The error label of nserve, where its loop falls through to: whatever "out"
\* holds, the client is sent "closing connection".
Close == pc = "closing" /\ Exit

\* The child dies in a library call: in malloc or free, on a null pointer, or
\* by SIGPIPE in barfsock.
Abort ==
  /\ \/ /\ pc = "recv"
        /\ \/ Redelete /\ \E k \in Keys : ssdelete_aborts(k)
           \/ \E k \in Keys : sscreate_aborts(k)
           \/ \E from, to \in Keys : ssload_aborts(from, to)
           \/ "oom" \in Faults /\ ~TreeIsNull   \* bstr2cstr in sslist
     \/ pc \in {"respond", "closing"} /\ "send" \in Faults
  /\ Exit

\* The next client: a child forked from the same listener.
Connect ==
  /\ pc = "exited"
  /\ pc' = "recv" /\ out' = ""
  /\ UNCHANGED ssvars

OtherSessionStores(k) ==
  /\ \E w \in OtherStores : w[1] = k /\ db' = [db EXCEPT ![k] = w[2]]
  /\ UNCHANGED <<tst, mem, free, loaded, counted, redeleted, pc, out>>

Next ==
  \/ \E k \in Keys : NS_CREATE(k) \/ NS_DELETE(k) \/ NS_MEAN(k) \/ NS_DUMP(k)
                     \/ OtherSessionStores(k)
  \/ \E k \in Stored : NS_STORE(k)
  \/ \E k \in Keys, s \in Samples : NS_SAMPLE(k, s)
  \/ \E from, to \in Keys : NS_LOAD(from, to)
  \/ NS_LIST \/ NS_NOP
  \/ Respond \/ Close \/ Abort \/ Connect

Spec == Init /\ [][Next]_vars

----------------------------------------------------------------------------
(* SAFETY *)

\* As long as the client deletes no name twice, every live record has its
\* statistics in a block of its own that the allocator regards as in use, and
\* no block is in the free list twice (sscreate, ssdelete, ssload).
Ownership ==
  ~redeleted =>
    /\ \A k \in Keys : HasStats(k) => free[tst[k].st] = 0
    /\ \A j, k \in Keys : HasStats(j) /\ HasStats(k) /\ tst[j].st = tst[k].st => j = k
    /\ \A b \in Blocks : free[b] <= 1

\* A failing call may leave a live record without statistics behind (sscreate
\* undeletes first and allocates afterwards), but then the session ends before
\* another command can meet that record.
OpenSessionHasStats ==
  pc \in {"recv", "respond"} => \A k \in Keys : Live(k) => tst[k].st # NULL

\* A session that goes on has lost no Stats: each block in use belongs to a
\* live record, whatever failed on the way and however often names were
\* deleted, recreated and loaded.
NoStatsLeak ==
  pc \in {"recv", "respond"} /\ ~redeleted =>
    \A b \in Blocks : free[b] = 0 => \E k \in Keys : Live(k) /\ tst[k].st = b

\* The statistics of a record that did not come from the database are those of
\* the samples that count for it since it was created, in the order they came:
\* none is lost, counted twice or left over from an earlier record, over any
\* number of deletions and whatever fails (sssample, sssample_parent).
StatsOfSamples ==
  ~redeleted =>
    \A k \in Keys \ loaded : HasStats(k) => StatisticsOf(mem[tst[k].st], counted[k])

\* Every text in the database survives any number of loads and stores.
DbTextsStable == \A k \in Keys : db[k] # NoText => Stable(db[k])

\* The records that stay alive through a step and have other statistics
\* after it.
Touched == {k \in Keys : /\ HasStats(k) /\ HasStats(k)'
                         /\ mem[tst[k].st] # mem'[tst'[k].st]}

\* No command disturbs the statistics of another name: what changes in one step
\* is one record and its nearest ancestor, by one and the same sample.
NoCrossTalk ==
  [][~redeleted' /\ Touched # {} =>
       \E s \in Samples, d \in Keys :
         \A k \in Touched :
           /\ mem'[tst'[k].st] \in Stats_sample(mem[tst[k].st], s)
           /\ k = d \/ k \in TSTree_search_prefix(tst, d)]_vars

----------------------------------------------------------------------------
(* CLAIMS of the repository the code does not keep. *)

\* "Allocate fresh Stats.": no two live records share one.
LiveRecordsOwnTheirStats ==
  \A j, k \in Keys : HasStats(j) /\ HasStats(k) /\ tst[j].st = tst[k].st => j = k

\* "error: sample failed": the sample was not recorded.
FailedSampleIsNotRecorded ==
  [][\A k \in Keys, s \in Samples :
       NS_SAMPLE(k, s) /\ pc' = "closing" => mem' = mem]_vars

\* What /load puts into memory is what /store wrote.
LoadRestoresStored ==
  [][\A from, to \in Keys :
       NS_LOAD(from, to) /\ out' = "OK" => mem'[tst'[to].st] = db[from]]_vars
=============================================================================
