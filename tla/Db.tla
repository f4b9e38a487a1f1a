--------------------------------- MODULE Db ---------------------------------
(***************************************************************************)
(* db_store and db_load (src/db.c), one action per library call, run by    *)
(* several sessions at once on the one file nserver.db.                    *)
(*                                                                         *)
(* gdbm is external: gdbm_open locks the file, shared for a reader and     *)
(* exclusively for anyone else, and fails at once when it cannot; what a   *)
(* process reads and writes afterwards goes through its own cache of the   *)
(* directory and the buckets; gdbm_close unlocks, even when it reports an  *)
(* error.                                                                  *)
(***************************************************************************)
CONSTANTS
  Sessions, Keys, Texts, NoText, Failed,   \* as in module DbSpec
  Faults   \* what may go wrong: "gdbm" (a library call fails), "oom" (mk_datum
           \* fails), "crash" (the session dies, as by a signal)

VARIABLES
  file, call, got, reply,   \* as in module DbSpec
  pc,     \* the library call each session makes next, or "idle"
  lock,   \* the lock each session holds: "none", "reader" or "writer"
  cache,  \* the table as each session that has the file open believes it to be
  alone,  \* history: no other session has been in a call during this one
  faults  \* what goes wrong in this behaviour: all the faults, or none

vars == <<file, call, got, reply, pc, lock, cache, alone, faults>>

DbSpec == INSTANCE DbSpec
Calls == DbSpec!Calls
Idle == DbSpec!Idle
Table == [Keys -> Texts \cup {NoText}]
EmptyTable == [k \in Keys |-> NoText]

ASSUME FaultsAssumption == Faults \subseteq {"gdbm", "oom", "crash"}
ASSUME NoTextAssumption == NoText \notin Texts
ASSUME FailedAssumption == Failed \notin Texts \cup {NoText}

Labels == {"idle", "init", "initclose", "open", "access", "close", "errclose"}

TypeOK ==
  /\ file \in Table
  /\ call \in [Sessions -> Calls \cup {Idle}]
  /\ got \in [Sessions -> Texts \cup {NoText}]
  /\ reply \in [Sessions -> Texts \cup {NoText, Failed}]
  /\ pc \in [Sessions -> Labels]
  /\ lock \in [Sessions -> {"none", "reader", "writer"}]
  /\ cache \in [Sessions -> Table]
  /\ alone \in [Sessions -> BOOLEAN]
  /\ faults \in {{}, Faults}

Init ==
  /\ file = EmptyTable
  /\ call = [s \in Sessions |-> Idle]
  /\ got = [s \in Sessions |-> NoText]
  /\ reply = [s \in Sessions |-> NoText]
  /\ pc = [s \in Sessions |-> "idle"]
  /\ lock = [s \in Sessions |-> "none"]
  /\ cache = [s \in Sessions |-> EmptyTable]
  /\ alone = [s \in Sessions |-> FALSE]
  /\ faults \in {{}, Faults}

----------------------------------------------------------------------------
Goto(s, label) == pc' = [pc EXCEPT ![s] = label]

\* The call of session s returns r.
Return(s, r) ==
  /\ Goto(s, "idle")
  /\ reply' = [reply EXCEPT ![s] = r]
  /\ call' = [call EXCEPT ![s] = Idle]
  /\ got' = [got EXCEPT ![s] = NoText]
  /\ alone' = [alone EXCEPT ![s] = FALSE]

InCall == <<call, got, reply, alone>>

CanLock(s, mode) ==
  \A t \in Sessions \ {s} :
    lock[t] = "none" \/ (lock[t] = "reader" /\ mode = "reader")

\* gdbm_open succeeds; a process that already has the file open elsewhere is
\* in its own way.
Open(s, mode) ==
  /\ CanLock(s, mode) /\ lock[s] = "none"
  /\ lock' = [lock EXCEPT ![s] = mode]
  /\ cache' = [cache EXCEPT ![s] = file]

OpenFails(s, mode) ==
  /\ "gdbm" \in faults \/ ~CanLock(s, mode) \/ lock[s] # "none"
  /\ UNCHANGED <<lock, cache>>

Unlock(s) ==
  /\ lock' = [lock EXCEPT ![s] = "none"]
  /\ cache' = [cache EXCEPT ![s] = EmptyTable]

----------------------------------------------------------------------------
\* A session that is in no call makes one.
Call(s, c) ==
  /\ pc[s] = "idle"
  /\ Goto(s, "init")
  /\ call' = [call EXCEPT ![s] = c]
  /\ reply' = [reply EXCEPT ![s] = NoText]
  /\ alone' = [t \in Sessions |->
                 IF t = s THEN \A u \in Sessions \ {s} : pc[u] = "idle" ELSE FALSE]
  /\ UNCHANGED <<file, got, lock, cache>>

\* mk_datum has no memory.
MkDatumFails(s) ==
  /\ pc[s] = "init" /\ "oom" \in faults
  /\ Return(s, Failed)
  /\ UNCHANGED <<file, lock, cache>>

\* The open of db_init.
InitOpen(s) ==
  /\ pc[s] = "init"
  /\ \/ Open(s, "writer") /\ Goto(s, "initclose") /\ UNCHANGED InCall
     \/ OpenFails(s, "writer") /\ Return(s, Failed)
  /\ UNCHANGED file

\* Mutant: db_init leaves the file open.
InitClose_Missing(s) ==
  /\ pc[s] = "initclose"
  /\ Goto(s, "open")
  /\ UNCHANGED <<file, lock, cache, call, got, reply, alone>>

\* Its close.
InitClose(s) ==
  /\ pc[s] = "initclose"
  /\ Unlock(s)
  /\ \/ Goto(s, "open") /\ UNCHANGED InCall
     \/ "gdbm" \in faults /\ Return(s, Failed)
  /\ UNCHANGED file

Mode_Reader(s) == IF s \in Sessions THEN "reader" ELSE "none"            \* mutant

Mode_NoLock(s) == IF call[s].op = "store" THEN "writer" ELSE "nolock"   \* mutant

Mode(s) == IF call[s].op = "store" THEN "writer" ELSE "reader"

\* Mutant: the open waits for the lock.
OpenFile_Waits(s) ==
  /\ pc[s] = "open"
  /\ Open(s, Mode(s)) /\ Goto(s, "access")
  /\ UNCHANGED <<file, call, got, reply, alone>>

OpenFile(s) ==
  /\ pc[s] = "open"
  /\ \/ Open(s, Mode(s)) /\ Goto(s, "access") /\ UNCHANGED InCall
     \/ OpenFails(s, Mode(s)) /\ Return(s, Failed)
  /\ UNCHANGED file

\* gdbm_store: writes the session's table with the new entry.  When it reports
\* a failure the entry may be on the disk all the same.
Store(s) ==
  /\ pc[s] = "access" /\ call[s].op = "store"
  /\ \/ /\ file' = [cache[s] EXCEPT ![call[s].key] = call[s].text]
        /\ cache' = [cache EXCEPT ![s] = file']
        /\ got' = [got EXCEPT ![s] = call[s].text]
        /\ \/ Goto(s, "close")
           \/ "gdbm" \in faults /\ Goto(s, "errclose")
     \/ "gdbm" \in faults /\ Goto(s, "errclose") /\ UNCHANGED <<file, cache, got>>
  /\ UNCHANGED <<call, reply, lock, alone>>

\* Mutant: a key that is not there is not noticed.
Fetch_Unchecked(s) ==
  /\ pc[s] = "access" /\ call[s].op = "load"
  /\ got' = [got EXCEPT ![s] = cache[s][call[s].key]]
  /\ Goto(s, "close")
  /\ UNCHANGED <<file, call, reply, lock, cache, alone>>

\* gdbm_fetch.
Fetch(s) ==
  /\ pc[s] = "access" /\ call[s].op = "load"
  /\ \/ /\ cache[s][call[s].key] # NoText
        /\ got' = [got EXCEPT ![s] = cache[s][call[s].key]]
        /\ Goto(s, "close")
     \/ /\ cache[s][call[s].key] = NoText \/ "gdbm" \in faults
        /\ Goto(s, "errclose")
        /\ UNCHANGED got
  /\ UNCHANGED <<file, call, reply, lock, cache, alone>>

\* The close that ends a call, or fails and is repeated at the error label.
Close(s) ==
  /\ pc[s] = "close"
  /\ Unlock(s)
  /\ \/ Return(s, got[s])
     \/ "gdbm" \in faults /\ Goto(s, "errclose") /\ UNCHANGED InCall
  /\ UNCHANGED file

\* Mutant: the error label forgets the file.
ErrClose_Missing(s) ==
  /\ pc[s] = "errclose"
  /\ Return(s, Failed)
  /\ UNCHANGED <<file, lock, cache>>

\* The close at the error label.  A handle that was closed before has been
\* freed: the session may die of it, which for the caller's client, the lock
\* and the file comes to the same as a return of -1, as that ends the session.
ErrClose(s) ==
  /\ pc[s] = "errclose"
  /\ Unlock(s)
  /\ Return(s, Failed)
  /\ UNCHANGED file

\* The session dies inside a call; its locks go with it.
Crash(s) ==
  /\ pc[s] # "idle" /\ "crash" \in faults
  /\ Unlock(s)
  /\ Return(s, Failed)
  /\ UNCHANGED file

----------------------------------------------------------------------------
Step(s) ==
  \/ MkDatumFails(s) \/ InitOpen(s) \/ InitClose(s) \/ OpenFile(s)
  \/ Store(s) \/ Fetch(s) \/ Close(s) \/ ErrClose(s)

Next ==
  /\ \E s \in Sessions : \/ \E c \in Calls : Call(s, c)
                         \/ Step(s)
                         \/ Crash(s)
  /\ UNCHANGED faults

Spec == Init /\ [][Next]_vars

\* The kernel runs each session that is inside a call; nothing makes a client
\* call again.
FairSpec == Spec /\ \A s \in Sessions : WF_vars(Step(s) /\ UNCHANGED faults)

----------------------------------------------------------------------------
(* PROPERTIES *)

\* Calls are atomic, and answer according to DbSpec (db_store, db_load).
ImplementsDbSpec == DbSpec!Spec

\* Nobody is at the file beside a writer, and what a session that has it open
\* believes is what is there.  No store can undo another one.
WriterExcludes ==
  /\ \A s \in Sessions : lock[s] = "writer" =>
       \A t \in Sessions \ {s} : lock[t] = "none"
  /\ \A s \in Sessions : lock[s] # "none" => cache[s] = file

\* On every path out of a call, error paths included, the file was closed: a
\* session that waits for its client keeps nobody else away from the database.
NoLockOutsideCalls == \A s \in Sessions : pc[s] = "idle" => lock[s] = "none"

\* Where nothing goes wrong, a call that meets no other fails only for a key
\* that is not there: db_init and the open after it are not in each other's way.
LoneCallSucceeds ==
  [][\A s \in Sessions :
       faults = {} /\ alone[s] /\ pc[s] # "idle" /\ pc'[s] = "idle" /\ reply'[s] = Failed
       => call[s].op = "load" /\ file[call[s].key] = NoText]_vars

\* Every call returns, whatever fails: no session waits for another one's lock.
CallsReturn == \A s \in Sessions : pc[s] # "idle" ~> pc[s] = "idle"
=============================================================================
