------------------------------- MODULE DbSpec -------------------------------
(***************************************************************************)
(* What the sessions may rely on when they call db_store and db_load       *)
(* (src/db.c): a call takes effect at one instant between its start and    *)
(* its return, or not at all.  One that succeeds has taken effect; one     *)
(* that fails may have, or not.  Module Db implements this; the key store  *)
(* of module Protocol is written against it.                               *)
(***************************************************************************)
CONSTANTS
  Sessions,  \* processes that use the database
  Keys,
  Texts,     \* what is stored under a key
  NoText,    \* no text: the key is not there, or the call is not done
  Failed     \* the answer of a call that returns -1 or NULL

VARIABLES
  file,   \* the table
  call,   \* what each session is calling, or Idle
  got,    \* the text the call has written or read, once it has
  reply   \* the answer to the last call of each session

specvars == <<file, call, got, reply>>

\* A load carries no text.
Calls == [op : {"store"}, key : Keys, text : Texts]
         \cup [op : {"load"}, key : Keys, text : {NoText}]
Idle == [op |-> "idle"]

SpecInit ==
  /\ file \in [Keys -> Texts \cup {NoText}]
  /\ call = [s \in Sessions |-> Idle]
  /\ got = [s \in Sessions |-> NoText]
  /\ reply = [s \in Sessions |-> NoText]

SpecCall(s, c) ==
  /\ call[s] = Idle
  /\ call' = [call EXCEPT ![s] = c]
  /\ reply' = [reply EXCEPT ![s] = NoText]
  /\ UNCHANGED <<file, got>>

\* Takes effect once.
SpecStore(s) ==
  /\ call[s] # Idle /\ call[s].op = "store" /\ got[s] = NoText
  /\ file' = [file EXCEPT ![call[s].key] = call[s].text]
  /\ got' = [got EXCEPT ![s] = call[s].text]
  /\ UNCHANGED <<call, reply>>

SpecLoad(s) ==
  /\ call[s] # Idle /\ call[s].op = "load" /\ got[s] = NoText
  /\ file[call[s].key] # NoText
  /\ got' = [got EXCEPT ![s] = file[call[s].key]]
  /\ UNCHANGED <<file, call, reply>>

SpecReturn(s) ==
  /\ call[s] # Idle
  /\ \/ got[s] # NoText /\ reply' = [reply EXCEPT ![s] = got[s]]
     \/ reply' = [reply EXCEPT ![s] = Failed]
  /\ call' = [call EXCEPT ![s] = Idle]
  /\ got' = [got EXCEPT ![s] = NoText]
  /\ UNCHANGED file

SpecNext ==
  \E s \in Sessions :
    \/ \E c \in Calls : SpecCall(s, c)
    \/ SpecStore(s) \/ SpecLoad(s) \/ SpecReturn(s)

Spec == SpecInit /\ [][SpecNext]_specvars
=============================================================================
