------------------------------ MODULE DbProofs ------------------------------
(***************************************************************************)
(* Theorems about module Db, for any sets of sessions, keys and texts and  *)
(* any faults: the lock discipline of db_store and db_load, that their     *)
(* calls are atomic in the sense of module DbSpec, and that a call alone   *)
(* is not in its own way.                                                  *)
(***************************************************************************)
EXTENDS Db, TLAPS

\* Where a session is in a call, what it holds and what it has got.
ControlOf(s) ==
  /\ call[s] = Idle <=> pc[s] = "idle"
  /\ pc[s] \in {"idle", "init", "initclose", "open", "access"} => got[s] = NoText
  /\ pc[s] = "close" => got[s] # NoText
  /\ pc[s] \in {"idle", "init", "open"} => lock[s] = "none"
  /\ pc[s] = "access" => lock[s] = Mode(s)

Control == \A s \in Sessions : ControlOf(s)

\* The inductive invariant.
IInv == TypeOK /\ Control /\ WriterExcludes

LEMMA IdleIsNoCall ==
  \A c \in Calls : c # Idle /\ c.op \in {"store", "load"} /\ c.key \in Keys
                   /\ c.text \in Texts \cup {NoText}
                   /\ (c.op = "store" => c.text \in Texts)
  BY DEF Calls, Idle, DbSpec!Calls, DbSpec!Idle

\* One operator for all the ways a session changes, so that the invariant is
\* proved once for what the actions have in common: the others stay put.
Others(s) ==
  \A t \in Sessions \ {s} :
    /\ pc'[t] = pc[t] /\ call'[t] = call[t] /\ got'[t] = got[t]
    /\ lock'[t] = lock[t] /\ cache'[t] = cache[t]

LEMMA ControlStep ==
  ASSUME Control, NEW s \in Sessions, Others(s), ControlOf(s)'
  PROVE  Control'
  <1> SUFFICES ASSUME NEW t \in Sessions, t # s PROVE ControlOf(t)'
    BY DEF Control
  <1> QED BY DEF Control, ControlOf, Others, Mode

LEMMA ReturnTypes ==
  ASSUME TypeOK, NEW s \in Sessions, NEW r \in Texts \cup {NoText, Failed}, Return(s, r)
  PROVE  /\ call' \in [Sessions -> Calls \cup {Idle}]
         /\ got' \in [Sessions -> Texts \cup {NoText}]
         /\ reply' \in [Sessions -> Texts \cup {NoText, Failed}]
         /\ pc' \in [Sessions -> Labels]
         /\ alone' \in [Sessions -> BOOLEAN]
  BY DEF Return, Goto, Labels, TypeOK

LEMMA OpenTypes ==
  ASSUME TypeOK, NEW s \in Sessions, NEW mode \in {"reader", "writer"},
         Open(s, mode) \/ OpenFails(s, mode)
  PROVE  /\ lock' \in [Sessions -> {"none", "reader", "writer"}]
         /\ cache' \in [Sessions -> Table]
  BY DEF Open, OpenFails, TypeOK

LEMMA UnlockTypes ==
  ASSUME TypeOK, NEW s \in Sessions, Unlock(s)
  PROVE  /\ lock' \in [Sessions -> {"none", "reader", "writer"}]
         /\ cache' \in [Sessions -> Table]
  BY DEF Unlock, TypeOK, Table, EmptyTable

LEMMA TypeStep ==
  ASSUME TypeOK, NEW s \in Sessions, UNCHANGED faults,
         (\E c \in Calls : Call(s, c)) \/ Step(s) \/ Crash(s)
  PROVE  TypeOK'
  <1> USE IdleIsNoCall
  <1>1. ASSUME NEW c \in Calls, Call(s, c) PROVE TypeOK'
    <2>1. alone' \in [Sessions -> BOOLEAN]
      BY <1>1 DEF Call
    <2> QED BY <1>1, <2>1 DEF Call, TypeOK, Goto, Labels
  <1>2. CASE MkDatumFails(s)
    BY <1>2 DEF MkDatumFails, Return, TypeOK, Goto, Labels
  <1>3. CASE InitOpen(s)
    BY <1>3, OpenTypes, ReturnTypes DEF InitOpen, InCall, TypeOK, Goto, Labels
  <1>4. CASE InitClose(s)
    BY <1>4, UnlockTypes, ReturnTypes DEF InitClose, InCall, TypeOK, Goto, Labels
  <1>5. CASE OpenFile(s)
    BY <1>5, OpenTypes, ReturnTypes DEF OpenFile, Mode, InCall, TypeOK, Goto, Labels
  <1>6. CASE Store(s)
    <2>1. call[s] \in Calls
      BY <1>6 DEF Store, TypeOK, Idle, DbSpec!Idle
    <2>2. [cache[s] EXCEPT ![call[s].key] = call[s].text] \in Table
      BY <2>1 DEF TypeOK, Table
    <2>3. call[s].text \in Texts
      BY <1>6, <2>1 DEF Store
    <2> QED BY <1>6, <2>2, <2>3 DEF Store, TypeOK, Goto, Labels
  <1>7. CASE Fetch(s)
    <2>1. call[s] \in Calls
      BY <1>7 DEF Fetch, TypeOK, Idle, DbSpec!Idle
    <2>2. cache[s][call[s].key] \in Texts \cup {NoText}
      BY <2>1 DEF TypeOK, Table
    <2> QED BY <1>7, <2>2 DEF Fetch, TypeOK, Goto, Labels
  <1>8. CASE Close(s)
    <2>1. got[s] \in Texts \cup {NoText, Failed}
      BY DEF TypeOK
    <2> QED BY <1>8, <2>1, UnlockTypes, ReturnTypes DEF Close, InCall, TypeOK, Goto, Labels
  <1>9. CASE ErrClose(s)
    BY <1>9, UnlockTypes, ReturnTypes DEF ErrClose, TypeOK
  <1>10. CASE Crash(s)
    BY <1>10, UnlockTypes, ReturnTypes DEF Crash, TypeOK
  <1> QED BY <1>1, <1>2, <1>3, <1>4, <1>5, <1>6, <1>7, <1>8, <1>9, <1>10 DEF Step

LEMMA StepOthers ==
  ASSUME TypeOK, NEW s \in Sessions, (\E c \in Calls : Call(s, c)) \/ Step(s) \/ Crash(s)
  PROVE  Others(s)
  <1>1. ASSUME NEW c \in Calls, Call(s, c) PROVE Others(s)
    BY <1>1 DEF Call, TypeOK, Goto, Others
  <1>2. CASE MkDatumFails(s) \/ InitOpen(s) \/ OpenFile(s)
    BY <1>2 DEF MkDatumFails, InitOpen, OpenFile, Open, OpenFails, InCall, Return,
                TypeOK, Goto, Others
  <1>3. CASE InitClose(s) \/ Close(s) \/ ErrClose(s) \/ Crash(s)
    BY <1>3 DEF InitClose, Close, ErrClose, Crash, Unlock, InCall, Return, TypeOK,
                Goto, Others
  <1>4. CASE Store(s) \/ Fetch(s)
    BY <1>4 DEF Store, Fetch, TypeOK, Goto, Others
  <1> QED BY <1>1, <1>2, <1>3, <1>4 DEF Step

LEMMA StepControl ==
  ASSUME TypeOK, Control, NEW s \in Sessions,
         (\E c \in Calls : Call(s, c)) \/ Step(s) \/ Crash(s)
  PROVE  ControlOf(s)'
  <1> USE IdleIsNoCall
  <1>0. ControlOf(s)
    BY DEF Control
  <1>1. ASSUME NEW c \in Calls, Call(s, c) PROVE ControlOf(s)'
    BY <1>0, <1>1 DEF Call, TypeOK, Goto, ControlOf
  <1>2. CASE MkDatumFails(s) \/ InitOpen(s)
    BY <1>0, <1>2 DEF MkDatumFails, InitOpen, Open, OpenFails, InCall, Return,
                TypeOK, Goto, ControlOf
  <1>3. CASE OpenFile(s)
    BY <1>0, <1>3 DEF OpenFile, Open, OpenFails, InCall, Return, TypeOK, Goto, ControlOf, Mode
  <1>4. CASE InitClose(s) \/ Close(s) \/ ErrClose(s) \/ Crash(s)
    BY <1>0, <1>4 DEF InitClose, Close, ErrClose, Crash, Unlock, InCall, Return, TypeOK,
                Goto, ControlOf
  <1>5. CASE Store(s)
    <2>1. call[s].text # NoText
      BY <1>5, NoTextAssumption DEF Store, TypeOK, Idle, DbSpec!Idle
    <2> QED BY <1>0, <1>5, <2>1 DEF Store, TypeOK, Goto, ControlOf
  <1>6. CASE Fetch(s)
    BY <1>0, <1>6 DEF Fetch, TypeOK, Goto, ControlOf
  <1> QED BY <1>1, <1>2, <1>3, <1>4, <1>5, <1>6 DEF Step

LEMMA OpenExcludes ==
  ASSUME TypeOK, WriterExcludes, NEW s \in Sessions, NEW mode \in {"reader", "writer"},
         Open(s, mode), UNCHANGED file
  PROVE  WriterExcludes'
  BY DEF Open, CanLock, WriterExcludes, TypeOK

LEMMA UnlockExcludes ==
  ASSUME TypeOK, WriterExcludes, NEW s \in Sessions, Unlock(s), UNCHANGED file
  PROVE  WriterExcludes'
  BY DEF Unlock, WriterExcludes, TypeOK

LEMMA StepExcludes ==
  ASSUME IInv, NEW s \in Sessions, (\E c \in Calls : Call(s, c)) \/ Step(s) \/ Crash(s)
  PROVE  WriterExcludes'
  <1> USE DEF IInv
  <1>1. CASE UNCHANGED <<file, lock, cache>>
    BY <1>1 DEF WriterExcludes
  <1>2. CASE InitOpen(s) \/ OpenFile(s)
    BY <1>1, <1>2, OpenExcludes DEF InitOpen, OpenFile, OpenFails, Mode
  <1>3. CASE InitClose(s) \/ Close(s) \/ ErrClose(s) \/ Crash(s)
    BY <1>3, UnlockExcludes DEF InitClose, Close, ErrClose, Crash
  <1>4. CASE Store(s)
    <2>1. lock[s] = "writer"
      BY <1>4 DEF Store, Control, ControlOf, Mode
    <2>2. CASE cache' = [cache EXCEPT ![s] = file']
      BY <1>4, <2>1, <2>2 DEF Store, WriterExcludes, TypeOK
    <2> QED BY <1>1, <1>4, <2>2 DEF Store
  <1> QED BY <1>1, <1>2, <1>3, <1>4 DEF Call, MkDatumFails, Fetch, Step

LEMMA IInvInductive == IInv /\ [Next]_vars => IInv'
  <1>1. ASSUME IInv, NEW s \in Sessions, UNCHANGED faults,
               (\E c \in Calls : Call(s, c)) \/ Step(s) \/ Crash(s)
        PROVE  IInv'
    BY <1>1, TypeStep, StepOthers, StepControl, ControlStep, StepExcludes DEF IInv
  <1>2. IInv /\ UNCHANGED vars => IInv'
    BY DEF IInv, vars, TypeOK, Control, ControlOf, WriterExcludes, Mode
  <1> QED BY <1>1, <1>2 DEF Next

LEMMA InitIInv == Init => IInv
  BY DEF Init, IInv, TypeOK, Control, ControlOf, WriterExcludes, Table, EmptyTable, Labels

LEMMA SpecIInv == Spec => []IInv
  BY InitIInv, IInvInductive, PTL DEF Spec

\* The types of the variables, in every behaviour of the sessions.
THEOREM SpecTypeOK == Spec => []TypeOK
  <1>1. IInv => TypeOK
    BY DEF IInv
  <1> QED BY <1>1, SpecIInv, PTL

\* A session that has the file open for writing has it alone, and nobody works
\* on a stale copy, whatever fails or crashes.
THEOREM SpecWriterExcludes == Spec => []WriterExcludes
  <1>1. IInv => WriterExcludes
    BY DEF IInv
  <1> QED BY <1>1, SpecIInv, PTL

\* db_store and db_load return with the file closed, on their error paths, too.
THEOREM SpecNoLockOutsideCalls == Spec => []NoLockOutsideCalls
  <1>1. IInv => NoLockOutsideCalls
    BY DEF IInv, Control, ControlOf, NoLockOutsideCalls
  <1> QED BY <1>1, SpecIInv, PTL

----------------------------------------------------------------------------
\* Each library call is a step of the abstract call, or invisible.
LEMMA StepImplements ==
  ASSUME IInv, NEW s \in Sessions, (\E c \in Calls : Call(s, c)) \/ Step(s) \/ Crash(s)
  PROVE  DbSpec!SpecNext \/ UNCHANGED DbSpec!specvars
  <1> USE DEF IInv
  <1> DEFINE Returns == DbSpec!SpecReturn(s)
  <1>0. ControlOf(s)
    BY DEF Control
  <1>1. ASSUME NEW c \in Calls, Call(s, c) PROVE DbSpec!SpecCall(s, c)
    BY <1>0, <1>1 DEF Call, ControlOf, DbSpec!SpecCall, Idle
  <1>2. ASSUME Return(s, Failed), pc[s] # "idle", UNCHANGED file PROVE Returns
    BY <1>0, <1>2 DEF Return, ControlOf, DbSpec!SpecReturn, Idle
  <1>3. ASSUME UNCHANGED file, UNCHANGED InCall PROVE UNCHANGED DbSpec!specvars
    BY <1>3 DEF InCall, DbSpec!specvars
  <1>4. CASE MkDatumFails(s) \/ InitOpen(s) \/ InitClose(s) \/ OpenFile(s) \/ ErrClose(s)
             \/ Crash(s)
    BY <1>2, <1>3, <1>4 DEF MkDatumFails, InitOpen, InitClose, OpenFile, ErrClose, Crash,
                            DbSpec!SpecNext
  <1>5. CASE Store(s)
    <2>1. got[s] = NoText /\ call[s] # Idle /\ lock[s] = "writer"
      BY <1>0, <1>5 DEF Store, ControlOf, Mode
    <2>2. cache[s] = file
      BY <2>1 DEF WriterExcludes
    <2>3. CASE UNCHANGED <<file, got>>
      BY <1>5, <2>3 DEF Store, DbSpec!specvars
    <2>4. CASE ~UNCHANGED <<file, got>>
      <3>1. DbSpec!SpecStore(s)
        BY <1>5, <2>1, <2>2, <2>4 DEF Store, DbSpec!SpecStore, Idle
      <3> QED BY <3>1 DEF DbSpec!SpecNext
    <2> QED BY <2>3, <2>4
  <1>6. CASE Fetch(s)
    <2>1. got[s] = NoText /\ call[s] # Idle /\ lock[s] # "none"
      BY <1>0, <1>6 DEF Fetch, ControlOf, Mode
    <2>2. cache[s] = file
      BY <2>1 DEF WriterExcludes
    <2>3. CASE UNCHANGED got
      BY <1>6, <2>3 DEF Fetch, DbSpec!specvars
    <2>4. CASE ~UNCHANGED got
      <3>1. DbSpec!SpecLoad(s)
        BY <1>6, <2>1, <2>2, <2>4 DEF Fetch, DbSpec!SpecLoad, Idle
      <3> QED BY <3>1 DEF DbSpec!SpecNext
    <2> QED BY <2>3, <2>4
  <1>7. CASE Close(s)
    <2>1. got[s] # NoText /\ call[s] # Idle
      BY <1>0, <1>7 DEF Close, ControlOf
    <2>2. CASE Return(s, got[s])
      <3>1. Returns
        BY <1>7, <2>1, <2>2 DEF Close, Return, DbSpec!SpecReturn, Idle
      <3> QED BY <3>1 DEF DbSpec!SpecNext
    <2>3. CASE UNCHANGED InCall
      BY <1>3, <1>7, <2>3 DEF Close
    <2> QED BY <1>7, <2>2, <2>3 DEF Close
  <1> QED BY <1>1, <1>4, <1>5, <1>6, <1>7 DEF Step, DbSpec!SpecNext, Calls

\* The calls of any number of sessions are atomic: db_store and db_load over
\* gdbm implement the table of module DbSpec.
THEOREM SpecImplementsDbSpec == Spec => ImplementsDbSpec
  <1>1. Init => DbSpec!SpecInit
    BY DEF Init, DbSpec!SpecInit, EmptyTable, Idle
  <1>2. IInv /\ [Next]_vars => [DbSpec!SpecNext]_(DbSpec!specvars)
    <2>1. UNCHANGED vars => UNCHANGED DbSpec!specvars
      BY DEF vars, DbSpec!specvars
    <2> QED BY <2>1, StepImplements DEF Next
  <1> QED BY <1>1, <1>2, SpecIInv, PTL DEF Spec, ImplementsDbSpec, DbSpec!Spec

----------------------------------------------------------------------------
\* What keeps a lone call from failing when nothing goes wrong: the others are
\* outside, so they hold no lock, and it has come to the error label only
\* because its key is not there.
LoneOf(s) ==
  /\ alone[s] => pc[s] # "idle" /\ \A t \in Sessions \ {s} : pc[t] = "idle"
  /\ pc[s] = "errclose" =>
       lock[s] = "reader" /\ call[s].op = "load" /\ cache[s][call[s].key] = NoText

Lone == faults = {} => \A s \in Sessions : LoneOf(s)

LEMMA LoneCall ==
  ASSUME IInv, Lone, NEW s \in Sessions, NEW c \in Calls, Call(s, c), UNCHANGED faults
  PROVE  Lone'
  <1>1. /\ pc'[s] = "init" /\ alone'[s] = (\A u \in Sessions \ {s} : pc[u] = "idle")
        /\ \A t \in Sessions \ {s} : pc'[t] = pc[t] /\ call'[t] = call[t] /\ ~alone'[t]
        /\ UNCHANGED <<lock, cache>>
    BY DEF Call, Goto, IInv, TypeOK
  <1>2. ASSUME faults = {}, NEW t \in Sessions PROVE LoneOf(t)'
    <2>1. LoneOf(t)
      BY <1>2 DEF Lone
    <2>2. CASE t = s
      BY <1>1, <2>1, <2>2 DEF LoneOf
    <2>3. CASE t # s
      BY <1>1, <2>1, <2>3 DEF LoneOf
    <2> QED BY <2>2, <2>3
  <1> QED BY <1>2 DEF Lone

LEMMA LoneStep ==
  ASSUME faults = {}, IInv, Lone, NEW s \in Sessions, Step(s)
  PROVE  Lone'
  <1> USE DEF IInv
  <1>1. pc[s] # "idle" /\ Others(s)
    BY StepOthers DEF Step, MkDatumFails, InitOpen, InitClose, OpenFile, Store, Fetch, Close,
                      ErrClose
  <1>2. \/ alone' = alone /\ pc'[s] # "idle"
        \/ alone' = [alone EXCEPT ![s] = FALSE] /\ pc'[s] = "idle"
    BY <1>1 DEF Step, MkDatumFails, InitOpen, InitClose, OpenFile, Store, Fetch, Close,
                ErrClose, Return, InCall, Goto, TypeOK
  <1>3. pc'[s] = "errclose" =>
          lock'[s] = "reader" /\ call'[s].op = "load" /\ cache'[s][call'[s].key] = NoText
    <2>1. CASE Fetch(s)
      BY <2>1 DEF Fetch, Goto, Control, ControlOf, Mode, TypeOK
    <2>2. CASE ~Fetch(s)
      BY <2>2 DEF Step, MkDatumFails, InitOpen, InitClose, OpenFile, Store, Close, ErrClose,
                  Return, Goto, TypeOK
    <2> QED BY <2>1, <2>2
  <1>4. ASSUME NEW t \in Sessions \ {s} PROVE LoneOf(t)'
    <2>1. ~alone[t]
      BY <1>1 DEF Lone, LoneOf
    <2>2. ~alone'[t]
      BY <1>2, <2>1 DEF TypeOK
    <2> QED BY <1>1, <2>2 DEF Lone, LoneOf, Others
  <1>5. LoneOf(s)'
    <2>1. alone'[s] => alone[s] /\ pc'[s] # "idle"
      BY <1>2 DEF TypeOK
    <2> QED BY <1>1, <1>3, <2>1 DEF Lone, LoneOf, Others
  <1> QED BY <1>4, <1>5 DEF Lone

LEMMA LoneSucceeds ==
  ASSUME faults = {}, IInv, Lone, NEW s \in Sessions, Step(s), alone[s], pc'[s] = "idle",
         reply'[s] = Failed
  PROVE  call[s].op = "load" /\ file[call[s].key] = NoText
  <1> USE DEF IInv
  <1>1. \A t \in Sessions \ {s} : lock[t] = "none"
    BY DEF Lone, LoneOf, Control, ControlOf
  <1>2. CASE InitOpen(s) \/ OpenFile(s)
    <2>1. lock[s] = "none"
      BY <1>2 DEF InitOpen, OpenFile, Control, ControlOf
    <2>2. ~OpenFails(s, "writer") /\ ~OpenFails(s, Mode(s))
      BY <1>1, <2>1 DEF OpenFails, CanLock
    <2> QED BY <1>2, <2>2 DEF InitOpen, OpenFile, Goto, TypeOK
  <1>3. CASE Close(s)
    <2>1. got[s] \in Texts
      BY <1>3 DEF Close, Control, ControlOf, TypeOK
    <2>2. reply'[s] = got[s]
      BY <1>3 DEF Close, Return, TypeOK
    <2> QED BY <2>1, <2>2, FailedAssumption
  <1>4. CASE ErrClose(s)
    BY <1>4 DEF ErrClose, Lone, LoneOf, WriterExcludes
  <1>5. CASE MkDatumFails(s) \/ InitClose(s) \/ Store(s) \/ Fetch(s)
    BY <1>5 DEF MkDatumFails, InitClose, Store, Fetch, Goto, TypeOK
  <1> QED BY <1>2, <1>3, <1>4, <1>5 DEF Step

\* Where nothing goes wrong, a db_store that meets no other call succeeds, and
\* a db_load that meets none fails only for an unknown key.
THEOREM SpecLoneCallSucceeds == Spec => LoneCallSucceeds
  <1> DEFINE A == \A s \in Sessions :
                   faults = {} /\ alone[s] /\ pc[s] # "idle" /\ pc'[s] = "idle" /\ reply'[s] = Failed
                   => call[s].op = "load" /\ file[call[s].key] = NoText
  <1>1. Init => Lone
    BY DEF Init, Lone, LoneOf
  <1>2. IInv /\ Lone /\ [Next]_vars => Lone'
    <2>1. UNCHANGED vars /\ Lone => Lone'
      BY DEF vars, Lone, LoneOf
    <2>2. ASSUME faults # {}, UNCHANGED faults PROVE Lone'
      BY <2>2 DEF Lone
    <2> QED BY <2>1, <2>2, LoneCall, LoneStep DEF Next, Crash
  <1>3. IInv /\ Lone /\ [Next]_vars => [A]_vars
    <2> SUFFICES ASSUME IInv, Lone, Next, NEW s \in Sessions,
                        faults = {}, alone[s], pc[s] # "idle", pc'[s] = "idle", reply'[s] = Failed
                 PROVE  call[s].op = "load" /\ file[call[s].key] = NoText
      OBVIOUS
    <2>1. ASSUME NEW t \in Sessions, Step(t) PROVE t = s
      BY <2>1, StepOthers DEF Others, IInv
    <2>2. ASSUME NEW t \in Sessions, NEW c \in Calls, Call(t, c) PROVE FALSE
      BY <2>2 DEF Call, Goto, IInv, TypeOK
    <2>3. Step(s)
      BY <2>1, <2>2 DEF Next, Crash
    <2> QED BY <2>3, LoneSucceeds
  <1> QED BY <1>1, <1>2, <1>3, SpecIInv, PTL DEF Spec, LoneCallSucceeds
=============================================================================
