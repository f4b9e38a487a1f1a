---------------------------- MODULE ServerProofs ----------------------------
(***************************************************************************)
(* Theorems about module Server, for any numbers of clients and processes: *)
(* who holds a connection, and that no ended child is forgotten.           *)
(***************************************************************************)
EXTENDS Server, TLAPS

LEMMA ExitType ==
  ASSUME TypeOK, Exit
  PROVE  TypeOK'
  <1>1. queue' \in Seq(Clients) /\ Len(queue') <= Backlog
    BY BacklogAssumption DEF Exit, CloseAll, CloseListener, TypeOK
  <1>2. listeners' \subseteq Processes /\ holders' \in [Clients -> SUBSET Processes]
    BY DEF Exit, CloseAll, CloseListener, TypeOK
  <1> QED BY <1>1, <1>2 DEF Exit, TypeOK, setup

LEMMA TypeStep == TypeOK /\ [Next]_vars => TypeOK'
  <1> SUFFICES ASSUME TypeOK, [Next]_vars PROVE TypeOK'
    OBVIOUS
  <1>1. CASE Start \/ TryAddress \/ Listen
    <2>1. CASE Exit
      BY <2>1, ExitType
    <2>2. CASE ~Exit
      <3>1. addr \in 0 .. Addresses + 1 /\ 1 \in 0 .. Addresses + 1 /\ 0 \in 0 .. Addresses + 1
        BY AddressesAssumption DEF TypeOK
      <3>2. addr' \in 0 .. Addresses + 1
        BY <1>1, <2>2, <3>1, AddressesAssumption DEF Start, TryAddress, Return, Listen, setup
      <3>3. /\ pc' \in {"address", "listen", "accept"} /\ listeners' \in {listeners, {Parent}}
            /\ sockfd_s' \in {"none", "bound", sockfd_s}
            /\ UNCHANGED <<queue, sockfd_c, holders, child, serves, pending, handler>>
        BY <1>1, <2>2 DEF Start, TryAddress, Return, Listen, setup
      <3> QED BY <3>2, <3>3 DEF TypeOK, Processes
    <2> QED BY <2>1, <2>2
  <1>2. CASE Accept
    <2>1. ASSUME queue # <<>>
          PROVE  /\ Tail(queue) \in Seq(Clients) /\ Len(Tail(queue)) <= Backlog
                 /\ Head(queue) \in Clients
      BY <2>1, BacklogAssumption DEF TypeOK
    <2>2. queue' \in Seq(Clients) /\ Len(queue') <= Backlog
      BY <1>2, <2>1 DEF Accept, TypeOK
    <2>3. holders' \in [Clients -> SUBSET Processes]
      BY <1>2, <2>1 DEF Accept, TypeOK, Processes
    <2> QED BY <1>2, <2>1, <2>2, <2>3 DEF Accept, TypeOK, setup
  <1>3. CASE Fork
    <2>1. CASE Exit
      BY <2>1, ExitType
    <2>2. CASE ~Exit
      <3>1. PICK p \in Pids :
              /\ child' = [child EXCEPT ![p] = "forked"]
              /\ serves' = [serves EXCEPT ![p] = sockfd_c]
              /\ listeners' = listeners \cup {p}
              /\ holders' = [c \in Clients |->
                     IF Parent \in holders[c] THEN holders[c] \cup {p} ELSE holders[c]]
              /\ pc' = "close"
              /\ UNCHANGED <<queue, sockfd_c, pending, handler, setup>>
        BY <1>3, <2>2 DEF Fork
      <3>2. holders' \in [Clients -> SUBSET Processes] /\ listeners' \subseteq Processes
        BY <3>1 DEF TypeOK, Processes
      <3> QED BY <3>1, <3>2 DEF TypeOK, setup
    <2> QED BY <2>1, <2>2
  <1>4. CASE CloseConnection
    BY <1>4, ExitType DEF CloseConnection, TypeOK, setup
  <1>5. CASE Deliver \/ Reap \/ HandlerReturns
    BY <1>5 DEF Deliver, Reap, HandlerReturns, TypeOK, setup
  <1>6. ASSUME NEW p \in Pids, ChildStarts(p) PROVE TypeOK'
    <2>1. queue' \in Seq(Clients) /\ Len(queue') <= Backlog /\ listeners' \subseteq Processes
      BY <1>6, BacklogAssumption DEF ChildStarts, CloseListener, TypeOK
    <2> QED BY <1>6, <2>1 DEF ChildStarts, TypeOK, setup
  <1>7. ASSUME NEW p \in Pids, ChildExits(p) PROVE TypeOK'
    <2>1. queue' \in Seq(Clients) /\ Len(queue') <= Backlog /\ listeners' \subseteq Processes
      BY <1>7, BacklogAssumption DEF ChildExits, CloseAll, CloseListener, TypeOK
    <2>2. holders' \in [Clients -> SUBSET Processes]
      BY <1>7 DEF ChildExits, CloseAll, TypeOK
    <2> QED BY <1>7, <2>1, <2>2 DEF ChildExits, TypeOK, setup
  <1>8. ASSUME NEW c \in Clients, Connect(c) PROVE TypeOK'
    <2>1. queue' \in Seq(Clients) /\ Len(queue') <= Backlog
      BY <1>8, BacklogAssumption DEF Connect, TypeOK
    <2> QED BY <1>8, <2>1 DEF Connect, TypeOK, setup
  <1>9. CASE UNCHANGED vars
    BY <1>9 DEF vars, setup, TypeOK
  <1> QED BY <1>1, <1>2, <1>3, <1>4, <1>5, <1>6, <1>7, <1>8, <1>9 DEF Next, Main

\* The types of the listener's variables; the queue stays within the backlog.
THEOREM SpecTypeOK == Spec => []TypeOK
  <1>1. ASSUME Init PROVE TypeOK
    <2>1. queue \in Seq(Clients) /\ Len(queue) <= Backlog
      BY <1>1, BacklogAssumption DEF Init
    <2>2. holders \in [Clients -> SUBSET Processes] /\ listeners \subseteq Processes
      BY <1>1 DEF Init
    <2>3. addr \in 0 .. Addresses + 1
      BY <1>1, AddressesAssumption DEF Init
    <2> QED BY <1>1, <2>1, <2>2, <2>3 DEF Init, TypeOK
  <1> QED BY <1>1, TypeStep, PTL DEF Spec

----------------------------------------------------------------------------
\* handle_sigchild loops until waitpid finds nothing, so one signal is enough
\* for any number of children that end before it is delivered.
THEOREM SpecZombiesAreNoticed == Spec => []ZombiesAreNoticed
  <1>1. Init => ZombiesAreNoticed
    BY DEF Init, ZombiesAreNoticed, Zombies
  <1>2. TypeOK /\ ZombiesAreNoticed /\ [Next]_vars => ZombiesAreNoticed'
    <2> SUFFICES ASSUME TypeOK, ZombiesAreNoticed, [Next]_vars PROVE ZombiesAreNoticed'
      OBVIOUS
    <2> USE DEF ZombiesAreNoticed, Zombies
    <2>1. CASE Exit
      BY <2>1 DEF Exit
    <2>2. CASE Start \/ TryAddress \/ Listen
      BY <2>1, <2>2 DEF Start, TryAddress, Return, Listen
    <2>3. CASE Accept
      BY <2>3 DEF Accept
    <2>4. CASE Fork
      BY <2>1, <2>4 DEF Fork, TypeOK
    <2>5. CASE CloseConnection
      BY <2>1, <2>5 DEF CloseConnection
    <2>6. CASE Deliver \/ HandlerReturns
      BY <2>6 DEF Deliver, HandlerReturns
    <2>7. CASE Reap
      BY <2>7 DEF Reap
    <2>8. ASSUME NEW p \in Pids, ChildStarts(p) PROVE ZombiesAreNoticed'
      BY <2>8 DEF ChildStarts, TypeOK
    <2>9. ASSUME NEW p \in Pids, ChildExits(p) PROVE ZombiesAreNoticed'
      BY <2>9 DEF ChildExits
    <2>10. ASSUME NEW c \in Clients, Connect(c) PROVE ZombiesAreNoticed'
      BY <2>10 DEF Connect
    <2>11. CASE UNCHANGED vars
      BY <2>11 DEF vars
    <2> QED BY <2>2, <2>3, <2>4, <2>5, <2>6, <2>7, <2>8, <2>9, <2>10, <2>11 DEF Next, Main
  <1> QED BY <1>1, <1>2, SpecTypeOK, PTL DEF Spec

----------------------------------------------------------------------------
\* What makes ConnectionsArePrivate inductive: a connection that is about to
\* get its child has none yet.
Unserved ==
  pc = "fork" /\ sockfd_c # NoClient => holders[sockfd_c] \cap Pids = {}

LEMMA FewerHolders ==
  ASSUME TypeOK, ConnectionsArePrivate, Unserved,
         \A c \in Clients : holders'[c] \subseteq holders[c],
         \A c \in Clients : \A p \in holders'[c] \cap Pids :
           p \in Running' /\ serves'[p] = serves[p],
         UNCHANGED <<pc, sockfd_c>> \/ \A c \in Clients : Parent \notin holders'[c],
         pc' = "fork" => pc = "fork" /\ sockfd_c' = sockfd_c
  PROVE  ConnectionsArePrivate' /\ Unserved'
  <1>1. ConnectionsArePrivate'
    BY DEF ConnectionsArePrivate
  <1>2. Unserved'
    BY DEF Unserved, TypeOK
  <1> QED BY <1>1, <1>2

LEMMA PrivateStep ==
  TypeOK /\ ConnectionsArePrivate /\ Unserved /\ [Next]_vars
    => ConnectionsArePrivate' /\ Unserved'
  <1> SUFFICES ASSUME TypeOK, ConnectionsArePrivate, Unserved, [Next]_vars
               PROVE  ConnectionsArePrivate' /\ Unserved'
    OBVIOUS
  <1>0. \A c \in Clients : holders[c] \subseteq Processes
    BY DEF TypeOK
  <1>1. CASE UNCHANGED <<pc, sockfd_c, holders, child, serves>>
    BY <1>1 DEF ConnectionsArePrivate, Unserved, Running
  <1>2. CASE Exit
    <2>1. \A c \in Clients : holders'[c] = holders[c] \ {Parent}
      BY <1>2 DEF Exit, CloseAll
    <2>2. Running' = Running /\ UNCHANGED serves /\ pc' = "exited"
      BY <1>2 DEF Exit, Running, Zombies, TypeOK
    <2> QED BY <2>1, <2>2, FewerHolders DEF ConnectionsArePrivate
  <1>3. CASE Start \/ TryAddress \/ Listen
    <2>1. CASE /\ UNCHANGED <<holders, sockfd_c, child, serves>>
               /\ pc \in {"start", "address", "listen"} /\ pc' \in {"address", "listen", "accept"}
      BY <2>1 DEF ConnectionsArePrivate, Unserved, Running
    <2> QED BY <1>2, <1>3, <2>1 DEF Start, TryAddress, Return, Listen
  <1>4. CASE Accept
    <2>1. \A c \in Clients : Parent \notin holders[c]
      BY <1>4 DEF Accept, ConnectionsArePrivate
    <2>2. CASE queue # <<>> /\ holders' = [holders EXCEPT ![Head(queue)] = {Parent}]
               /\ sockfd_c' = Head(queue)
      <3>1. Head(queue) \in Clients
        BY <2>2 DEF TypeOK
      <3>2. \A c \in Clients : holders'[c] = IF c = sockfd_c' THEN {Parent} ELSE holders[c]
        BY <2>2, <3>1 DEF TypeOK
      <3>3. pc' = "fork" /\ Running' = Running /\ UNCHANGED serves
        BY <1>4 DEF Accept, Running
      <3> QED BY <2>1, <2>2, <3>1, <3>2, <3>3, ParentAssumption
              DEF ConnectionsArePrivate, Unserved
    <2>3. CASE sockfd_c' = NoClient /\ UNCHANGED holders
      BY <1>4, <2>1, <2>3 DEF Accept, ConnectionsArePrivate, Unserved, Running
    <2> QED BY <1>4, <2>2, <2>3 DEF Accept
  <1>5. CASE Fork
    <2>1. CASE ~Exit
      <3>1. PICK p \in Pids :
              /\ child[p] = "none"
              /\ child' = [child EXCEPT ![p] = "forked"]
              /\ serves' = [serves EXCEPT ![p] = sockfd_c]
              /\ holders' = [c \in Clients |->
                     IF Parent \in holders[c] THEN holders[c] \cup {p} ELSE holders[c]]
              /\ pc = "fork" /\ pc' = "close" /\ UNCHANGED sockfd_c
        BY <1>5, <2>1 DEF Fork
      <3>2. \A c \in Clients : p \notin holders[c]
        BY <3>1 DEF ConnectionsArePrivate, Running
      <3>3. p \in Running' /\ serves'[p] = sockfd_c
            /\ \A q \in Running : q \in Running' /\ serves'[q] = serves[q]
        BY <3>1 DEF Running, TypeOK
      <3>4. ASSUME NEW c \in Clients, Parent \in holders[c]
            PROVE  c = sockfd_c /\ holders'[c] \cap Pids = {p}
        <4>1. c = sockfd_c
          BY <3>4 DEF ConnectionsArePrivate
        <4>2. holders[c] \cap Pids = {}
          BY <3>1, <4>1, NoClientAssumption DEF Unserved
        <4> QED BY <3>1, <3>4, <4>1, <4>2
      <3>5. ASSUME NEW c \in Clients, Parent \notin holders[c]
            PROVE  holders'[c] = holders[c]
        BY <3>1, <3>5
      <3>6. ConnectionsArePrivate'
        BY <3>1, <3>3, <3>4, <3>5 DEF ConnectionsArePrivate
      <3> QED BY <3>1, <3>6 DEF Unserved
    <2> QED BY <1>2, <2>1
  <1>6. CASE CloseConnection
    <2>1. CASE ~Exit
      <3>1. /\ sockfd_c \in Clients /\ pc = "close" /\ pc' = "accept"
            /\ holders' = [holders EXCEPT ![sockfd_c] = @ \ {Parent}]
            /\ UNCHANGED <<sockfd_c, child, serves>>
        BY <1>6, <2>1 DEF CloseConnection, TypeOK
      <3>2. \A c \in Clients : holders'[c] = holders[c] \ {Parent}
        BY <3>1 DEF TypeOK, ConnectionsArePrivate
      <3> QED BY <3>1, <3>2, FewerHolders DEF ConnectionsArePrivate, Running
    <2> QED BY <1>2, <2>1
  <1>7. CASE Deliver \/ HandlerReturns \/ \E c \in Clients : Connect(c)
    BY <1>1, <1>7 DEF Deliver, HandlerReturns, Connect
  <1>8. CASE Reap
    <2>1. Running' = Running
      BY <1>8 DEF Reap, Zombies, Running, TypeOK
    <2> QED BY <1>8, <2>1 DEF Reap, ConnectionsArePrivate, Unserved
  <1>9. ASSUME NEW p \in Pids, ChildStarts(p) PROVE ConnectionsArePrivate' /\ Unserved'
    <2>1. Running' = Running
      BY <1>9 DEF ChildStarts, Running, TypeOK
    <2> QED BY <1>9, <2>1 DEF ChildStarts, ConnectionsArePrivate, Unserved
  <1>10. ASSUME NEW p \in Pids, ChildExits(p) PROVE ConnectionsArePrivate' /\ Unserved'
    <2>1. \A c \in Clients : holders'[c] = holders[c] \ {p}
      BY <1>10 DEF ChildExits, CloseAll
    <2>2. \A q \in Running \ {p} : q \in Running'
      BY <1>10 DEF ChildExits, Running, TypeOK
    <2>3. UNCHANGED <<pc, sockfd_c, serves>>
      BY <1>10 DEF ChildExits
    <2> QED BY <2>1, <2>2, <2>3, FewerHolders DEF ConnectionsArePrivate
  <1>11. CASE UNCHANGED vars
    BY <1>1, <1>11 DEF vars
  <1> QED BY <1>3, <1>4, <1>5, <1>6, <1>7, <1>8, <1>9, <1>10, <1>11 DEF Next, Main

\* A connection is open in the one child that was forked for it and, between
\* accept and close, in the listener; nowhere else.
THEOREM SpecConnectionsArePrivate == Spec => []ConnectionsArePrivate
  <1>1. Init => ConnectionsArePrivate /\ Unserved
    BY DEF Init, ConnectionsArePrivate, Unserved
  <1> QED BY <1>1, PrivateStep, SpecTypeOK, PTL DEF Spec

----------------------------------------------------------------------------
\* What makes ListensOnPort inductive: main listens on what get_socket has given
\* it, which until then is nothing.
SetUp ==
  /\ pc \in {"start", "address"} => sockfd_s = "none" /\ listeners = {}
  /\ pc \in {"listen", "accept", "fork", "close"} => sockfd_s = "bound"

\* main never listens on a socket that could not be bound to PORT, however many
\* addresses failed before one was found or none.
THEOREM SpecListensOnPort == Spec => []ListensOnPort
  <1>1. Init => ListensOnPort /\ SetUp
    BY DEF Init, ListensOnPort, SetUp
  <1>2. TypeOK /\ ListensOnPort /\ SetUp /\ [Next]_vars => ListensOnPort' /\ SetUp'
    <2> SUFFICES ASSUME TypeOK, ListensOnPort, SetUp, [Next]_vars
                 PROVE  ListensOnPort' /\ SetUp'
      OBVIOUS
    <2> USE DEF ListensOnPort, SetUp, setup
    <2>1. CASE Exit
      BY <2>1 DEF Exit, CloseAll, CloseListener
    <2>2. CASE Start \/ TryAddress \/ Listen
      BY <2>1, <2>2 DEF Start, TryAddress, Return, Listen
    <2>3. CASE Accept
      BY <2>3 DEF Accept
    <2>4. CASE Fork
      BY <2>1, <2>4 DEF Fork
    <2>5. CASE CloseConnection
      BY <2>1, <2>5 DEF CloseConnection
    <2>6. CASE Deliver \/ Reap \/ HandlerReturns
      BY <2>6 DEF Deliver, Reap, HandlerReturns
    <2>7. ASSUME NEW p \in Pids, ChildStarts(p) PROVE ListensOnPort' /\ SetUp'
      BY <2>7 DEF ChildStarts, CloseListener
    <2>8. ASSUME NEW p \in Pids, ChildExits(p) PROVE ListensOnPort' /\ SetUp'
      BY <2>8 DEF ChildExits, CloseAll, CloseListener
    <2>9. ASSUME NEW c \in Clients, Connect(c) PROVE ListensOnPort' /\ SetUp'
      BY <2>9 DEF Connect
    <2>10. CASE UNCHANGED vars
      BY <2>10 DEF vars
    <2> QED BY <2>2, <2>3, <2>4, <2>5, <2>6, <2>7, <2>8, <2>9, <2>10 DEF Next, Main
  <1> QED BY <1>1, <1>2, SpecTypeOK, PTL DEF Spec
=============================================================================
