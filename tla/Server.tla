------------------------------- MODULE Server -------------------------------
(***************************************************************************)
(* The listener (main of bin/nserver.c): it accepts connections, forks a   *)
(* child for each, which runs nserve, and reaps the children that ended in *)
(* its handler of SIGCHLD.  What the child does with its connection is the *)
(* subject of module Session; here it ends when it wants.                  *)
(*                                                                         *)
(* A descriptor is shared by the processes that inherited it: a socket is  *)
(* closed for the other side only when the last of them has closed it.     *)
(***************************************************************************)
EXTENDS Naturals, Sequences, FiniteSets

CONSTANTS
  Clients,
  Pids,      \* processes the listener may fork
  Parent,    \* the listener
  NoClient,  \* no connection: sockfd_c is 0 or -1
  Backlog,   \* BACKLOG, how many connections wait for accept
  Addresses, \* how many addresses getaddrinfo gives
  Faults     \* what goes wrong: "start", "address", "accept", "fork"

ASSUME ParentAssumption == Parent \notin Pids
ASSUME NoClientAssumption == NoClient \notin Clients
ASSUME BacklogAssumption == Backlog \in Nat
ASSUME AddressesAssumption == Addresses \in Nat
ASSUME FaultsAssumption == Faults \subseteq {"start", "address", "accept", "fork"}

VARIABLES
  pc,         \* where main is
  queue,      \* connections that wait for accept
  sockfd_s,   \* the socket to listen on: "none", "unbound" or "bound" to PORT
  addr,       \* the address get_socket tries, counted from 1
  sockfd_c,   \* the connection accept returned last
  listeners,  \* processes that hold the listening socket
  holders,    \* processes that hold each connection
  child,      \* what has become of each process
  serves,     \* the connection each child was forked for
  pending,    \* SIGCHLD waits to be delivered: one bit, however many there were
  handler     \* handle_sigchild is running, and main is not

setup == <<sockfd_s, addr>>
vars == <<pc, queue, sockfd_c, listeners, holders, child, serves, pending, handler, setup>>

Processes == Pids \cup {Parent}
Running == {p \in Pids : child[p] \in {"forked", "serving"}}
Zombies == {p \in Pids : child[p] = "zombie"}
Queued == {queue[i] : i \in DOMAIN queue}

TypeOK ==
  /\ pc \in {"start", "address", "listen", "accept", "fork", "close", "exited"}
  /\ sockfd_s \in {"none", "unbound", "bound"} /\ addr \in 0 .. Addresses + 1
  /\ queue \in Seq(Clients) /\ Len(queue) <= Backlog
  /\ sockfd_c \in Clients \cup {NoClient}
  /\ listeners \subseteq Processes
  /\ holders \in [Clients -> SUBSET Processes]
  /\ child \in [Pids -> {"none", "forked", "serving", "zombie"}]
  /\ serves \in [Pids -> Clients \cup {NoClient}]
  /\ pending \in BOOLEAN /\ handler \in BOOLEAN

Init ==
  /\ pc = "start"
  /\ sockfd_s = "none" /\ addr = 0
  /\ queue = <<>>
  /\ sockfd_c = NoClient
  /\ listeners = {}
  /\ holders = [c \in Clients |-> {}]
  /\ child = [p \in Pids |-> "none"]
  /\ serves = [p \in Pids |-> NoClient]
  /\ pending = FALSE /\ handler = FALSE

----------------------------------------------------------------------------
\* Process p lets go of the listening socket, or of all it holds; without a
\* holder the listening socket is closed, and who waited there is refused.
CloseListener(p) ==
  /\ listeners' = listeners \ {p}
  /\ queue' = IF listeners' = {} THEN <<>> ELSE queue

CloseAll(p) ==
  /\ CloseListener(p)
  /\ holders' = [c \in Clients |-> holders[c] \ {p}]

\* main returns; init takes over the children and reaps those that ended.
Exit ==
  /\ pc' = "exited"
  /\ CloseAll(Parent)
  /\ child' = [p \in Pids |-> IF p \in Zombies THEN "none" ELSE child[p]]
  /\ pending' = FALSE
  /\ UNCHANGED <<sockfd_c, serves, handler, setup>>

\* setup_sigaction and, in get_socket, getaddrinfo.
Start ==
  /\ pc = "start"
  /\ \/ /\ pc' = "address" /\ addr' = 1
        /\ UNCHANGED <<queue, sockfd_s, sockfd_c, listeners, holders, child, serves,
                       pending, handler>>
     \/ "start" \in Faults /\ Exit

\* get_socket returns s, or -1, and with -1 main returns, too.
Return(s) ==
  IF s = "none"
    THEN Exit
    ELSE /\ pc' = "listen" /\ sockfd_s' = s /\ addr' = 0
         /\ UNCHANGED <<queue, sockfd_c, listeners, holders, child, serves, pending, handler>>

\* Mutant: the next round still has the socket that could not be bound.
TryAddress_Kept ==
  /\ pc = "address"
  /\ \/ addr <= Addresses /\ Return("bound")
     \/ /\ addr <= Addresses /\ "address" \in Faults
        /\ sockfd_s' \in {sockfd_s, "unbound"} /\ addr' = addr + 1
        /\ UNCHANGED <<pc, queue, sockfd_c, listeners, holders, child, serves, pending, handler>>
     \/ addr > Addresses /\ Return(sockfd_s)

\* Mutant: the loop does not look whether there is one more address.
TryAddress_PastEnd ==
  /\ pc = "address"
  /\ \/ Return("bound")
     \/ /\ "address" \in Faults
        /\ sockfd_s' = "none" /\ addr' = addr + 1
        /\ UNCHANGED <<pc, queue, sockfd_c, listeners, holders, child, serves, pending, handler>>

\* A round of the loop of get_socket.  socket, setsockopt and bind may fail;
\* then sockfd is 0 for the next round.  (The socket itself is left open, in the
\* children, too; it has no name, and nobody meets it.)
TryAddress ==
  /\ pc = "address"
  /\ \/ addr <= Addresses /\ Return("bound")
     \/ /\ addr <= Addresses /\ "address" \in Faults
        /\ sockfd_s' = "none" /\ addr' = addr + 1
        /\ UNCHANGED <<pc, queue, sockfd_c, listeners, holders, child, serves, pending, handler>>
     \/ addr > Addresses /\ Return(sockfd_s)

\* Bound or not, the kernel lets a socket listen: where, it chooses itself then.
Listen ==
  /\ pc = "listen"
  /\ \/ /\ pc' = "accept"
        /\ listeners' = {Parent}
        /\ UNCHANGED <<queue, sockfd_c, holders, child, serves, pending, handler, setup>>
     \/ "start" \in Faults /\ Exit

\* Its result is not checked.  It fails, for one, when the client has given up
\* waiting; and sockaddr_c_len is passed to it uninitialised.
Accept ==
  /\ pc = "accept" /\ ~handler
  /\ \/ /\ queue # <<>>
        /\ sockfd_c' = Head(queue)
        /\ queue' = Tail(queue)
        /\ holders' = [holders EXCEPT ![Head(queue)] = {Parent}]
     \/ /\ "accept" \in Faults
        /\ sockfd_c' = NoClient
        /\ queue' \in {queue} \cup (IF queue = <<>> THEN {} ELSE {Tail(queue)})
        /\ UNCHANGED holders
  /\ pc' = "fork"
  /\ UNCHANGED <<listeners, child, serves, pending, handler, setup>>

\* The child inherits every descriptor the listener holds.
Fork ==
  /\ pc = "fork" /\ ~handler
  /\ \/ \E p \in Pids :
          /\ child[p] = "none"
          /\ child' = [child EXCEPT ![p] = "forked"]
          /\ serves' = [serves EXCEPT ![p] = sockfd_c]
          /\ listeners' = listeners \cup {p}
          /\ holders' = [c \in Clients |->
                           IF Parent \in holders[c] THEN holders[c] \cup {p} ELSE holders[c]]
          /\ pc' = "close"
          /\ UNCHANGED <<queue, sockfd_c, pending, handler, setup>>
     \/ "fork" \in Faults /\ Exit

\* Mutant: the listener leaves the connection open.
CloseConnection_Missing ==
  /\ pc = "close" /\ ~handler
  /\ pc' = "accept"
  /\ UNCHANGED <<queue, sockfd_c, listeners, holders, child, serves, pending, handler, setup>>

\* Mutant: the listener waits for the end of the child.
CloseConnection_Waits ==
  /\ pc = "close" /\ ~handler
  /\ sockfd_c # NoClient /\ Running = {}
  /\ pc' = "accept"
  /\ holders' = [holders EXCEPT ![sockfd_c] = @ \ {Parent}]
  /\ UNCHANGED <<queue, sockfd_c, listeners, child, serves, pending, handler, setup>>

\* There is nothing to close when accept failed: close fails, and main returns.
CloseConnection ==
  /\ pc = "close" /\ ~handler
  /\ \/ /\ sockfd_c # NoClient
        /\ pc' = "accept"
        /\ holders' = [holders EXCEPT ![sockfd_c] = @ \ {Parent}]
        /\ UNCHANGED <<queue, sockfd_c, listeners, child, serves, pending, handler, setup>>
     \/ sockfd_c = NoClient /\ Exit

----------------------------------------------------------------------------
\* SIGCHLD interrupts main; SA_RESTART resumes what it was doing.  The signal
\* stays blocked while handle_sigchild runs.
Deliver ==
  /\ pending /\ ~handler /\ pc # "exited"
  /\ handler' = TRUE /\ pending' = FALSE
  /\ UNCHANGED <<pc, queue, sockfd_c, listeners, holders, child, serves, setup>>

\* Mutant: one waitpid for each signal.
Reap_Once ==
  /\ handler
  /\ \E p \in Zombies : child' = [child EXCEPT ![p] = "none"]
  /\ handler' = FALSE
  /\ UNCHANGED <<pc, queue, sockfd_c, listeners, holders, serves, pending, setup>>

\* One round of the loop of handle_sigchild.
Reap ==
  /\ handler
  /\ \E p \in Zombies : child' = [child EXCEPT ![p] = "none"]
  /\ UNCHANGED <<pc, queue, sockfd_c, listeners, holders, serves, pending, handler, setup>>

\* waitpid finds no child that has ended.
HandlerReturns ==
  /\ handler /\ Zombies = {}
  /\ handler' = FALSE
  /\ UNCHANGED <<pc, queue, sockfd_c, listeners, holders, child, serves, pending, setup>>

----------------------------------------------------------------------------
\* Mutant: the child keeps the listening socket.
ChildStarts_Missing(p) ==
  /\ child[p] = "forked"
  /\ child' = [child EXCEPT ![p] = "serving"]
  /\ UNCHANGED <<pc, queue, sockfd_c, listeners, holders, serves, pending, handler, setup>>

\* The child closes the listening socket and calls nserve.
ChildStarts(p) ==
  /\ child[p] = "forked"
  /\ child' = [child EXCEPT ![p] = "serving"]
  /\ CloseListener(p)
  /\ UNCHANGED <<pc, sockfd_c, holders, serves, pending, handler, setup>>

\* nserve exits, or the child dies.
ChildExits(p) ==
  /\ p \in Running
  /\ CloseAll(p)
  /\ IF pc = "exited"
       THEN child' = [child EXCEPT ![p] = "none"] /\ UNCHANGED pending
       ELSE child' = [child EXCEPT ![p] = "zombie"] /\ pending' = TRUE
  /\ UNCHANGED <<pc, sockfd_c, serves, handler, setup>>

\* Bound: clients connect as long as there will be a process for them.
CanServe ==
  Cardinality({p \in Pids : child[p] # "none"}) + Len(queue)
    + (IF pc = "fork" THEN 1 ELSE 0) < Cardinality(Pids)

Connect(c) ==
  /\ listeners # {} /\ CanServe
  /\ c \notin Queued /\ holders[c] = {} /\ Len(queue) < Backlog
  /\ queue' = Append(queue, c)
  /\ UNCHANGED <<pc, sockfd_c, listeners, holders, child, serves, pending, handler, setup>>

----------------------------------------------------------------------------
Main == Start \/ TryAddress \/ Listen \/ Accept \/ Fork \/ CloseConnection

Next ==
  \/ Main
  \/ Deliver \/ Reap \/ HandlerReturns
  \/ \E p \in Pids : ChildStarts(p) \/ ChildExits(p)
  \/ \E c \in Clients : Connect(c)

Spec == Init /\ [][Next]_vars

\* The kernel runs the listener and its children and delivers the signal.  No
\* client must connect, and no session must end.
FairSpec ==
  /\ Spec
  /\ WF_vars(Main)
  /\ WF_vars(Deliver)
  /\ WF_vars(Reap \/ HandlerReturns)
  /\ \A p \in Pids : WF_vars(ChildStarts(p))

----------------------------------------------------------------------------
(* PROPERTIES *)

\* Nobody but the one child that was forked for a connection has it open, the
\* listener excepted while it is between accept and close: when the session
\* ends, the client sees the end of the connection, and the listener never
\* runs out of descriptors.
ConnectionsArePrivate ==
  \A c \in Clients :
    /\ \A p \in holders[c] \cap Pids : p \in Running /\ serves[p] = c
    /\ \A p, q \in holders[c] \cap Pids : p = q
    /\ Parent \in holders[c] => pc \in {"fork", "close"} /\ sockfd_c = c

\* No ended child is forgotten, though signals that arrive together are one.
ZombiesAreNoticed == Zombies # {} /\ pc # "exited" => pending \/ handler

\* Whoever listens does so on PORT, whichever addresses were tried in vain.
ListensOnPort == listeners # {} => sockfd_s = "bound"

\* Every child that ends is reaped.
ZombiesAreReaped == \A p \in Pids : p \in Zombies ~> p \notin Zombies

\* A client in the queue gets its session, whatever the other sessions do, or
\* is refused because the listener has gone.
ClientsAreServed ==
  \A c \in Clients :
    c \in Queued ~> (\E p \in Pids : p \in holders[c]) \/ pc = "exited"

\* Once the listener has gone its port becomes free, though sessions go on.
PortIsReleased == pc = "exited" ~> listeners = {}

(* CLAIM of the repository the code does not keep. *)

\* "It'll be listening on port 7899.", as long as nobody stops it.
KeepsListening == pc # "exited"
=============================================================================
