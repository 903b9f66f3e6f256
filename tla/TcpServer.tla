------------------------------ MODULE TcpServer ------------------------------
(***************************************************************************)
(* TCP::Server and the clients that connect to it (src/tcp/server.cpp and  *)
(* the connecting constructor of src/tcp/communicator.cpp): the accept     *)
(* loop, one forked handler per connection, and the descriptors they       *)
(* share.  fork copies every open descriptor, so that each handler holds   *)
(* the listening socket too; nobody waits for the handlers that exit.      *)
(* What is said over a connection is left to module PaddingOracle: a       *)
(* served client ends by itself, and its handler after it.                 *)
(***************************************************************************)
EXTENDS Integers, Sequences, FiniteSets

CONSTANTS
  Client,       \* the clients, each with its one connection
  Parent,       \* the process in loop_forever
  None,         \* m_fd = -1
  Addresses,    \* what getaddrinfo resolves the server's name to, "v6" or "v4"
  Backlog,      \* MAX_CONNECTION_QUEUE
  MaxChildren,  \* the children the process limit leaves room for
  Faults        \* which of "socket", "accept", "crash", "kill_handler" and
                \* "kill_client" may happen

ASSUME NamesAssumption == Parent \notin Client /\ None \notin Client \cup {Parent}

ASSUME AddressesAssumption == Addresses \in Seq({"v4", "v6"}) /\ Addresses # <<>>

ASSUME LimitsAssumption == Backlog \in Nat /\ MaxChildren \in Nat

VARIABLES
  ppc,          \* where the parent is
  client,       \* accept_and_spawn's connection
  queue,        \* established connections nobody has accepted
  listening,    \* the processes that hold the listening socket
  holders,      \* holders[c]: the processes that hold connection c
  child,        \* child[c]: the process forked for c
  orphans,      \* the children whose parent has died
  cl,           \* where each client is
  attempt       \* the address each client tries

server == <<ppc, client, queue, listening, holders, child, orphans>>
vars   == <<server, cl, attempt>>

Process == Client \cup {Parent}
Alive   == {"running", "leaving"}
Gone    == {"served", "failed", "killed"}

Queued == {queue[i] : i \in 1 .. Len(queue)}

\* The server has closed the connection: client c reads the end of it.
HungUp(c) == cl[c] = "connected" /\ c \notin Queued /\ holders[c] = {}

\* The processes that count against the limit: a child that has exited
\* remains until it is waited for.
Children == {c \in Client : child[c] \in Alive \cup {"zombie"}}

\* The last holder of the listening socket takes its queue along.
Stops(processes) ==
  /\ listening' = listening \ processes
  /\ queue' = IF listening' = {} THEN <<>> ELSE queue

-----------------------------------------------------------------------------
Init ==
  /\ ppc = "bind"
  /\ client = None
  /\ queue = <<>>
  /\ listening = {}
  /\ holders = [c \in Client |-> {}]
  /\ child = [c \in Client |-> "none"]
  /\ orphans = {}
  /\ cl = [c \in Client |-> "new"]
  /\ attempt = [c \in Client |-> 1]

-----------------------------------------------------------------------------
(* The parent.                                                              *)

\* Mutant of Bind: SO_REUSEPORT, a socket of its own beside the old one.
BindBeside ==
  /\ ppc = "bind"
  /\ ppc' = "accept"
  /\ listening' = listening \cup {Parent}
  /\ UNCHANGED <<client, queue, holders, child, orphans, cl, attempt>>

\* The constructor: bind is refused while a socket on the port is open, and
\* for a while after; the constructor throws and the program ends.
Bind ==
  /\ ppc = "bind"
  /\ \/ /\ listening = {}
        /\ \A c \in Client : holders[c] = {}
        /\ ppc' = "accept"
        /\ listening' = {Parent}
     \/ /\ ppc' = "down"
        /\ UNCHANGED listening
  /\ UNCHANGED <<client, queue, holders, child, orphans, cl, attempt>>

Accept ==
  /\ ppc = "accept"
  /\ queue # <<>>
  /\ client' = Head(queue)
  /\ queue' = Tail(queue)
  /\ holders' = [holders EXCEPT ![Head(queue)] = {Parent}]
  /\ ppc' = "accepted"
  /\ UNCHANGED <<listening, child, orphans, cl, attempt>>

\* accept returns -1 (no descriptor, no memory): the connection stays queued.
AcceptFails ==
  /\ "accept" \in Faults
  /\ ppc = "accept"
  /\ queue # <<>>
  /\ client' = None
  /\ ppc' = "accepted"
  /\ UNCHANGED <<queue, listening, holders, child, orphans, cl, attempt>>

NotAccepted ==
  /\ ppc = "accepted"
  /\ client = None
  /\ ppc' = "accept"
  /\ UNCHANGED <<client, queue, listening, holders, child, orphans, cl, attempt>>

\* The child starts with a copy of each descriptor of the parent.
Fork ==
  /\ ppc = "accepted"
  /\ client # None
  /\ Cardinality(Children) < MaxChildren
  /\ child' = [child EXCEPT ![client] = "running"]
  /\ holders' = [c \in Client |-> IF Parent \in holders[c] THEN holders[c] \cup {client}
                                  ELSE holders[c]]
  /\ listening' = listening \cup {client}
  /\ ppc' = "return"
  /\ UNCHANGED <<client, queue, orphans, cl, attempt>>

\* Mutant of ForkFails: the parent tries again until there is room.
ForkRetries ==
  /\ ppc = "accepted"
  /\ client # None
  /\ Cardinality(Children) >= MaxChildren
  /\ UNCHANGED vars

ForkFails ==
  /\ ppc = "accepted"
  /\ client # None
  /\ Cardinality(Children) >= MaxChildren
  /\ ppc' = "return"
  /\ UNCHANGED <<client, queue, listening, holders, child, orphans, cl, attempt>>

\* Mutant of Return: the parent forgets the connection without closing it.
ReturnLeaks ==
  /\ ppc = "return"
  /\ client' = None
  /\ ppc' = "accept"
  /\ UNCHANGED <<queue, listening, holders, child, orphans, cl, attempt>>

\* Mutant of Return: the connection is shut down, for the child as well.
ReturnShutsDown ==
  /\ ppc = "return"
  /\ holders' = [holders EXCEPT ![client] = {}]
  /\ client' = None
  /\ ppc' = "accept"
  /\ UNCHANGED <<queue, listening, child, orphans, cl, attempt>>

\* accept_and_spawn returns: ~Communicator closes the parent's descriptor.
Return ==
  /\ ppc = "return"
  /\ holders' = [holders EXCEPT ![client] = @ \ {Parent}]
  /\ client' = None
  /\ ppc' = "accept"
  /\ UNCHANGED <<queue, listening, child, orphans, cl, attempt>>

ParentNext == Bind \/ NotAccepted \/ Fork \/ ForkFails \/ Return

-----------------------------------------------------------------------------
(* The handlers.                                                            *)

\* handle_client returns or throws once its client has ended; either way
\* the connection, its parameter, is closed first.
HandlerReturns(c) ==
  /\ child[c] = "running"
  /\ cl[c] \in Gone
  /\ child' = [child EXCEPT ![c] = "leaving"]
  /\ holders' = [holders EXCEPT ![c] = @ \ {c}]
  /\ UNCHANGED <<ppc, client, queue, listening, orphans, cl, attempt>>

\* What is left of a child that ends: a zombie, for a parent never waits.
Remains(c) == IF c \in orphans THEN "gone" ELSE "zombie"

\* Mutant of HandlerExits: the child hangs on its way out.
HandlerStays(c) ==
  /\ child[c] = "leaving"
  /\ UNCHANGED vars

\* _exit, or the way back through main after an exception.
HandlerExits(c) ==
  /\ child[c] = "leaving"
  /\ child' = [child EXCEPT ![c] = Remains(c)]
  /\ Stops({c})
  /\ UNCHANGED <<ppc, client, holders, orphans, cl, attempt>>

Handler(c) == HandlerReturns(c) \/ HandlerExits(c)

-----------------------------------------------------------------------------
(* The clients.                                                             *)

StartClient(c) ==
  /\ cl[c] = "new"
  /\ cl' \in {[cl EXCEPT ![c] = "trying"],    \* the name resolves
              [cl EXCEPT ![c] = "failed"]}    \* it does not
  /\ UNCHANGED <<server, attempt>>

\* The server listens on IPv4 only; Linux queues one connection more than
\* the backlog.
Connect(c) ==
  /\ cl[c] = "trying"
  /\ Addresses[attempt[c]] = "v4"
  /\ listening # {}
  /\ Len(queue) <= Backlog
  /\ queue' = Append(queue, c)
  /\ cl' = [cl EXCEPT ![c] = "connected"]
  /\ UNCHANGED <<ppc, client, listening, holders, child, orphans, attempt>>

\* The address refuses the connection, or does not answer because the queue
\* is full, or socket has returned -1, which passes for a descriptor that
\* connect refuses: the next one is tried, if there is one.
NotConnected(c) ==
  /\ cl[c] = "trying"
  /\ \/ Addresses[attempt[c]] = "v6" \/ listening = {} \/ Len(queue) > Backlog
     \/ "socket" \in Faults
  /\ IF attempt[c] < Len(Addresses)
     THEN attempt' = [attempt EXCEPT ![c] = @ + 1] /\ UNCHANGED cl
     ELSE cl' = [cl EXCEPT ![c] = "failed"] /\ UNCHANGED attempt
  /\ UNCHANGED server

\* The attack is over: the client closes its end.
ClientServed(c) ==
  /\ cl[c] = "connected"
  /\ child[c] = "running"
  /\ c \in holders[c]
  /\ cl' = [cl EXCEPT ![c] = "served"]
  /\ UNCHANGED <<server, attempt>>

ClientCutOff(c) ==
  /\ HungUp(c)
  /\ cl' = [cl EXCEPT ![c] = "failed"]
  /\ UNCHANGED <<server, attempt>>

ClientNext(c) ==
  StartClient(c) \/ Connect(c) \/ NotConnected(c) \/ ClientServed(c) \/ ClientCutOff(c)

-----------------------------------------------------------------------------
(* The environment.                                                         *)

KillClient(c) ==
  /\ "kill_client" \in Faults
  /\ cl[c] \in {"trying", "connected"}
  /\ cl' = [cl EXCEPT ![c] = "killed"]
  /\ UNCHANGED <<server, attempt>>

KillHandler(c) ==
  /\ "kill_handler" \in Faults
  /\ child[c] \in Alive
  /\ child' = [child EXCEPT ![c] = Remains(c)]
  /\ holders' = [d \in Client |-> holders[d] \ {c}]
  /\ Stops({c})
  /\ UNCHANGED <<ppc, client, orphans, cl, attempt>>

\* The parent is killed; init adopts its children and waits for them.
Crash ==
  /\ "crash" \in Faults
  /\ ppc # "down"
  /\ ppc' = "down"
  /\ client' = None
  /\ holders' = [c \in Client |-> holders[c] \ {Parent}]
  /\ orphans' = {c \in Client : child[c] \in Alive}
  /\ child' = [c \in Client |-> IF child[c] = "zombie" THEN "gone" ELSE child[c]]
  /\ Stops({Parent})
  /\ UNCHANGED <<cl, attempt>>

\* The server is started again.
Start ==
  /\ ppc = "down"
  /\ ppc' = "bind"
  /\ UNCHANGED <<client, queue, listening, holders, child, orphans, cl, attempt>>

\* Everybody has ended but the server, which waits for further clients.
Quiet ==
  /\ \A c \in Client : cl[c] \in Gone /\ child[c] \notin Alive
  /\ ppc = "accept" /\ queue = <<>>
  /\ UNCHANGED vars

Next ==
  \/ ParentNext
  \/ Accept
  \/ AcceptFails
  \/ \E c \in Client : Handler(c) \/ ClientNext(c) \/ KillClient(c) \/ KillHandler(c)
  \/ Crash
  \/ Start
  \/ Quiet

Spec == Init /\ [][Next]_vars

\* Processes are scheduled; a client that is being served gets to its end
\* (PaddingOracle!BothEnd); accept does not fail forever.
Fairness ==
  /\ WF_vars(ParentNext)
  /\ SF_vars(Accept)
  /\ \A c \in Client : WF_vars(ClientNext(c)) /\ WF_vars(Handler(c))

FairSpec == Spec /\ Fairness

-----------------------------------------------------------------------------
(* Properties.                                                              *)

\* Every variable stays within its type; in particular no client gets past
\* the last of its addresses.
TypeOK ==
  /\ ppc \in {"bind", "accept", "accepted", "return", "down"}
  /\ client \in Client \cup {None}
  /\ queue \in Seq(Client)
  /\ listening \in SUBSET Process
  /\ holders \in [Client -> SUBSET Process]
  /\ child \in [Client -> {"none", "running", "leaving", "zombie", "gone"}]
  /\ orphans \in SUBSET Client
  /\ cl \in [Client -> {"new", "trying", "connected"} \cup Gone]
  /\ attempt \in [Client -> 1 .. Len(Addresses)]

\* No process holds a connection that is not its own: what fork copied has
\* been closed by then, and a handler that ends hangs up on its client even
\* if other handlers were forked while it ran.
OwnConnectionOnly ==
  \A c \in Client :
    /\ holders[c] \subseteq {Parent, c}
    /\ Parent \in holders[c] => client = c /\ ppc \in {"accepted", "return"}
    /\ c \in holders[c] <=> child[c] = "running"

\* A restarted server starts alone: while it listens no handler of the
\* crashed one is left, and with the last process that had the old socket
\* went whoever was still in its queue.
StartsAlone ==
  /\ Parent \in listening => \A c \in orphans : child[c] \notin Alive
  /\ listening = {} => queue = <<>>

\* There was no room for a process of c's own.
TurnedAway(c) == child[c] = "none" /\ Cardinality(Children) >= MaxChildren

\* The parent closes its end of a connection while the client still waits
\* for answers, and the client does not notice: the server only hangs up
\* on a client that cannot be forked for, whose handler has been killed, or
\* whose server has.
HangsUpOnNobody ==
  [][\A c \in Client : ~HungUp(c) /\ HungUp(c)' =>
       \/ TurnedAway(c)
       \/ child'[c] \in {"zombie", "gone"}
       \/ ppc' \in {"down", "bind"}]_vars

\* A client in the queue of a running server is served, beside any others,
\* and whoever else is killed or turned away meanwhile, unless it is killed
\* itself, its handler or the parent is, or there is no room when its own
\* turn comes.
EveryoneServed ==
  \A c \in Client :
    c \in Queued /\ Parent \in listening ~>
      \/ cl[c] \in {"served", "killed"}
      \/ cl[c] = "connected" /\ child[c] \in {"zombie", "gone"}
      \/ ppc = "down"
      \/ HungUp(c) /\ TurnedAway(c)

\* A client that connects or waits for answers gets an end, even from a
\* server that was killed with the client in its queue.
NobodyWaitsForever == \A c \in Client : cl[c] \in {"trying", "connected"} ~> cl[c] \in Gone

\* A connection whose client has ended is closed by every process.
AllCloses == \A c \in Client : cl[c] \in Gone ~> holders[c] = {} /\ c \notin Queued

\* server.hpp:27 says of loop_forever "keep accepting new connections
\* forever", and server.hpp:30 that each is handled in a new process: a
\* connection is turned away only while handlers are running.
TurnedAwayOnlyWhenBusy == [][ForkFails => \E c \in Client : child[c] \in Alive]_vars

=============================================================================
