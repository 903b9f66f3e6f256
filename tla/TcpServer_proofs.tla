-------------------------- MODULE TcpServer_proofs --------------------------
(***************************************************************************)
(* Proofs about TcpServer, for any number of clients, any limits and any   *)
(* faults: no descriptor outlives its use in a process it was not meant    *)
(* for, no connection is closed under a client that can be served, and a   *)
(* restarted server starts alone.                                          *)
(***************************************************************************)
EXTENDS TcpServer, SequenceTheorems, TLAPS

\* Who is yet to connect has left no trace in the server.
Unknown ==
  \A c \in Client : cl[c] \in {"new", "trying"} =>
    c \notin Queued /\ holders[c] = {} /\ child[c] = "none" /\ client # c

\* What the parent has accepted is its own until it is forked for.
Accepted ==
  /\ ppc \in {"bind", "accept", "down"} => client = None
  /\ ppc = "return" => client # None
  /\ ppc = "accepted" /\ client # None => child[client] = "none" /\ Parent \in holders[client]

\* A handler holds the listening socket to its end: a crashed server's port
\* stays taken until its last handler is gone.
PortIsHeld ==
  /\ \A c \in Client : child[c] \in Alive <=> c \in listening
  /\ \A c \in orphans : child[c] # "none"

\* A connection waits in the queue or has been accepted, never both, and it
\* is accepted before its child runs.
AcceptedOnce ==
  /\ \A i, j \in 1 .. Len(queue) : queue[i] = queue[j] => i = j
  /\ \A c \in Queued : holders[c] = {} /\ child[c] = "none" /\ client # c

\* The parent has the listening socket from bind to its end.
Listens == Parent \in listening <=> ppc \in {"accept", "accepted", "return"}

\* What a failed fork leaves is closed before there is room again.
NoRoom == ppc = "return" /\ child[client] = "none" => Cardinality(Children) >= MaxChildren

\* A handler leaves by itself only when its client has ended.
Waiting == \A c \in Client : child[c] = "leaving" => cl[c] \in Gone

\* The inductive invariant: every open descriptor belongs to a process that
\* is alive, and to a place in the parent's loop or the child's life.
IInv ==
  /\ TypeOK
  /\ OwnConnectionOnly
  /\ AcceptedOnce
  /\ StartsAlone
  /\ Listens
  /\ PortIsHeld
  /\ Unknown
  /\ Accepted
  /\ NoRoom
  /\ Waiting

-----------------------------------------------------------------------------
(* The parent.                                                              *)

LEMMA BindKeeps == ASSUME IInv, Bind PROVE IInv'
<1> USE DEF IInv
<1>1. UNCHANGED <<client, queue, holders, child, orphans, cl, attempt>>
  BY DEF Bind
<1>2. ppc = "bind" /\ ppc' \in {"accept", "down"}
  BY DEF Bind
<1>3. Queued' = Queued
  BY <1>1 DEF Queued
<1>4. /\ Parent \notin listening
      /\ \/ ppc' = "accept" /\ listening = {} /\ listening' = {Parent}
         \/ ppc' = "down" /\ listening' = listening
  BY <1>2 DEF Bind, Listens
<1>5. TypeOK'
  BY <1>1, <1>2, <1>4 DEF TypeOK, Process
<1>6. OwnConnectionOnly'
  BY <1>1, <1>2 DEF OwnConnectionOnly
<1>7. StartsAlone' /\ Listens' /\ PortIsHeld'
  <2>1. \A c \in Client : c \in listening' <=> c \in listening
    BY <1>4, NamesAssumption
  <2>2. ppc' = "accept" => \A c \in Client : child[c] \notin Alive
    BY <1>4 DEF PortIsHeld
  <2>3. \A c \in orphans : c \in Client
    BY DEF TypeOK
  <2> QED
    BY <1>1, <1>4, <2>1, <2>2, <2>3 DEF StartsAlone, Listens, PortIsHeld
<1>8. AcceptedOnce' /\ Unknown' /\ Accepted' /\ NoRoom' /\ Waiting'
  BY <1>1, <1>2, <1>3 DEF AcceptedOnce, Unknown, Accepted, NoRoom, Waiting
<1> QED
  BY <1>5, <1>6, <1>7, <1>8

LEMMA AcceptKeeps == ASSUME IInv, Accept PROVE IInv'
<1> USE DEF IInv
<1>1. UNCHANGED <<listening, child, orphans, cl, attempt>>
  BY DEF Accept
<1>2. PICK c \in Client :
        /\ c = Head(queue) /\ c \in Queued /\ client' = c
        /\ holders' = [holders EXCEPT ![c] = {Parent}]
  <2>1. Head(queue) \in Client /\ Head(queue) = queue[1] /\ 1 \in 1 .. Len(queue)
    BY HeadTailProperties, EmptySeq DEF Accept, TypeOK
  <2> QED
    BY <2>1 DEF Accept, Queued
<1>3. ppc = "accept" /\ ppc' = "accepted" /\ client = None
  BY DEF Accept, Accepted
<1>4. PICK l \in Nat :
        /\ l = Len(queue) /\ l > 0 /\ c = queue[1] /\ queue' \in Seq(Client)
        /\ Len(queue') = l - 1 /\ \A i \in 1 .. l - 1 : queue'[i] = queue[i + 1]
  <2>1. queue \in Seq(Client) /\ queue # <<>> /\ queue' = Tail(queue)
    BY DEF Accept, TypeOK
  <2>2. Len(queue) \in Nat /\ Len(queue) > 0
    BY <2>1, EmptySeq
  <2> QED
    BY <1>2, <2>1, <2>2, HeadTailProperties
<1>5. c \notin Queued' /\ Queued' \subseteq Queued
  <2>1. ASSUME NEW i \in 1 .. l - 1
        PROVE  queue'[i] # c /\ queue'[i] \in Queued
    <3>1. i + 1 \in 1 .. l /\ 1 \in 1 .. l /\ i + 1 # 1
      BY <1>4
    <3>2. queue[i + 1] # queue[1]
      BY <1>4, <3>1 DEF AcceptedOnce
    <3> QED
      BY <1>4, <3>1, <3>2 DEF Queued
  <2> QED
    BY <1>4, <2>1 DEF Queued
<1>6. holders[c] = {} /\ child[c] = "none"
  BY <1>2 DEF AcceptedOnce
<1>7. /\ holders'[c] = {Parent}
      /\ \A d \in Client : d # c => holders'[d] = holders[d]
      /\ holders' \in [Client -> SUBSET Process]
  BY <1>2 DEF TypeOK, Process
<1>8. TypeOK'
  BY <1>1, <1>2, <1>3, <1>4, <1>7 DEF TypeOK
<1>9. OwnConnectionOnly'
  BY <1>1, <1>2, <1>3, <1>6, <1>7, NamesAssumption DEF OwnConnectionOnly
<1>10. AcceptedOnce'
  <2>1. ASSUME NEW i \in 1 .. l - 1, NEW j \in 1 .. l - 1, queue'[i] = queue'[j]
        PROVE  i = j
    <3>1. i + 1 \in 1 .. l /\ j + 1 \in 1 .. l
      BY <1>4
    <3>2. i + 1 = j + 1
      BY <1>4, <2>1, <3>1 DEF AcceptedOnce
    <3> QED
      BY <3>2
  <2>2. ASSUME NEW d \in Client, d \in Queued'
        PROVE  holders'[d] = {} /\ child[d] = "none" /\ client' # d
    BY <1>2, <1>5, <1>7, <2>2 DEF AcceptedOnce
  <2>3. Queued' \subseteq Client
    <3>1. \A i \in 1 .. l - 1 : queue'[i] \in Client
      BY <1>4
    <3> QED
      BY <1>4, <3>1 DEF Queued
  <2> QED
    BY <1>1, <1>4, <2>1, <2>2, <2>3 DEF AcceptedOnce
<1>11. StartsAlone' /\ Listens' /\ PortIsHeld'
  <2>1. queue # <<>>
    BY DEF Accept
  <2> QED
    BY <1>1, <1>3, <2>1 DEF StartsAlone, Listens, PortIsHeld
<1>12. Unknown'
  BY <1>1, <1>2, <1>5, <1>7 DEF Unknown
<1>13. Accepted' /\ NoRoom' /\ Waiting'
  BY <1>1, <1>2, <1>3, <1>6, <1>7 DEF Accepted, NoRoom, Waiting
<1> QED
  BY <1>8, <1>9, <1>10, <1>11, <1>12, <1>13

\* accept or fork has failed, or accept's failure is seen.
LEMMA ParentGoesOn ==
  ASSUME IInv, AcceptFails \/ NotAccepted \/ ForkFails
  PROVE  IInv'
<1> USE DEF IInv
<1>1. UNCHANGED <<queue, listening, holders, child, orphans, cl, attempt>>
  BY DEF AcceptFails, NotAccepted, ForkFails
<1>2. /\ ppc' \in {"accepted", "accept", "return"} /\ client' = client
      /\ ppc \in {"accepted", "accept"}
      /\ ppc' = "return" => client # None
      /\ ppc' # "return" => client = None
  BY DEF AcceptFails, NotAccepted, ForkFails, Accepted
<1>3. Queued' = Queued
  BY <1>1 DEF Queued
<1>4. TypeOK'
  BY <1>1, <1>2 DEF TypeOK
<1>5. OwnConnectionOnly'
  <2>1. ASSUME NEW c \in Client, Parent \in holders[c]
        PROVE  client = c /\ ppc' = "return"
    <3>1. client = c /\ c # None
      BY <2>1, NamesAssumption DEF OwnConnectionOnly
    <3> QED
      BY <1>2, <3>1
  <2> QED
    BY <1>1, <1>2, <2>1 DEF OwnConnectionOnly
<1>6. AcceptedOnce' /\ Unknown' /\ Accepted' /\ Waiting'
  BY <1>1, <1>2, <1>3 DEF AcceptedOnce, Unknown, Accepted, Waiting
<1>7. StartsAlone' /\ Listens' /\ PortIsHeld'
  BY <1>1, <1>2 DEF StartsAlone, Listens, PortIsHeld
<1>8. NoRoom'
  <2>1. Children' = Children
    BY <1>1 DEF Children
  <2>2. ppc' = "return" => Cardinality(Children) >= MaxChildren
    BY DEF AcceptFails, NotAccepted, ForkFails
  <2> QED
    BY <2>1, <2>2 DEF NoRoom
<1> QED
  BY <1>4, <1>5, <1>6, <1>7, <1>8

LEMMA ForkKeeps == ASSUME IInv, Fork PROVE IInv'
<1> USE DEF IInv
<1>1. PICK k \in Client : k = client /\ child[k] = "none" /\ Parent \in holders[k]
  BY DEF Fork, TypeOK, Accepted
<1>2. /\ child' = [child EXCEPT ![k] = "running"]
      /\ holders' = [c \in Client |-> IF Parent \in holders[c] THEN holders[c] \cup {k}
                                      ELSE holders[c]]
      /\ listening' = listening \cup {k}
      /\ ppc = "accepted" /\ ppc' = "return" /\ client # None
      /\ UNCHANGED <<client, queue, orphans, cl, attempt>>
  BY <1>1 DEF Fork
<1>3. \A c \in Client : Parent \in holders[c] => c = k
  BY <1>1 DEF OwnConnectionOnly
<1>4. /\ child'[k] = "running" /\ holders'[k] = holders[k] \cup {k}
      /\ \A c \in Client : c # k => child'[c] = child[c] /\ holders'[c] = holders[c]
  BY <1>1, <1>2, <1>3 DEF TypeOK
<1>5. Queued' = Queued
  BY <1>2 DEF Queued
<1>6. TypeOK'
  <2>1. holders' \in [Client -> SUBSET Process]
    BY <1>2 DEF TypeOK, Process
  <2> QED
    BY <1>2, <2>1 DEF TypeOK, Process
<1>7. OwnConnectionOnly'
  BY <1>1, <1>2, <1>4, NamesAssumption DEF OwnConnectionOnly
<1>8. k \notin Queued /\ cl[k] \notin {"new", "trying"}
  BY <1>1 DEF AcceptedOnce, Unknown
<1>9. AcceptedOnce'
  <2>1. Queued \subseteq Client
    BY DEF Queued, TypeOK
  <2> QED
    BY <1>2, <1>4, <1>5, <1>8, <2>1 DEF AcceptedOnce
<1>10. StartsAlone' /\ Listens' /\ PortIsHeld'
  <2>1. k \notin orphans /\ \A c \in orphans : c \in Client
    BY <1>1 DEF PortIsHeld, TypeOK
  <2>2. Parent # k
    BY NamesAssumption
  <2> QED
    BY <1>2, <1>4, <2>1, <2>2 DEF StartsAlone, Listens, PortIsHeld, Alive
<1>11. Unknown' /\ Accepted' /\ NoRoom' /\ Waiting'
  BY <1>1, <1>2, <1>4, <1>5, <1>8 DEF Unknown, Accepted, NoRoom, Waiting
<1> QED
  BY <1>6, <1>7, <1>9, <1>10, <1>11

LEMMA ReturnKeeps == ASSUME IInv, Return PROVE IInv'
<1> USE DEF IInv
<1>1. PICK k \in Client : k = client
  BY DEF Return, TypeOK, Accepted
<1>2. /\ holders' = [holders EXCEPT ![k] = @ \ {Parent}]
      /\ ppc = "return" /\ ppc' = "accept" /\ client' = None
      /\ UNCHANGED <<queue, listening, child, orphans, cl, attempt>>
  BY <1>1 DEF Return
<1>3. /\ holders' \in [Client -> SUBSET Process]
      /\ \A c \in Client : holders'[c] = holders[c] \ {Parent}
  BY <1>1, <1>2 DEF TypeOK, OwnConnectionOnly
<1>4. Queued' = Queued /\ Queued \subseteq Client
  BY <1>2 DEF Queued, TypeOK
<1>5. TypeOK'
  BY <1>2, <1>3 DEF TypeOK
<1>6. OwnConnectionOnly'
  BY <1>2, <1>3, NamesAssumption DEF OwnConnectionOnly
<1>7. AcceptedOnce' /\ Unknown' /\ Accepted' /\ NoRoom' /\ Waiting'
  BY <1>2, <1>3, <1>4, NamesAssumption DEF AcceptedOnce, Unknown, Accepted, NoRoom, Waiting
<1>8. StartsAlone' /\ Listens' /\ PortIsHeld'
  BY <1>2 DEF StartsAlone, Listens, PortIsHeld
<1> QED
  BY <1>5, <1>6, <1>7, <1>8

-----------------------------------------------------------------------------
(* The handlers and the clients.                                            *)

LEMMA HandlerReturnsKeeps ==
  ASSUME IInv, NEW k \in Client, HandlerReturns(k) PROVE IInv'
<1> USE DEF IInv
<1>1. /\ child[k] = "running" /\ cl[k] \in Gone /\ child' = [child EXCEPT ![k] = "leaving"]
      /\ holders' = [holders EXCEPT ![k] = @ \ {k}]
      /\ UNCHANGED <<ppc, client, queue, listening, orphans, cl, attempt>>
  BY DEF HandlerReturns
<1>2. /\ child'[k] = "leaving" /\ holders'[k] = holders[k] \ {k}
      /\ \A c \in Client : c # k => child'[c] = child[c] /\ holders'[c] = holders[c]
      /\ holders' \in [Client -> SUBSET Process]
  BY <1>1 DEF TypeOK
<1>3. Queued' = Queued /\ Queued \subseteq Client
  BY <1>1 DEF Queued, TypeOK
<1>4. TypeOK'
  BY <1>1, <1>2 DEF TypeOK
<1>5. OwnConnectionOnly'
  BY <1>1, <1>2, NamesAssumption DEF OwnConnectionOnly
<1>6. AcceptedOnce' /\ Unknown' /\ Waiting'
  BY <1>1, <1>2, <1>3 DEF AcceptedOnce, Unknown, Waiting
<1>7. Accepted'
  <2>1. ppc = "accepted" /\ client # None => client \in Client /\ client # k
    BY <1>1 DEF Accepted, TypeOK
  <2> QED
    BY <1>1, <1>2, <2>1 DEF Accepted
<1>8. StartsAlone' /\ Listens' /\ PortIsHeld'
  <2>1. \A c \in Client : child'[c] \in Alive <=> child[c] \in Alive
    BY <1>1, <1>2 DEF Alive
  <2>2. \A c \in orphans : c \in Client
    BY DEF TypeOK
  <2> QED
    BY <1>1, <1>2, <2>1, <2>2 DEF StartsAlone, Listens, PortIsHeld
<1>9. NoRoom'
  <2>1. Children' = Children
    BY <1>1, <1>2 DEF Children, Alive
  <2>2. ppc = "return" => client \in Client
    BY DEF Accepted, TypeOK
  <2> QED
    BY <1>1, <1>2, <2>1, <2>2 DEF NoRoom
<1> QED
  BY <1>4, <1>5, <1>6, <1>7, <1>8, <1>9

\* A handler ends: it exits or is killed.
LEMMA HandlerEndsKeeps ==
  ASSUME IInv, NEW k \in Client, child[k] \in Alive,
         child' = [child EXCEPT ![k] = Remains(k)],
         holders' \in [Client -> SUBSET Process],
         \A c \in Client : holders'[c] = holders[c] \ {k},
         Stops({k}), UNCHANGED <<ppc, client, orphans, cl, attempt>>
  PROVE  IInv'
<1> USE DEF IInv
<1>1. /\ child'[k] \in {"zombie", "gone"} /\ \A c \in Client : c # k => child'[c] = child[c]
      /\ child' \in [Client -> {"none", "running", "leaving", "zombie", "gone"}]
  BY DEF TypeOK, Remains
<1>2. listening' = listening \ {k} /\ queue' \in {<<>>, queue}
  BY DEF Stops
<1>3. Queued' \subseteq Queued /\ Queued \subseteq Client
  <2>1. CASE queue' = <<>>
    BY <2>1, EmptySeq DEF Queued, TypeOK
  <2>2. CASE queue' = queue
    BY <2>2 DEF Queued, TypeOK
  <2> QED
    BY <1>2, <2>1, <2>2
<1>4. TypeOK'
  <2>1. queue' \in Seq(Client)
    BY <1>2, EmptySeq DEF TypeOK
  <2>2. listening' \in SUBSET Process
    BY <1>2 DEF TypeOK
  <2> QED
    BY <1>1, <2>1, <2>2 DEF TypeOK
<1>5. OwnConnectionOnly'
  <2>1. ASSUME NEW c \in Client
        PROVE  /\ holders'[c] \subseteq {Parent, c}
               /\ Parent \in holders'[c] => client = c /\ ppc \in {"accepted", "return"}
               /\ c \in holders'[c] <=> child'[c] = "running"
    <3>1. Parent # k /\ holders'[c] = holders[c] \ {k}
      BY NamesAssumption
    <3>2. child'[k] # "running"
      BY <1>1
    <3>3. c = k \/ c # k
      OBVIOUS
    <3> QED
      BY <1>1, <3>1, <3>2, <3>3 DEF OwnConnectionOnly
  <2> QED
    BY <2>1 DEF OwnConnectionOnly
<1>6. AcceptedOnce'
  <2>1. \A i, j \in 1 .. Len(queue') : queue'[i] = queue'[j] => i = j
    BY <1>2, EmptySeq DEF AcceptedOnce
  <2>2. k \notin Queued
    BY DEF AcceptedOnce, Alive
  <2> QED
    BY <1>1, <1>3, <2>1, <2>2 DEF AcceptedOnce
<1>7. Unknown' /\ Waiting'
  BY <1>1, <1>3 DEF Unknown, Waiting, Alive
<1>8. Accepted'
  <2>1. ppc = "accepted" /\ client # None => client \in Client /\ client # k
    BY DEF Accepted, TypeOK, Alive
  <2> QED
    BY <1>1, <2>1, NamesAssumption DEF Accepted
<1>9. StartsAlone' /\ Listens' /\ PortIsHeld'
  <2>1. /\ k \notin listening' /\ child'[k] \notin Alive
        /\ \A p : p # k => (p \in listening' <=> p \in listening)
    BY <1>1, <1>2 DEF Alive
  <2>2. \A c \in orphans : c \in Client
    BY DEF TypeOK
  <2>3. Parent # k
    BY NamesAssumption
  <2>4. Listens' /\ PortIsHeld'
    BY <1>1, <2>1, <2>2, <2>3 DEF Listens, PortIsHeld
  <2>5. listening' = {} => queue' = <<>>
    BY DEF Stops, StartsAlone
  <2>6. Parent \in listening' => \A c \in orphans : child'[c] \notin Alive
    BY <1>1, <2>1, <2>2, <2>3 DEF StartsAlone
  <2> QED
    BY <2>4, <2>5, <2>6 DEF StartsAlone
<1>10. NoRoom'
  <2>1. SUFFICES ASSUME ppc = "return", child'[client] = "none"
                 PROVE  Cardinality(Children') >= MaxChildren
    BY DEF NoRoom
  <2>2. client \in Client /\ client # k /\ child[client] = "none"
    BY <1>1, <2>1 DEF Accepted, TypeOK
  <2>3. k \notin orphans
    BY <2>1 DEF Listens, StartsAlone
  <2>4. child'[k] = "zombie"
    BY <2>3 DEF Remains, TypeOK
  <2>5. Children' = Children
    BY <1>1, <2>4 DEF Children
  <2> QED
    BY <2>1, <2>2, <2>5 DEF NoRoom
<1> QED
  BY <1>4, <1>5, <1>6, <1>7, <1>8, <1>9, <1>10

LEMMA HandlerExitsKeeps ==
  ASSUME IInv, NEW k \in Client, HandlerExits(k) \/ KillHandler(k) PROVE IInv'
<1>1. CASE HandlerExits(k)
  <2>1. /\ child[k] = "leaving" /\ child' = [child EXCEPT ![k] = Remains(k)] /\ Stops({k})
        /\ UNCHANGED <<ppc, client, holders, orphans, cl, attempt>>
    BY <1>1 DEF HandlerExits
  <2>2. holders \in [Client -> SUBSET Process]
    BY DEF IInv, TypeOK
  <2>3. ASSUME NEW c \in Client PROVE holders'[c] = holders[c] \ {k}
    <3>1. k \notin holders[c]
      BY <2>1, NamesAssumption DEF IInv, OwnConnectionOnly
    <3> QED
      BY <2>1, <3>1
  <2> QED
    BY <2>1, <2>2, <2>3, HandlerEndsKeeps DEF Alive
<1>2. CASE KillHandler(k)
  <2>1. /\ child[k] \in Alive /\ child' = [child EXCEPT ![k] = Remains(k)] /\ Stops({k})
        /\ holders' = [d \in Client |-> holders[d] \ {k}]
        /\ UNCHANGED <<ppc, client, orphans, cl, attempt>>
    BY <1>2 DEF KillHandler
  <2>2. holders' \in [Client -> SUBSET Process]
    BY <2>1 DEF IInv, TypeOK
  <2> QED
    BY <2>1, <2>2, HandlerEndsKeeps
<1> QED
  BY <1>1, <1>2

LEMMA ConnectKeeps == ASSUME IInv, NEW k \in Client, Connect(k) PROVE IInv'
<1> USE DEF IInv
<1>1. /\ cl[k] = "trying" /\ queue' = Append(queue, k)
      /\ cl' = [cl EXCEPT ![k] = "connected"]
      /\ UNCHANGED <<ppc, client, listening, holders, child, orphans, attempt>>
  BY DEF Connect
<1>2. k \notin Queued /\ holders[k] = {} /\ child[k] = "none" /\ client # k
  BY <1>1 DEF Unknown
<1>3. PICK l \in Nat :
        /\ l = Len(queue) /\ queue' \in Seq(Client) /\ Len(queue') = l + 1
        /\ queue'[l + 1] = k /\ \A i \in 1 .. l : queue'[i] = queue[i]
  <2>1. queue \in Seq(Client) /\ Len(queue) \in Nat
    BY DEF TypeOK
  <2> QED
    BY <1>1, <2>1
<1>4. Queued' = Queued \cup {k} /\ Queued \subseteq Client
  <2>1. 1 .. l + 1 = (1 .. l) \cup {l + 1}
    OBVIOUS
  <2>2. Queued \subseteq Client
    BY DEF Queued, TypeOK
  <2> QED
    BY <1>3, <2>1, <2>2 DEF Queued
<1>5. cl'[k] = "connected" /\ \A c \in Client : c # k => cl'[c] = cl[c]
  BY <1>1 DEF TypeOK
<1>6. TypeOK'
  BY <1>1, <1>3 DEF TypeOK
<1>7. AcceptedOnce'
  <2>1. ASSUME NEW i \in 1 .. l + 1, NEW j \in 1 .. l + 1, queue'[i] = queue'[j]
        PROVE  i = j
    <3>1. \A n \in 1 .. l : queue[n] # k
      BY <1>2, <1>3 DEF Queued
    <3>2. i = l + 1 \/ i \in 1 .. l
      OBVIOUS
    <3>3. j = l + 1 \/ j \in 1 .. l
      OBVIOUS
    <3> QED
      BY <1>3, <2>1, <3>1, <3>2, <3>3 DEF AcceptedOnce
  <2> QED
    BY <1>1, <1>2, <1>3, <1>4, <2>1 DEF AcceptedOnce
<1>8. OwnConnectionOnly' /\ StartsAlone' /\ Listens' /\ PortIsHeld' /\ Accepted' /\ NoRoom'
  BY <1>1 DEF Connect, OwnConnectionOnly, StartsAlone, Listens, PortIsHeld, Accepted, NoRoom, Children
<1>9. Unknown' /\ Waiting'
  BY <1>1, <1>2, <1>4, <1>5 DEF Unknown, Waiting
<1> QED
  BY <1>6, <1>7, <1>8, <1>9

\* The other steps of a client are its own.
LEMMA ClientKeeps ==
  ASSUME IInv, NEW k \in Client,
         \/ StartClient(k) \/ NotConnected(k) \/ ClientServed(k)
         \/ ClientCutOff(k) \/ KillClient(k)
  PROVE  IInv'
<1> USE DEF IInv
<1>1. UNCHANGED <<ppc, client, queue, listening, holders, child, orphans>>
  BY DEF StartClient, NotConnected, ClientServed, ClientCutOff, KillClient, server
<1>2. cl' \in [Client -> {"new", "trying", "connected"} \cup Gone]
  BY DEF StartClient, NotConnected, ClientServed, ClientCutOff, KillClient, TypeOK, Gone
<1>3. \A c \in Client : cl'[c] \in {"new", "trying"} => cl[c] \in {"new", "trying"}
  BY DEF StartClient, NotConnected, ClientServed, ClientCutOff, KillClient, TypeOK, Gone
<1>4. \A c \in Client : cl[c] \in Gone => cl'[c] \in Gone
  BY DEF StartClient, NotConnected, ClientServed, ClientCutOff, KillClient, HungUp, TypeOK, Gone
<1>5. attempt' \in [Client -> 1 .. Len(Addresses)]
  <2>1. CASE NotConnected(k)
    <3>1. Len(Addresses) \in Nat /\ attempt[k] \in 1 .. Len(Addresses)
      BY AddressesAssumption DEF TypeOK
    <3> QED
      BY <2>1, <3>1 DEF NotConnected, TypeOK
  <2>2. CASE ~NotConnected(k)
    BY <2>2 DEF StartClient, ClientServed, ClientCutOff, KillClient, TypeOK
  <2> QED
    BY <2>1, <2>2
<1>6. TypeOK'
  BY <1>1, <1>2, <1>5 DEF TypeOK
<1>7. /\ OwnConnectionOnly' /\ AcceptedOnce' /\ StartsAlone' /\ Listens'
      /\ PortIsHeld' /\ Accepted' /\ NoRoom'
  BY <1>1 DEF OwnConnectionOnly, AcceptedOnce, StartsAlone, Listens, PortIsHeld, Accepted, NoRoom,
              Children, Queued
<1>8. Unknown' /\ Waiting'
  BY <1>1, <1>3, <1>4 DEF Unknown, Waiting, Queued
<1> QED
  BY <1>6, <1>7, <1>8

-----------------------------------------------------------------------------
(* Crash and restart, and the whole.                                        *)

LEMMA CrashKeeps == ASSUME IInv, Crash PROVE IInv'
<1> USE DEF IInv
<1>1. /\ ppc' = "down" /\ client' = None
      /\ holders' = [c \in Client |-> holders[c] \ {Parent}]
      /\ orphans' = {c \in Client : child[c] \in Alive}
      /\ child' = [c \in Client |-> IF child[c] = "zombie" THEN "gone" ELSE child[c]]
      /\ listening' = listening \ {Parent} /\ queue' \in {<<>>, queue}
      /\ listening' = {} => queue' = <<>>
      /\ UNCHANGED <<cl, attempt>>
  BY DEF Crash, Stops
<1>2. Queued' \subseteq Queued /\ Queued \subseteq Client
  <2>1. CASE queue' = <<>>
    BY <2>1, EmptySeq DEF Queued, TypeOK
  <2>2. CASE queue' = queue
    BY <2>2 DEF Queued, TypeOK
  <2> QED
    BY <1>1, <2>1, <2>2
<1>3. TypeOK'
  BY <1>1, EmptySeq DEF TypeOK, Process
<1>4. OwnConnectionOnly'
  BY <1>1, NamesAssumption DEF OwnConnectionOnly
<1>5. AcceptedOnce'
  <2>1. \A i, j \in 1 .. Len(queue') : queue'[i] = queue'[j] => i = j
    BY <1>1, EmptySeq DEF AcceptedOnce
  <2> QED
    BY <1>1, <1>2, <2>1, NamesAssumption DEF AcceptedOnce
<1>6. StartsAlone' /\ Listens' /\ PortIsHeld'
  <2>1. \A c \in Client : child'[c] \in Alive <=> child[c] \in Alive
    BY <1>1 DEF Alive
  <2>2. \A c \in Client : c # Parent
    BY NamesAssumption
  <2> QED
    BY <1>1, <2>1, <2>2 DEF StartsAlone, Listens, PortIsHeld, Alive
<1>7. Unknown' /\ Accepted' /\ NoRoom' /\ Waiting'
  BY <1>1, <1>2, NamesAssumption DEF Unknown, Accepted, NoRoom, Waiting
<1> QED
  BY <1>3, <1>4, <1>5, <1>6, <1>7

LEMMA StartKeeps == ASSUME IInv, Start PROVE IInv'
<1>1. /\ ppc = "down" /\ ppc' = "bind"
      /\ UNCHANGED <<client, queue, listening, holders, child, orphans, cl, attempt>>
  BY DEF Start
<1>2. TypeOK' /\ OwnConnectionOnly' /\ AcceptedOnce'
  BY <1>1 DEF IInv, TypeOK, OwnConnectionOnly, AcceptedOnce, Queued
<1> QED
  BY <1>1, <1>2 DEF IInv, StartsAlone, Listens, PortIsHeld, Unknown, Accepted, NoRoom,
             Waiting, Children, Queued

LEMMA InitIsInvariant == Init => IInv
<1> SUFFICES ASSUME Init PROVE IInv
  OBVIOUS
<1>1. Queued = {} /\ Len(queue) = 0
  BY EmptySeq DEF Init, Queued
<1>2. TypeOK
  <2>1. 1 \in 1 .. Len(Addresses)
    BY AddressesAssumption, EmptySeq
  <2> QED
    BY <2>1, EmptySeq DEF Init, TypeOK
<1> QED
  BY <1>1, <1>2, NamesAssumption
     DEF Init, IInv, OwnConnectionOnly, AcceptedOnce, StartsAlone, Listens, PortIsHeld, Unknown, Accepted,
         NoRoom, Waiting, Alive

LEMMA StepKeeps == ASSUME IInv, [Next]_vars PROVE IInv'
<1>1. CASE ParentNext \/ Accept \/ AcceptFails
  BY <1>1, BindKeeps, AcceptKeeps, ParentGoesOn, ForkKeeps, ReturnKeeps DEF ParentNext
<1>2. ASSUME NEW c \in Client, Handler(c) \/ ClientNext(c) \/ KillClient(c) \/ KillHandler(c)
      PROVE  IInv'
  BY <1>2, HandlerReturnsKeeps, HandlerExitsKeeps, ConnectKeeps, ClientKeeps
     DEF Handler, ClientNext
<1>3. CASE Crash \/ Start
  BY <1>3, CrashKeeps, StartKeeps
<1>4. CASE Quiet \/ UNCHANGED vars
  <2>1. UNCHANGED <<ppc, client, queue, listening, holders, child, orphans, cl, attempt>>
    BY <1>4 DEF Quiet, vars, server
  <2>2. TypeOK' /\ OwnConnectionOnly' /\ AcceptedOnce'
    BY <2>1 DEF IInv, TypeOK, OwnConnectionOnly, AcceptedOnce, Queued
  <2> QED
    BY <2>1, <2>2 DEF IInv, StartsAlone, Listens, PortIsHeld, Unknown, Accepted, NoRoom,
             Waiting, Children, Queued
<1> QED
  BY <1>1, <1>2, <1>3, <1>4 DEF Next

\* The descriptors, the processes and the clients are related as the code
\* means them to be, with any faults.
THEOREM Invariance == Spec => []IInv
<1> QED
  BY InitIsInvariant, StepKeeps, PTL DEF Spec

\* The variables keep their types; the constructor's loop stays within the
\* addresses getaddrinfo returned.
THEOREM TypeCorrect == Spec => []TypeOK
<1>1. IInv => TypeOK
  BY DEF IInv
<1> QED
  BY <1>1, Invariance, PTL

\* However many handlers are forked, none keeps another one's client.
THEOREM NoLeaks == Spec => []OwnConnectionOnly
<1>1. IInv => OwnConnectionOnly
  BY DEF IInv
<1> QED
  BY <1>1, Invariance, PTL

\* However often the server is killed and started, two never serve at once,
\* and a queue goes with the last process that could have accepted from it.
THEOREM RestartIsClean == Spec => []StartsAlone
<1>1. IInv => StartsAlone
  BY DEF IInv
<1> QED
  BY <1>1, Invariance, PTL

\* A connection stays with the server as long as it is queued and held.
LEMMA StaysConnected ==
  ASSUME NEW c \in Client, HungUp(c)', cl[c] = "connected",
         c \in Queued => c \in Queued', holders[c] # {} => holders'[c] # {}
  PROVE  HungUp(c)
BY DEF HungUp

\* The parent closes a connection only when there was no room for its child.
LEMMA ParentHangsUp ==
  ASSUME IInv, ParentNext \/ Accept \/ AcceptFails, NEW c \in Client, ~HungUp(c), HungUp(c)',
         child'[c] \notin {"zombie", "gone"}
  PROVE  TurnedAway(c)
<1>1. cl[c] = "connected" /\ c \notin Queued' /\ holders'[c] = {}
  BY DEF HungUp, ParentNext, Bind, NotAccepted, Fork, ForkFails, Return, Accept, AcceptFails
<1>2. CASE Bind \/ NotAccepted \/ ForkFails \/ AcceptFails
  <2>1. UNCHANGED <<queue, holders>>
    BY <1>2 DEF Bind, NotAccepted, ForkFails, AcceptFails
  <2> QED
    BY <1>1, <2>1, StaysConnected DEF Queued
<1>3. CASE Accept
  <2>1. queue \in Seq(Client) /\ queue # <<>> /\ queue' = Tail(queue)
    BY <1>3 DEF Accept, IInv, TypeOK
  <2>2. Len(queue) \in Nat /\ Len(queue) > 0
    BY <2>1, EmptySeq
  <2>3. /\ Len(queue') = Len(queue) - 1
        /\ \A i \in 1 .. Len(queue) - 1 : queue'[i] = queue[i + 1]
        /\ Head(queue) = queue[1]
    BY <2>1, HeadTailProperties
  <2>4. holders' = [holders EXCEPT ![Head(queue)] = {Parent}]
    BY <1>3 DEF Accept
  <2>5. c # Head(queue)
    BY <1>1, <2>4 DEF IInv, TypeOK
  <2>6. holders'[c] = holders[c]
    BY <2>4, <2>5 DEF IInv, TypeOK
  <2>7. ASSUME NEW i \in 1 .. Len(queue), c = queue[i]
        PROVE  c \in Queued'
    <3>1. i - 1 \in 1 .. Len(queue) - 1 /\ (i - 1) + 1 = i
      BY <2>2, <2>3, <2>5, <2>7
    <3> QED
      BY <2>3, <2>7, <3>1 DEF Queued
  <2>8. c \in Queued => c \in Queued'
    BY <2>7 DEF Queued
  <2> QED
    BY <1>1, <2>6, <2>8, StaysConnected
<1>4. CASE Fork
  <2>1. queue' = queue /\ holders[c] \subseteq holders'[c]
    BY <1>4 DEF Fork, IInv, TypeOK
  <2>2. holders[c] = {}
    BY <1>1, <2>1
  <2> QED
    BY <1>1, <2>1, <2>2, StaysConnected DEF Queued
<1>5. CASE Return
  <2>1. /\ ppc = "return" /\ client \in Client
        /\ holders' = [holders EXCEPT ![client] = @ \ {Parent}]
        /\ UNCHANGED <<queue, child, cl>>
    BY <1>5 DEF Return, IInv, Accepted, TypeOK
  <2>2. client = c
    <3>1. ASSUME client # c PROVE FALSE
      <4>1. holders'[c] = holders[c]
        BY <2>1, <3>1 DEF IInv, TypeOK
      <4> QED
        BY <1>1, <2>1, <4>1, StaysConnected DEF Queued
    <3> QED
      BY <3>1
  <2>3. child[c] # "running"
    BY <1>1, <2>1, <2>2, NamesAssumption DEF IInv, OwnConnectionOnly, TypeOK
  <2>4. child[c] # "leaving"
    BY <1>1 DEF IInv, Waiting, Gone
  <2>5. child[c] = "none"
    BY <2>1, <2>3, <2>4 DEF IInv, TypeOK
  <2> QED
    BY <2>1, <2>2, <2>5 DEF IInv, NoRoom, TurnedAway
<1> QED
  BY <1>2, <1>3, <1>4, <1>5 DEF ParentNext

\* A handler that ends closes the connection of no other client.
LEMMA HandlerHangsUp ==
  ASSUME IInv, NEW d \in Client, Handler(d) \/ KillHandler(d),
         NEW c \in Client, ~HungUp(c), HungUp(c)', child'[c] \notin {"zombie", "gone"}
  PROVE  ppc' \in {"down", "bind"}
<1>1. cl[c] = "connected"
  BY DEF HungUp, Handler, HandlerReturns, HandlerExits, KillHandler
<1>2. CASE HandlerReturns(d)
  <2>1. c # d /\ queue' = queue /\ holders' = [holders EXCEPT ![d] = @ \ {d}]
    BY <1>1, <1>2 DEF HandlerReturns, Gone
  <2>2. holders'[c] = holders[c]
    BY <2>1 DEF IInv, TypeOK
  <2> QED
    BY <1>1, <2>1, <2>2, StaysConnected DEF Queued
<1>3. CASE HandlerExits(d) \/ KillHandler(d)
  <2>1. /\ child' = [child EXCEPT ![d] = Remains(d)] /\ Stops({d}) /\ ppc' = ppc
        /\ holders'[c] \in {holders[c], holders[c] \ {d}}
    BY <1>3 DEF HandlerExits, KillHandler
  <2>2. c # d
    BY <2>1 DEF Remains, IInv, TypeOK
  <2>3. holders'[c] = holders[c]
    <3>1. holders[c] \subseteq {Parent, c} /\ d # Parent
      BY NamesAssumption DEF IInv, OwnConnectionOnly
    <3>2. d \notin holders[c]
      BY <2>2, <3>1
    <3> QED
      BY <2>1, <3>2
  <2>4. queue' # queue
    BY <1>1, <2>3, StaysConnected DEF Queued
  <2>5. Parent \notin listening
    BY <2>1, <2>4, NamesAssumption DEF Stops
  <2> QED
    BY <2>1, <2>5 DEF IInv, Listens, TypeOK
<1> QED
  BY <1>2, <1>3 DEF Handler

\* No step of a client leaves it connected to nobody.
LEMMA ClientIsNotHungUpOn ==
  ASSUME IInv, NEW d \in Client, ClientNext(d) \/ KillClient(d), NEW c \in Client, HungUp(c)'
  PROVE  HungUp(c)
<1>1. CASE Connect(d)
  <2>1. /\ queue \in Seq(Client) /\ queue' = Append(queue, d) /\ holders' = holders
        /\ cl' = [cl EXCEPT ![d] = "connected"]
    BY <1>1 DEF Connect, IInv, TypeOK
  <2>2. /\ Len(queue) \in Nat /\ Len(queue') = Len(queue) + 1
        /\ queue'[Len(queue) + 1] = d
        /\ \A i \in 1 .. Len(queue) : queue'[i] = queue[i]
    BY <2>1
  <2>3. d \in Queued' /\ \A i \in 1 .. Len(queue) : queue[i] \in Queued'
    BY <2>2 DEF Queued
  <2>4. Queued \subseteq Queued'
    BY <2>3 DEF Queued
  <2>5. c # d
    BY <2>3 DEF HungUp
  <2>6. cl[c] = "connected"
    BY <2>1, <2>5 DEF HungUp, IInv, TypeOK
  <2> QED
    BY <2>1, <2>4, <2>6, StaysConnected
<1>2. CASE StartClient(d) \/ NotConnected(d) \/ ClientServed(d) \/ ClientCutOff(d) \/ KillClient(d)
  <2>1. UNCHANGED <<queue, holders>>
    BY <1>2 DEF StartClient, NotConnected, ClientServed, ClientCutOff, KillClient, server
  <2>2. cl'[c] = "connected" => cl[c] = "connected"
    BY <1>2 DEF StartClient, NotConnected, ClientServed, ClientCutOff, KillClient, IInv, TypeOK
  <2> QED
    BY <2>1, <2>2 DEF HungUp, Queued
<1> QED
  BY <1>1, <1>2 DEF ClientNext

\* Who hangs up, step by step.
LEMMA StepHangsUp ==
  ASSUME IInv, Next, NEW c \in Client, ~HungUp(c), HungUp(c)'
  PROVE  TurnedAway(c) \/ child'[c] \in {"zombie", "gone"} \/ ppc' \in {"down", "bind"}
<1>1. CASE ParentNext \/ Accept \/ AcceptFails
  BY <1>1, ParentHangsUp
<1>2. ASSUME NEW d \in Client, Handler(d) \/ ClientNext(d) \/ KillClient(d) \/ KillHandler(d)
      PROVE  child'[c] \in {"zombie", "gone"} \/ ppc' \in {"down", "bind"}
  BY <1>2, HandlerHangsUp, ClientIsNotHungUpOn
<1>3. CASE Crash \/ Start
  BY <1>3 DEF Crash, Start
<1>4. ~Quiet
  BY DEF Quiet, vars, server, HungUp, Queued
<1> QED
  BY <1>1, <1>2, <1>3, <1>4 DEF Next

\* A connection that is queued or held stays so until its client has ended,
\* unless it cannot be forked for, its handler ends or the server does: the
\* copies that fork makes and the parent's close never cut anybody off.
THEOREM NobodyIsHungUpOn == Spec => HangsUpOnNobody
<1>1. IInv /\ [Next]_vars =>
        [\A c \in Client : ~HungUp(c) /\ HungUp(c)' =>
           \/ TurnedAway(c)
           \/ child'[c] \in {"zombie", "gone"}
           \/ ppc' \in {"down", "bind"}]_vars
  BY StepHangsUp
<1> QED
  BY <1>1, Invariance, PTL DEF Spec, HangsUpOnNobody

=============================================================================
