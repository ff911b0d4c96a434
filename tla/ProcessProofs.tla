---------------------------- MODULE ProcessProofs ---------------------------
(***************************************************************************)
(* Theorems about the processes and what they lock: about Workers, for any *)
(* number of workers and clients and any sizes of m_events and of the      *)
(* descriptor tables, about Master, for any number of children, and about  *)
(* Locks, for any number of pool threads and connections.  IInv is about   *)
(* Workers, LocksIInv about Locks; the invariants of Master are inductive, *)
(* the second one under the first.                                         *)
(***************************************************************************)
EXTENDS Workers, Master, Locks, ListLemmas

(* The inductive invariant *)

\* Each variable of the workers is a function, and no batch has a socket twice.
ShapeInv ==
  /\ use_accept4 \in [Workers -> BOOLEAN]
  /\ watched \in [Workers -> SUBSET Sockets]
  /\ fds \in [Workers -> SUBSET Clients]
  /\ batch \in [Workers -> Seq(Sockets)]
  /\ accepted \in [Workers -> {<<>>} \cup {<<c>> : c \in Clients}]
  /\ \A w \in Workers : IsFiniteSet(fds[w]) /\ IsInjective(batch[w])

\* A client is in the backlog or has a descriptor of one worker, so that no worker
\* reads or closes what another one has an event of.
OwnInv ==
  \A w \in Workers :
    /\ backlog \cap fds[w] = {}
    /\ \A v \in Workers \ {w} : fds[v] \cap fds[w] = {}

\* The client a worker is setting up came with an event that is still to handle,
\* is not watched yet, and does not block if accept4 has accepted it.
SetUpInv ==
  /\ Listener \in nonblocking
  /\ \A w \in Workers, c \in Clients : accepted[w] = <<c>> =>
       /\ batch[w] # <<>>
       /\ c \notin watched[w]
       /\ use_accept4[w] => c \in nonblocking

\* The clients of a batch are watched and have something to read, or have gone.
EventInv ==
  \A w \in Workers : \A s \in Range(batch[w]) :
    s \in watched[w] /\ (s \in Clients => s \in unread \cup gone)

IInv == TypeOK /\ ShapeInv /\ OwnInv /\ SetUpInv /\ EventInv

-----------------------------------------------------------------------------
(* What the steps do *)

\* Who is connected is in the backlog or with a worker.
LEMMA ConnectedIs ==
  ASSUME NEW c
  PROVE  c \in Connected <=> c \in backlog \/ \E w \in Workers : c \in fds[w]
BY DEF Connected, Served

\* The event at the front of a batch has been handled.
LEMMA HandledStep ==
  ASSUME ShapeInv, NEW w \in Workers, batch[w] # <<>>, Handled(w)
  PROVE  /\ batch' \in [Workers -> Seq(Sockets)]
         /\ \A v \in Workers \ {w} : batch'[v] = batch[v]
         /\ IsInjective(batch'[w]) /\ Head(batch[w]) \in Range(batch[w])
         /\ Range(batch'[w]) = Range(batch[w]) \ {Head(batch[w])}
         /\ Len(batch[w]) \in Nat /\ Len(batch'[w]) = Len(batch[w]) - 1
<1>1. batch \in [Workers -> Seq(Sockets)] /\ IsInjective(batch[w])
  BY DEF ShapeInv
<1>2. batch[w] \in Seq(Sockets)
  BY <1>1
<1>3. /\ Tail(batch[w]) \in Seq(Sockets) /\ IsInjective(Tail(batch[w]))
      /\ Head(batch[w]) \in Range(batch[w])
      /\ Range(Tail(batch[w])) = Range(batch[w]) \ {Head(batch[w])}
      /\ Len(batch[w]) \in Nat \ {0} /\ Len(Tail(batch[w])) = Len(batch[w]) - 1
  BY <1>1, <1>2, TailOfList
<1>4. batch' = [batch EXCEPT ![w] = Tail(batch[w])]
  BY DEF Handled
<1>. QED  BY <1>1, <1>3, <1>4

\* The events of epoll_wait are sockets that are watched and ready, each once, and
\* no more than fit.
LEMMA EpollStep ==
  ASSUME TypeOK, ShapeInv, NEW w \in Workers, EpollWait(w)
  PROVE  /\ batch' \in [Workers -> Seq(Sockets)]
         /\ \A v \in Workers \ {w} : batch'[v] = batch[v]
         /\ IsInjective(batch'[w]) /\ Len(batch'[w]) <= MaxEvents[w]
         /\ Range(batch'[w]) \subseteq {s \in watched[w] : Ready(s)}
<1>. DEFINE ready == {s \in watched[w] : Ready(s)}
            n == Min({Cardinality(ready), Room(w)})
<1>1. PICK events \in [1..n -> ready] :
        IsInjective(events) /\ batch' = [batch EXCEPT ![w] = events]
  BY DEF EpollWait
<1>2. MaxEvents[w] \in Nat /\ Room(w) = MaxEvents[w]
  BY WorkersAssumption DEF Room
<1>3. ready \subseteq Sockets /\ batch \in [Workers -> Seq(Sockets)]
  BY DEF ShapeInv
<1>4. Cardinality(ready) \in Nat
  <2>1. IsFiniteSet(fds[w] \cup {Listener})
    BY FS_AddElement DEF ShapeInv
  <2>2. ready \subseteq fds[w] \cup {Listener}
    BY DEF TypeOK
  <2>. QED  BY <2>1, <2>2, FS_Subset, FS_CardinalityType
<1>. HIDE DEF ready
<1>5. n \in Nat /\ n <= MaxEvents[w]
  <2>. DEFINE S == {Cardinality(ready), Room(w)}
  <2>1. \E x \in S : \A y \in S : x <= y
    BY <1>2, <1>4
  <2>2. n \in S /\ \A y \in S : n <= y
    BY <2>1 DEF Min
  <2>. QED  BY <1>2, <1>4, <2>2
<1>. HIDE DEF n
<1>6. events \in [1..n -> Sockets]
  BY <1>1, <1>3
<1>7. events \in Seq(Sockets) /\ Len(events) = n /\ DOMAIN events = 1..n
  BY <1>5, <1>6
<1>8. batch'[w] = events
  BY <1>1, <1>3
<1>9. Range(events) \subseteq ready
  BY <1>1 DEF Range
<1>. QED  BY <1>1, <1>3, <1>5, <1>7, <1>8, <1>9 DEF ready

\* A client is closed: nobody else has it, and everybody else stays.
LEMMA CloseStep ==
  ASSUME TypeOK, ShapeInv, NEW w \in Workers, NEW c \in Clients, CloseClient(w, c),
         UNCHANGED backlog
  PROVE  /\ fds' \in [Workers -> SUBSET Clients]
         /\ watched' \in [Workers -> SUBSET Sockets]
         /\ unread' \subseteq Connected' /\ gone' \subseteq Clients
         /\ \A v \in Workers \ {w} : fds'[v] = fds[v] /\ watched'[v] = watched[v]
         /\ fds'[w] = fds[w] \ {c} /\ watched'[w] = watched[w] \ {c}
         /\ IsFiniteSet(fds'[w]) /\ Cardinality(fds'[w]) <= MaxFds[w]
<1>1. /\ fds \in [Workers -> SUBSET Clients] /\ watched \in [Workers -> SUBSET Sockets]
      /\ IsFiniteSet(fds[w]) /\ Cardinality(fds[w]) <= MaxFds[w] /\ gone \subseteq Clients
      /\ unread \subseteq Connected
  BY DEF ShapeInv, TypeOK
<1>2. /\ fds' = [fds EXCEPT ![w] = @ \ {c}] /\ watched' = [watched EXCEPT ![w] = @ \ {c}]
      /\ unread' = unread \ {c} /\ gone' = gone \cup {c}
  BY DEF CloseClient
<1>3. /\ fds' \in [Workers -> SUBSET Clients] /\ watched' \in [Workers -> SUBSET Sockets]
      /\ \A v \in Workers \ {w} : fds'[v] = fds[v] /\ watched'[v] = watched[v]
      /\ fds'[w] = fds[w] \ {c} /\ watched'[w] = watched[w] \ {c}
  BY <1>1, <1>2
<1>4. IsFiniteSet(fds'[w]) /\ Cardinality(fds'[w]) <= MaxFds[w]
  <2>1. /\ IsFiniteSet(fds'[w]) /\ Cardinality(fds'[w]) <= Cardinality(fds[w])
        /\ Cardinality(fds'[w]) \in Nat /\ Cardinality(fds[w]) \in Nat
    BY <1>1, <1>3, FS_Subset, FS_CardinalityType
  <2>. QED  BY <1>1, <2>1, WorkersAssumption
<1>5. ASSUME NEW d \in unread' PROVE d \in Connected'
  <2>1. d # c /\ (d \in backlog \/ \E v \in Workers : d \in fds[v])
    BY <1>1, <1>2, <1>5, ConnectedIs
  <2>2. d \in backlog' \/ \E v \in Workers : d \in fds'[v]
    BY <1>3, <2>1
  <2>. QED  BY <2>2 DEF Connected, Served
<1>. QED  BY <1>1, <1>2, <1>3, <1>4, <1>5

-----------------------------------------------------------------------------
(* Types *)

\* TypeOK and ShapeInv in three parts: the clients, the batches, the workers.
ClientTypes ==
  /\ backlog \subseteq Clients /\ gone \subseteq Clients /\ unread \subseteq Connected
BatchTypes ==
  /\ batch \in [Workers -> Seq(Sockets)]
  /\ \A w \in Workers : IsInjective(batch[w]) /\ Len(batch[w]) <= MaxEvents[w]
WorkerTypes ==
  /\ hasAccept4 \in BOOLEAN /\ up \subseteq Workers /\ nonblocking \subseteq Sockets
  /\ use_accept4 \in [Workers -> BOOLEAN]
  /\ watched \in [Workers -> SUBSET Sockets]
  /\ fds \in [Workers -> SUBSET Clients]
  /\ accepted \in [Workers -> {<<>>} \cup {<<c>> : c \in Clients}]
  /\ \A w \in Workers :
       /\ IsFiniteSet(fds[w]) /\ Cardinality(fds[w]) <= MaxFds[w]
       /\ watched[w] \subseteq (fds[w] \cup {Listener}) \cap nonblocking
       /\ \A c \in Clients : accepted[w] = <<c>> => c \in fds[w]

\* Nothing is left out of the three parts.
LEMMA TypeParts ==
  TypeOK /\ ShapeInv <=> ClientTypes /\ BatchTypes /\ WorkerTypes
<1>1. ASSUME TypeOK, ShapeInv PROVE ClientTypes /\ BatchTypes /\ WorkerTypes
  <2>1. ASSUME NEW w \in Workers, NEW c \in Clients, accepted[w] = <<c>>
        PROVE  c \in fds[w]
    <3>1. \E d \in fds[w] : accepted[w] = <<d>>
      BY <1>1, <2>1 DEF TypeOK
    <3>. QED  BY <2>1, <3>1
  <2>. QED  BY <1>1, <2>1 DEF TypeOK, ShapeInv, ClientTypes, BatchTypes, WorkerTypes
<1>2. ASSUME ClientTypes, BatchTypes, WorkerTypes PROVE TypeOK /\ ShapeInv
  <2>1. \A w \in Workers : Range(batch[w]) \subseteq Sockets
    BY <1>2, RangeOfSeq DEF BatchTypes
  <2>2. \A w \in Workers : accepted[w] \in {<<>>} \cup {<<c>> : c \in fds[w]}
    BY <1>2 DEF WorkerTypes
  <2>. QED  BY <1>2, <2>1, <2>2 DEF TypeOK, ShapeInv, ClientTypes, BatchTypes, WorkerTypes
<1>. QED  BY <1>1, <1>2

\* The batch of a worker that handles an event gets shorter.
LEMMA BatchStep ==
  ASSUME TypeOK, ShapeInv, NEW w \in Workers, batch[w] # <<>>, Handled(w)
  PROVE  BatchTypes'
<1>. USE WorkersAssumption
<1>1. /\ batch' \in [Workers -> Seq(Sockets)] /\ IsInjective(batch'[w])
      /\ \A v \in Workers \ {w} : batch'[v] = batch[v]
      /\ Len(batch[w]) \in Nat /\ Len(batch'[w]) = Len(batch[w]) - 1
  BY HandledStep
<1>2. BatchTypes
  BY TypeParts
<1>3. Len(batch'[w]) <= MaxEvents[w]
  <2>1. Len(batch[w]) <= MaxEvents[w] /\ MaxEvents[w] \in Nat
    BY <1>2 DEF BatchTypes
  <2>. QED  BY <1>1, <2>1
<1>. QED  BY <1>1, <1>2, <1>3 DEF BatchTypes

\* Everything that handles an event shortens the batch.
LEMMA HandlesStep ==
  ASSUME NEW w \in Workers,
         \/ AcceptAgain(w) \/ AcceptFull(w) \/ AcceptAborted(w)
         \/ \E c \in Clients : Read(w, c)
  PROVE  batch[w] # <<>> /\ Handled(w) /\ accepted[w] = <<>>
BY DEF AcceptAgain, AcceptFull, AcceptAborted, Read, Accepts, Handles

\* No step makes a worker hold more descriptors or events than fit, or watch a
\* socket that may block.
LEMMA TypeStep ==
  ASSUME IInv, Next
  PROVE  TypeOK' /\ ShapeInv'
<1>. USE WorkersAssumption
<1>. USE DEF client
<1>1. ClientTypes /\ BatchTypes /\ WorkerTypes
  BY TypeParts DEF IInv
<1>. SUFFICES ClientTypes' /\ BatchTypes' /\ WorkerTypes'
  <2>1. TypeOK' /\ ShapeInv' <=> ClientTypes' /\ BatchTypes' /\ WorkerTypes'
    BY TypeParts, PTL
  <2>. QED  BY <2>1
<1>2. ASSUME UNCHANGED <<backlog, gone, unread, fds>> PROVE ClientTypes'
  BY <1>1, <1>2 DEF ClientTypes, Connected, Served
<1>3. ASSUME UNCHANGED batch PROVE BatchTypes'
  BY <1>1, <1>3 DEF BatchTypes
<1>4. ASSUME UNCHANGED <<hasAccept4, up, nonblocking, use_accept4, watched, fds,
                         accepted>>
      PROVE  WorkerTypes'
  BY <1>1, <1>4 DEF WorkerTypes
<1>5. ASSUME NEW w \in Workers, batch[w] # <<>>, Handled(w) PROVE BatchTypes'
  BY <1>5, BatchStep DEF IInv
<1>6. ASSUME NEW c \in Clients, Connect(c) \/ SendRequest(c) \/ HangUp(c)
      PROVE  ClientTypes' /\ BatchTypes' /\ WorkerTypes'
  <2>1. ClientTypes'
    BY <1>1, <1>6 DEF ClientTypes, Connect, SendRequest, HangUp, Connected, Served
  <2>2. UNCHANGED <<hasAccept4, up, nonblocking, use_accept4, watched, fds, accepted,
                    batch>>
    BY <1>6 DEF Connect, SendRequest, HangUp
  <2>. QED  BY <1>3, <1>4, <2>1, <2>2
<1>7. ASSUME NEW w \in Workers, EpollWait(w)
      PROVE  ClientTypes' /\ BatchTypes' /\ WorkerTypes'
  <2>1. BatchTypes'
    BY <1>1, <1>7, EpollStep DEF BatchTypes, IInv
  <2>2. UNCHANGED <<hasAccept4, client, up, nonblocking, use_accept4, watched, fds,
                    accepted>>
    BY <1>7 DEF EpollWait
  <2>. QED  BY <1>2, <1>4, <2>1, <2>2
<1>8. ASSUME NEW w \in Workers, AcceptNoSys(w)
      PROVE  ClientTypes' /\ BatchTypes' /\ WorkerTypes'
  <2>1. WorkerTypes'
    BY <1>1, <1>8 DEF WorkerTypes, AcceptNoSys
  <2>. QED  BY <1>2, <1>3, <1>8, <2>1 DEF AcceptNoSys
<1>9. ASSUME NEW w \in Workers, AcceptAgain(w) \/ AcceptFull(w)
      PROVE  ClientTypes' /\ BatchTypes' /\ WorkerTypes'
  <2>1. UNCHANGED <<hasAccept4, client, up, nonblocking, use_accept4, watched, fds,
                    accepted>>
    BY <1>9 DEF AcceptAgain, AcceptFull
  <2>. QED  BY <1>2, <1>4, <1>5, <1>9, <2>1, HandlesStep
<1>10. ASSUME NEW w \in Workers, AcceptAborted(w)
       PROVE  ClientTypes' /\ BatchTypes' /\ WorkerTypes'
  <2>1. ClientTypes'
    BY <1>1, <1>10 DEF ClientTypes, AcceptAborted, Connected, Served
  <2>2. UNCHANGED <<hasAccept4, up, nonblocking, use_accept4, watched, fds, accepted>>
    BY <1>10 DEF AcceptAborted
  <2>. QED  BY <1>4, <1>5, <1>10, <2>1, <2>2, HandlesStep
<1>11. ASSUME NEW w \in Workers, NEW c \in Clients, CloseClient(w, c),
              UNCHANGED <<hasAccept4, backlog, up, use_accept4, nonblocking>>,
              accepted'[w] = <<>>, \A v \in Workers \ {w} : accepted'[v] = accepted[v],
              accepted' \in [Workers -> {<<>>} \cup {<<d>> : d \in Clients}]
       PROVE  ClientTypes' /\ WorkerTypes'
  <2>1. /\ fds' \in [Workers -> SUBSET Clients]
        /\ watched' \in [Workers -> SUBSET Sockets]
        /\ unread' \subseteq Connected' /\ gone' \subseteq Clients
        /\ \A v \in Workers \ {w} : fds'[v] = fds[v] /\ watched'[v] = watched[v]
        /\ fds'[w] = fds[w] \ {c} /\ watched'[w] = watched[w] \ {c}
        /\ IsFiniteSet(fds'[w]) /\ Cardinality(fds'[w]) <= MaxFds[w]
    BY <1>11, CloseStep DEF IInv
  <2>2. ASSUME NEW v \in Workers
        PROVE  /\ IsFiniteSet(fds'[v]) /\ Cardinality(fds'[v]) <= MaxFds[v]
               /\ watched'[v] \subseteq (fds'[v] \cup {Listener}) \cap nonblocking'
               /\ \A d \in Clients : accepted'[v] = <<d>> => d \in fds'[v]
    <3>1. CASE v = w
      <4>1. watched'[w] \subseteq (fds'[w] \cup {Listener}) \cap nonblocking'
        BY <1>1, <1>11, <2>1 DEF WorkerTypes, Sockets
      <4>2. \A d \in Clients : accepted'[w] # <<d>>
        BY <1>11
      <4>. QED  BY <2>1, <3>1, <4>1, <4>2
    <3>2. CASE v # w
      BY <1>1, <1>11, <2>1, <3>2 DEF WorkerTypes
    <3>. QED  BY <3>1, <3>2
  <2>. QED  BY <1>1, <1>11, <2>1, <2>2 DEF WorkerTypes, ClientTypes
<1>12. ASSUME NEW w \in Workers, NEW c \in Clients, Read(w, c)
       PROVE  ClientTypes' /\ BatchTypes' /\ WorkerTypes'
  <2>1. BatchTypes' /\ accepted[w] = <<>>
    BY <1>5, <1>12, HandlesStep
  <2>2. UNCHANGED <<hasAccept4, backlog, up, use_accept4, nonblocking, accepted>>
    BY <1>12 DEF Read
  <2>3. CASE CloseClient(w, c)
    BY <1>1, <1>11, <2>1, <2>2, <2>3 DEF WorkerTypes
  <2>4. CASE unread' = unread \ {c} /\ UNCHANGED <<gone, watched, fds>>
    BY <1>1, <1>4, <2>1, <2>2, <2>4 DEF ClientTypes, Connected, Served
  <2>. QED  BY <1>12, <2>1, <2>3, <2>4 DEF Read
<1>13. ASSUME NEW w \in Workers, NEW c \in Clients, Accept(w, c)
       PROVE  ClientTypes' /\ BatchTypes' /\ WorkerTypes'
  <2>1. /\ HasFd(w) /\ c \in backlog /\ backlog' = backlog \ {c}
        /\ fds' = [fds EXCEPT ![w] = fds[w] \cup {c}]
        /\ nonblocking \subseteq nonblocking'
        /\ nonblocking' \subseteq nonblocking \cup {c}
        /\ accepted' = [accepted EXCEPT ![w] = <<c>>]
        /\ UNCHANGED <<hasAccept4, gone, unread, up, use_accept4, watched, batch>>
    BY <1>13 DEF Accept
  <2>2. /\ fds \in [Workers -> SUBSET Clients]
        /\ accepted \in [Workers -> {<<>>} \cup {<<d>> : d \in Clients}]
    BY <1>1 DEF WorkerTypes
  <2>3. /\ fds' \in [Workers -> SUBSET Clients] /\ fds'[w] = fds[w] \cup {c}
        /\ accepted' \in [Workers -> {<<>>} \cup {<<d>> : d \in Clients}]
        /\ accepted'[w] = <<c>>
        /\ \A v \in Workers \ {w} : fds'[v] = fds[v] /\ accepted'[v] = accepted[v]
    BY <2>1, <2>2
  <2>4. IsFiniteSet(fds'[w]) /\ Cardinality(fds'[w]) <= MaxFds[w]
    <3>1. IsFiniteSet(fds[w]) /\ Cardinality(fds[w]) < MaxFds[w] /\ MaxFds[w] \in Nat
      BY <1>1, <2>1 DEF WorkerTypes, HasFd
    <3>2. /\ IsFiniteSet(fds[w] \cup {c}) /\ Cardinality(fds[w]) \in Nat
          /\ \/ Cardinality(fds[w] \cup {c}) = Cardinality(fds[w]) + 1
             \/ Cardinality(fds[w] \cup {c}) = Cardinality(fds[w])
      BY <3>1, FS_AddElement, FS_CardinalityType
    <3>. QED  BY <2>3, <3>1, <3>2
  <2>5. ASSUME NEW v \in Workers
        PROVE  /\ IsFiniteSet(fds'[v]) /\ Cardinality(fds'[v]) <= MaxFds[v]
               /\ watched'[v] \subseteq (fds'[v] \cup {Listener}) \cap nonblocking'
               /\ \A d \in Clients : accepted'[v] = <<d>> => d \in fds'[v]
    <3>1. CASE v = w
      BY <1>1, <2>1, <2>3, <2>4, <3>1 DEF WorkerTypes
    <3>2. CASE v # w
      BY <1>1, <2>1, <2>3, <3>2 DEF WorkerTypes
    <3>. QED  BY <3>1, <3>2
  <2>6. WorkerTypes'
    BY <1>1, <2>1, <2>3, <2>5 DEF WorkerTypes, Sockets
  <2>7. ClientTypes'
    <3>1. ASSUME NEW d \in unread' PROVE d \in Connected'
      <4>1. d \in backlog \/ \E v \in Workers : d \in fds[v]
        BY <1>1, <2>1, <3>1, ConnectedIs DEF ClientTypes
      <4>2. d \in backlog' \/ \E v \in Workers : d \in fds'[v]
        BY <2>1, <2>3, <4>1
      <4>. QED  BY <4>2 DEF Connected, Served
    <3>. QED  BY <1>1, <2>1, <3>1 DEF ClientTypes
  <2>. QED  BY <1>3, <2>1, <2>6, <2>7
<1>14. ASSUME NEW w \in Workers, NEW c \in Clients, SetsUp(w, c), SetUp(w)
       PROVE  /\ BatchTypes' /\ accepted'[w] = <<>> /\ c \in fds[w]
              /\ \A v \in Workers \ {w} : accepted'[v] = accepted[v]
              /\ accepted' \in [Workers -> {<<>>} \cup {<<d>> : d \in Clients}]
  <2>1. accepted[w] = <<c>> /\ accepted' = [accepted EXCEPT ![w] = <<>>] /\ Handled(w)
    BY <1>14 DEF SetsUp, SetUp
  <2>2. batch[w] # <<>>
    BY <2>1 DEF IInv, SetUpInv
  <2>. QED  BY <1>1, <1>5, <2>1, <2>2 DEF WorkerTypes
<1>15. ASSUME NEW w \in Workers, NEW c \in Clients, WatchClient(w, c)
       PROVE  ClientTypes' /\ BatchTypes' /\ WorkerTypes'
  <2>1. /\ SetsUp(w, c) /\ SetUp(w)
        /\ nonblocking' =
             IF NeedsNonblocking(w) THEN nonblocking \cup {c} ELSE nonblocking
        /\ watched' = [watched EXCEPT ![w] = watched[w] \cup {c}]
        /\ UNCHANGED <<hasAccept4, client, up, use_accept4, fds>>
    BY <1>15 DEF WatchClient
  <2>2. c \in nonblocking' /\ nonblocking \subseteq nonblocking'
    BY <2>1 DEF IInv, SetUpInv, NeedsNonblocking, SetsUp
  <2>3. /\ BatchTypes' /\ accepted'[w] = <<>> /\ c \in fds[w]
        /\ \A v \in Workers \ {w} : accepted'[v] = accepted[v]
        /\ accepted' \in [Workers -> {<<>>} \cup {<<d>> : d \in Clients}]
    BY <1>14, <2>1
  <2>4. /\ watched' \in [Workers -> SUBSET Sockets]
        /\ watched'[w] = watched[w] \cup {c}
        /\ \A v \in Workers \ {w} : watched'[v] = watched[v]
    BY <1>1, <2>1 DEF WorkerTypes, Sockets
  <2>5. ASSUME NEW v \in Workers
        PROVE  /\ watched'[v] \subseteq (fds'[v] \cup {Listener}) \cap nonblocking'
               /\ \A d \in Clients : accepted'[v] = <<d>> => d \in fds'[v]
    <3>1. CASE v = w
      BY <1>1, <2>1, <2>2, <2>3, <2>4, <3>1 DEF WorkerTypes
    <3>2. CASE v # w
      BY <1>1, <2>1, <2>2, <2>3, <2>4, <3>2 DEF WorkerTypes
    <3>. QED  BY <3>1, <3>2
  <2>6. nonblocking' \subseteq Sockets
    BY <1>1, <2>1 DEF WorkerTypes, Sockets
  <2>7. WorkerTypes'
    BY <1>1, <2>1, <2>3, <2>4, <2>5, <2>6 DEF WorkerTypes
  <2>. QED  BY <1>2, <2>1, <2>3, <2>7
<1>16. ASSUME NEW w \in Workers, NEW c \in Clients, SetUpFails(w, c)
       PROVE  ClientTypes' /\ BatchTypes' /\ WorkerTypes'
  <2>1. /\ SetsUp(w, c) /\ SetUp(w) /\ CloseClient(w, c)
        /\ UNCHANGED <<hasAccept4, backlog, up, use_accept4, nonblocking>>
    BY <1>16 DEF SetUpFails
  <2>. QED  BY <1>11, <1>14, <2>1
<1>17. ASSUME NEW w \in Workers, Die(w)
       PROVE  ClientTypes' /\ BatchTypes' /\ WorkerTypes'
  <2>1. /\ up' = up \ {w} /\ gone' = gone \cup fds[w] /\ unread' = unread \ fds[w]
        /\ fds' = [fds EXCEPT ![w] = {}] /\ watched' = [watched EXCEPT ![w] = {}]
        /\ batch' = [batch EXCEPT ![w] = <<>>]
        /\ accepted' = [accepted EXCEPT ![w] = <<>>]
        /\ UNCHANGED <<hasAccept4, backlog, use_accept4, nonblocking>>
    BY <1>17 DEF Die
  <2>2. BatchTypes'
    <3>1. <<>> \in Seq(Sockets) /\ IsInjective(<<>>) /\ Len(<<>>) = 0
      BY DEF IsInjective
    <3>2. 0 <= MaxEvents[w]
      OBVIOUS
    <3>. QED  BY <1>1, <2>1, <3>1, <3>2 DEF BatchTypes
  <2>3. ASSUME NEW v \in Workers
        PROVE  /\ IsFiniteSet(fds'[v]) /\ Cardinality(fds'[v]) <= MaxFds[v]
               /\ watched'[v] \subseteq (fds'[v] \cup {Listener}) \cap nonblocking'
               /\ \A d \in Clients : accepted'[v] = <<d>> => d \in fds'[v]
    <3>1. CASE v = w
      <4>1. fds'[w] = {} /\ watched'[w] = {} /\ accepted'[w] = <<>>
        BY <1>1, <2>1 DEF WorkerTypes
      <4>. QED  BY <3>1, <4>1, FS_EmptySet
    <3>2. CASE v # w
      BY <1>1, <2>1, <3>2 DEF WorkerTypes
    <3>. QED  BY <3>1, <3>2
  <2>4. WorkerTypes'
    <3>1. /\ fds' \in [Workers -> SUBSET Clients]
          /\ watched' \in [Workers -> SUBSET Sockets]
          /\ accepted' \in [Workers -> {<<>>} \cup {<<d>> : d \in Clients}]
      BY <1>1, <2>1 DEF WorkerTypes
    <3>. QED  BY <1>1, <2>1, <2>3, <3>1 DEF WorkerTypes
  <2>5. ClientTypes'
    <3>1. fds[w] \subseteq Clients /\ \A v \in Workers \ {w} : fds'[v] = fds[v]
      BY <1>1, <2>1 DEF WorkerTypes
    <3>2. ASSUME NEW d \in unread' PROVE d \in Connected'
      <4>1. d \notin fds[w] /\ (d \in backlog \/ \E v \in Workers : d \in fds[v])
        BY <1>1, <2>1, <3>2, ConnectedIs DEF ClientTypes
      <4>2. d \in backlog' \/ \E v \in Workers : d \in fds'[v]
        BY <2>1, <3>1, <4>1
      <4>. QED  BY <4>2 DEF Connected, Served
    <3>. QED  BY <1>1, <2>1, <3>1, <3>2 DEF ClientTypes
  <2>. QED  BY <2>2, <2>4, <2>5
<1>. QED
  BY <1>6, <1>7, <1>8, <1>9, <1>10, <1>12, <1>13, <1>15, <1>16, <1>17
  DEF Next, WorkerStep

-----------------------------------------------------------------------------
(* Clients and their events *)

\* A descriptor only comes out of the backlog.
LEMMA OwnStep ==
  ASSUME IInv, Next
  PROVE  OwnInv'
<1>. USE DEF client
<1>1. fds \in [Workers -> SUBSET Clients]
  BY DEF IInv, ShapeInv
<1>2. ASSUME backlog' \subseteq backlog, \A v \in Workers : fds'[v] \subseteq fds[v]
      PROVE  OwnInv'
  BY <1>2 DEF IInv, OwnInv
<1>3. ASSUME NEW c \in Clients, Connect(c) PROVE OwnInv'
  <2>1. backlog' = backlog \cup {c} /\ fds' = fds /\ \A v \in Workers : c \notin fds[v]
    BY <1>3, ConnectedIs DEF Connect
  <2>. QED  BY <2>1 DEF IInv, OwnInv
<1>4. ASSUME NEW w \in Workers, NEW c \in Clients, Accept(w, c) PROVE OwnInv'
  <2>1. /\ c \in backlog /\ backlog' = backlog \ {c}
        /\ fds' = [fds EXCEPT ![w] = fds[w] \cup {c}]
    BY <1>4 DEF Accept
  <2>2. fds'[w] = fds[w] \cup {c} /\ \A v \in Workers \ {w} : fds'[v] = fds[v]
    BY <1>1, <2>1
  <2>. QED  BY <2>1, <2>2 DEF IInv, OwnInv
<1>5. ASSUME NEW w \in Workers, NEW c \in Clients, CloseClient(w, c)
      PROVE  \A v \in Workers : fds'[v] \subseteq fds[v]
  BY <1>1, <1>5 DEF CloseClient
<1>6. ASSUME NEW w \in Workers, NEW c \in Clients,
             Read(w, c) \/ WatchClient(w, c) \/ SetUpFails(w, c)
      PROVE  OwnInv'
  <2>1. backlog' = backlog /\ (CloseClient(w, c) \/ fds' = fds)
    BY <1>6 DEF Read, WatchClient, SetUpFails
  <2>. QED  BY <1>2, <1>5, <2>1
<1>7. ASSUME NEW w \in Workers, Die(w) PROVE OwnInv'
  <2>1. backlog' = backlog /\ fds' = [fds EXCEPT ![w] = {}]
    BY <1>7 DEF Die
  <2>. QED  BY <1>1, <1>2, <2>1
<1>8. ASSUME NEW c \in Clients, SendRequest(c) \/ HangUp(c) PROVE OwnInv'
  BY <1>2, <1>8 DEF SendRequest, HangUp
<1>9. ASSUME NEW w \in Workers,
             \/ EpollWait(w) \/ AcceptNoSys(w) \/ AcceptAgain(w) \/ AcceptFull(w)
             \/ AcceptAborted(w)
      PROVE  OwnInv'
  BY <1>2, <1>9 DEF EpollWait, AcceptNoSys, AcceptAgain, AcceptFull, AcceptAborted
<1>. QED
  BY <1>3, <1>4, <1>6, <1>7, <1>8, <1>9 DEF Next, WorkerStep

\* A worker sets up one client at a time, and use_accept4 does not change meanwhile.
LEMMA SetUpStep ==
  ASSUME IInv, Next
  PROVE  SetUpInv'
<1>. USE DEF client
<1>1. /\ watched \in [Workers -> SUBSET Sockets] /\ batch \in [Workers -> Seq(Sockets)]
      /\ accepted \in [Workers -> {<<>>} \cup {<<c>> : c \in Clients}]
      /\ use_accept4 \in [Workers -> BOOLEAN] /\ Listener \in nonblocking
  BY DEF IInv, ShapeInv, SetUpInv
<1>. DEFINE Safe(v) == \A c \in Clients : accepted[v] = <<c>> =>
              /\ batch[v] # <<>> /\ c \notin watched[v]
              /\ use_accept4[v] => c \in nonblocking
<1>2. \A v \in Workers : Safe(v)
  BY DEF IInv, SetUpInv
<1>3. ASSUME NEW v \in Workers, nonblocking \subseteq nonblocking',
             batch'[v] = batch[v], accepted'[v] = accepted[v],
             watched'[v] \subseteq watched[v], use_accept4'[v] = use_accept4[v]
      PROVE  Safe(v)'
  BY <1>2, <1>3
<1>4. ASSUME NEW v \in Workers, accepted'[v] = <<>> PROVE Safe(v)'
  <2>1. \A c \in Clients : accepted'[v] # <<c>>
    BY <1>4
  <2>. QED  BY <2>1
<1>5. ASSUME NEW w \in Workers, nonblocking \subseteq nonblocking', Safe(w)',
             \A v \in Workers \ {w} :
               /\ batch'[v] = batch[v] /\ accepted'[v] = accepted[v]
               /\ watched'[v] = watched[v] /\ use_accept4'[v] = use_accept4[v]
      PROVE  SetUpInv'
  <2>1. ASSUME NEW v \in Workers PROVE Safe(v)'
    <3>1. CASE v = w
      BY <1>5, <3>1
    <3>2. CASE v # w
      BY <1>3, <1>5, <3>2
    <3>. QED  BY <3>1, <3>2
  <2>. QED  BY <1>1, <1>5, <2>1 DEF SetUpInv
<1>6. ASSUME NEW c \in Clients, Connect(c) \/ SendRequest(c) \/ HangUp(c) PROVE SetUpInv'
  <2>1. UNCHANGED <<nonblocking, batch, accepted, watched, use_accept4>>
    BY <1>6 DEF Connect, SendRequest, HangUp
  <2>. QED  BY <2>1 DEF IInv, SetUpInv
<1>7. ASSUME NEW w \in Workers, EpollWait(w) PROVE SetUpInv'
  <2>1. batch[w] = <<>> /\ UNCHANGED <<nonblocking, accepted, watched, use_accept4>>
    BY <1>7 DEF EpollWait
  <2>2. \A v \in Workers \ {w} : batch'[v] = batch[v]
    BY <1>7, EpollStep DEF IInv
  <2>3. Safe(w)'
    BY <1>2, <2>1
  <2>. QED  BY <1>5, <2>1, <2>2, <2>3
<1>8. ASSUME NEW w \in Workers, AcceptNoSys(w) PROVE SetUpInv'
  <2>1. /\ accepted[w] = <<>> /\ UNCHANGED <<nonblocking, accepted, watched, batch>>
        /\ use_accept4' = [use_accept4 EXCEPT ![w] = FALSE]
    BY <1>8 DEF AcceptNoSys, Handles
  <2>. QED  BY <1>1, <1>4, <1>5, <2>1
<1>9. ASSUME NEW w \in Workers, batch[w] # <<>>, Handled(w), accepted'[w] = <<>>,
             nonblocking \subseteq nonblocking', use_accept4' = use_accept4,
             \A v \in Workers \ {w} :
               accepted'[v] = accepted[v] /\ watched'[v] = watched[v]
      PROVE  SetUpInv'
  <2>1. \A v \in Workers \ {w} : batch'[v] = batch[v]
    BY <1>9, HandledStep DEF IInv
  <2>. QED  BY <1>4, <1>5, <1>9, <2>1
<1>10. ASSUME NEW w \in Workers,
              AcceptAgain(w) \/ AcceptFull(w) \/ AcceptAborted(w)
       PROVE  SetUpInv'
  <2>1. UNCHANGED <<nonblocking, accepted, watched, use_accept4>>
    BY <1>10 DEF AcceptAgain, AcceptFull, AcceptAborted
  <2>. QED  BY <1>9, <1>10, <2>1, HandlesStep
<1>11. ASSUME NEW w \in Workers, NEW c \in Clients, CloseClient(w, c)
       PROVE  \A v \in Workers \ {w} : watched'[v] = watched[v]
  BY <1>1, <1>11 DEF CloseClient
<1>12. ASSUME NEW w \in Workers, NEW c \in Clients, Read(w, c) PROVE SetUpInv'
  <2>1. UNCHANGED <<nonblocking, accepted, use_accept4>>
    BY <1>12 DEF Read
  <2>2. \A v \in Workers \ {w} : watched'[v] = watched[v]
    BY <1>11, <1>12 DEF Read
  <2>. QED  BY <1>9, <1>12, <2>1, <2>2, HandlesStep
<1>13. ASSUME NEW w \in Workers, NEW c \in Clients, Accept(w, c) PROVE SetUpInv'
  <2>1. /\ batch[w] # <<>> /\ c \in backlog
        /\ nonblocking' = IF use_accept4[w] THEN nonblocking \cup {c} ELSE nonblocking
        /\ accepted' = [accepted EXCEPT ![w] = <<c>>]
        /\ UNCHANGED <<batch, watched, use_accept4>>
    BY <1>13 DEF Accept, Accepts, Handles
  <2>2. c \notin watched[w]
    <3>1. c \notin fds[w] /\ c # Listener
      BY <2>1, WorkersAssumption DEF IInv, OwnInv
    <3>. QED  BY <3>1 DEF IInv, TypeOK
  <2>3. accepted'[w] = <<c>> /\ \A v \in Workers \ {w} : accepted'[v] = accepted[v]
    BY <1>1, <2>1
  <2>4. Safe(w)'
    BY <2>1, <2>2, <2>3
  <2>. QED  BY <1>5, <2>1, <2>3, <2>4
<1>14. ASSUME NEW w \in Workers, NEW c \in Clients,
              WatchClient(w, c) \/ SetUpFails(w, c)
       PROVE  SetUpInv'
  <2>1. /\ accepted[w] = <<c>> /\ accepted' = [accepted EXCEPT ![w] = <<>>]
        /\ Handled(w) /\ use_accept4' = use_accept4
    BY <1>14 DEF WatchClient, SetUpFails, SetsUp, SetUp
  <2>2. nonblocking \subseteq nonblocking'
    BY <1>14 DEF WatchClient, SetUpFails
  <2>3. \A v \in Workers \ {w} : watched'[v] = watched[v]
    BY <1>1, <1>11, <1>14 DEF WatchClient, SetUpFails
  <2>4. /\ batch[w] # <<>> /\ accepted'[w] = <<>>
        /\ \A v \in Workers \ {w} : accepted'[v] = accepted[v]
    BY <1>1, <1>2, <2>1
  <2>. QED  BY <1>9, <2>1, <2>2, <2>3, <2>4
<1>15. ASSUME NEW w \in Workers, Die(w) PROVE SetUpInv'
  <2>1. /\ watched' = [watched EXCEPT ![w] = {}] /\ batch' = [batch EXCEPT ![w] = <<>>]
        /\ accepted' = [accepted EXCEPT ![w] = <<>>]
        /\ UNCHANGED <<use_accept4, nonblocking>>
    BY <1>15 DEF Die
  <2>. QED  BY <1>1, <1>4, <1>5, <2>1
<1>. QED
  BY <1>6, <1>7, <1>8, <1>10, <1>12, <1>13, <1>14, <1>15 DEF Next, WorkerStep

\* What is read or closed is the client of the event being handled, of which the
\* batch has no other event; closing makes a client gone.
LEMMA EventStep ==
  ASSUME IInv, Next
  PROVE  EventInv'
<1>. USE DEF client
<1>1. /\ watched \in [Workers -> SUBSET Sockets] /\ fds \in [Workers -> SUBSET Clients]
      /\ batch \in [Workers -> Seq(Sockets)] /\ Listener \notin Clients
      /\ accepted \in [Workers -> {<<>>} \cup {<<c>> : c \in Clients}]
  BY WorkersAssumption DEF IInv, ShapeInv
<1>. DEFINE Current(v) == \A s \in Range(batch[v]) :
              s \in watched[v] /\ (s \in Clients => s \in unread \cup gone)
<1>2. \A v \in Workers : Current(v)
  BY DEF IInv, EventInv
<1>3. ASSUME NEW v \in Workers, NEW s \in Range(batch[v]), s \in Clients
      PROVE  s \in fds[v]
  BY <1>1, <1>2, <1>3 DEF IInv, TypeOK
<1>4. ASSUME NEW v \in Workers, Range(batch'[v]) \subseteq Range(batch[v]),
             watched[v] \subseteq watched'[v],
             \A s \in fds[v] : s \in Range(batch'[v]) /\ s \in unread \cup gone =>
               s \in unread' \cup gone'
      PROVE  Current(v)'
  BY <1>2, <1>3, <1>4
<1>5. ASSUME UNCHANGED <<batch, watched>>, unread \cup gone \subseteq unread' \cup gone'
      PROVE  EventInv'
  BY <1>5 DEF IInv, EventInv
<1>6. ASSUME NEW c \in Clients, Connect(c) \/ SendRequest(c) \/ HangUp(c) PROVE EventInv'
  <2>1. UNCHANGED <<batch, watched>> /\ unread \cup gone \subseteq unread' \cup gone'
    BY <1>6 DEF Connect, SendRequest, HangUp
  <2>. QED  BY <1>5, <2>1
<1>7. ASSUME NEW w \in Workers, AcceptNoSys(w) \/ \E c \in Clients : Accept(w, c)
      PROVE  EventInv'
  BY <1>5, <1>7 DEF AcceptNoSys, Accept
<1>8. ASSUME NEW w \in Workers, EpollWait(w) PROVE EventInv'
  <2>1. UNCHANGED <<client, watched>>
    BY <1>8 DEF EpollWait
  <2>2. /\ \A v \in Workers \ {w} : batch'[v] = batch[v]
        /\ Range(batch'[w]) \subseteq {s \in watched[w] : Ready(s)}
    BY <1>8, EpollStep DEF IInv
  <2>3. Current(w)'
    BY <1>1, <2>1, <2>2 DEF Ready
  <2>4. \A v \in Workers \ {w} : Current(v)'
    BY <1>4, <2>1, <2>2
  <2>. QED  BY <2>3, <2>4 DEF EventInv
<1>9. ASSUME NEW w \in Workers, batch[w] # <<>>, Handled(w)
      PROVE  /\ \A v \in Workers : Range(batch'[v]) \subseteq Range(batch[v])
             /\ Head(batch[w]) \in Range(batch[w])
             /\ Range(batch'[w]) = Range(batch[w]) \ {Head(batch[w])}
  BY <1>9, HandledStep DEF IInv
<1>10. ASSUME NEW w \in Workers, AcceptAgain(w) \/ AcceptFull(w) PROVE EventInv'
  <2>1. UNCHANGED <<client, watched>>
    BY <1>10 DEF AcceptAgain, AcceptFull
  <2>2. \A v \in Workers : Range(batch'[v]) \subseteq Range(batch[v])
    BY <1>9, <1>10, HandlesStep
  <2>. QED  BY <1>4, <2>1, <2>2 DEF EventInv
<1>11. ASSUME NEW w \in Workers, AcceptAborted(w) PROVE EventInv'
  <2>1. PICK c \in backlog \cap gone : unread' = unread \ {c}
    BY <1>11 DEF AcceptAborted
  <2>2. gone' = gone /\ watched' = watched
    BY <1>11 DEF AcceptAborted
  <2>3. \A v \in Workers : Range(batch'[v]) \subseteq Range(batch[v])
    BY <1>9, <1>11, HandlesStep
  <2>4. \A v \in Workers : c \notin fds[v]
    BY <2>1 DEF IInv, OwnInv
  <2>. QED  BY <1>4, <2>1, <2>2, <2>3, <2>4 DEF EventInv
<1>12. ASSUME NEW w \in Workers, NEW c \in Clients, CloseClient(w, c)
       PROVE  /\ unread \cup gone \subseteq unread' \cup gone'
              /\ watched'[w] = watched[w] \ {c}
              /\ \A v \in Workers \ {w} : watched'[v] = watched[v]
  BY <1>1, <1>12 DEF CloseClient
<1>13. ASSUME NEW w \in Workers, NEW c \in Clients, Read(w, c) PROVE EventInv'
  <2>1. batch[w] # <<>> /\ Handled(w) /\ Head(batch[w]) = c
    BY <1>13 DEF Read, Handles
  <2>2. /\ \A v \in Workers : Range(batch'[v]) \subseteq Range(batch[v])
        /\ c \in Range(batch[w]) /\ Range(batch'[w]) = Range(batch[w]) \ {c}
    BY <1>9, <2>1
  <2>3. c \in fds[w] /\ \A v \in Workers \ {w} : c \notin fds[v]
    BY <1>3, <2>2 DEF IInv, OwnInv
  <2>4. CASE unread' = unread \ {c} /\ UNCHANGED <<gone, watched, fds>>
    <3>1. ASSUME NEW v \in Workers PROVE Current(v)'
      BY <1>4, <2>2, <2>3, <2>4
    <3>. QED  BY <3>1 DEF EventInv
  <2>5. CASE CloseClient(w, c)
    <3>1. Current(w)'
      BY <1>2, <1>12, <2>2, <2>5
    <3>2. ASSUME NEW v \in Workers \ {w} PROVE Current(v)'
      BY <1>4, <1>12, <2>2, <2>5
    <3>. QED  BY <3>1, <3>2 DEF EventInv
  <2>. QED  BY <1>13, <2>4, <2>5 DEF Read
<1>14. ASSUME NEW w \in Workers, NEW c \in Clients, SetsUp(w, c), SetUp(w)
       PROVE  /\ \A v \in Workers : Range(batch'[v]) \subseteq Range(batch[v])
              /\ c \notin watched[w]
  <2>1. accepted[w] = <<c>> /\ Handled(w)
    BY <1>14 DEF SetsUp, SetUp
  <2>2. batch[w] # <<>> /\ c \notin watched[w]
    BY <2>1 DEF IInv, SetUpInv
  <2>. QED  BY <1>9, <2>1, <2>2
<1>15. ASSUME NEW w \in Workers, NEW c \in Clients, WatchClient(w, c) PROVE EventInv'
  <2>1. /\ UNCHANGED client /\ SetsUp(w, c) /\ SetUp(w)
        /\ watched' = [watched EXCEPT ![w] = watched[w] \cup {c}]
    BY <1>15 DEF WatchClient
  <2>2. \A v \in Workers : watched[v] \subseteq watched'[v]
    BY <1>1, <2>1
  <2>. QED  BY <1>4, <1>14, <2>1, <2>2 DEF EventInv
<1>16. ASSUME NEW w \in Workers, NEW c \in Clients, SetUpFails(w, c) PROVE EventInv'
  <2>1. CloseClient(w, c) /\ SetsUp(w, c) /\ SetUp(w)
    BY <1>16 DEF SetUpFails
  <2>2. \A v \in Workers : watched[v] = watched'[v]
    BY <1>12, <1>14, <2>1
  <2>. QED  BY <1>4, <1>12, <1>14, <2>1, <2>2 DEF EventInv
<1>17. ASSUME NEW w \in Workers, Die(w) PROVE EventInv'
  <2>1. /\ gone' = gone \cup fds[w] /\ unread' = unread \ fds[w]
        /\ watched' = [watched EXCEPT ![w] = {}] /\ batch' = [batch EXCEPT ![w] = <<>>]
    BY <1>17 DEF Die
  <2>2. Current(w)'
    <3>1. batch'[w] = <<>>
      BY <1>1, <2>1
    <3>. QED  BY <3>1 DEF Range
  <2>3. ASSUME NEW v \in Workers \ {w} PROVE Current(v)'
    <3>1. batch'[v] = batch[v] /\ watched'[v] = watched[v]
      BY <1>1, <2>1
    <3>. QED  BY <1>4, <2>1, <3>1
  <2>. QED  BY <2>2, <2>3 DEF EventInv
<1>. QED
  BY <1>6, <1>7, <1>8, <1>10, <1>11, <1>13, <1>15, <1>16, <1>17 DEF Next, WorkerStep

-----------------------------------------------------------------------------
(* The theorems *)

\* The parts of the invariant hold together, in every state.
LEMMA Inductive == Spec => []IInv
<1>1. Init => IInv
  <2>. SUFFICES ASSUME Init PROVE IInv
    OBVIOUS
  <2>. USE WorkersAssumption
  <2>1. <<>> \in Seq(Sockets) /\ IsInjective(<<>>) /\ Len(<<>>) = 0 /\ Range(<<>>) = {}
    BY DEF IsInjective, Range
  <2>2. IsFiniteSet({}) /\ Cardinality({}) = 0
    BY FS_EmptySet
  <2>3. \A w \in Workers : 0 <= MaxEvents[w] /\ 0 <= MaxFds[w]
    OBVIOUS
  <2>4. TypeOK
    BY <2>1, <2>2, <2>3 DEF Init, TypeOK, ListeningNonblocking, Sockets
  <2>5. ShapeInv
    BY <2>1, <2>2 DEF Init, ShapeInv, Sockets
  <2>6. OwnInv /\ SetUpInv
    BY DEF Init, OwnInv, SetUpInv, ListeningNonblocking
  <2>7. EventInv
    BY <2>1 DEF Init, EventInv
  <2>. QED  BY <2>4, <2>5, <2>6, <2>7 DEF IInv
<1>2. IInv /\ [Next]_vars => IInv'
  <2>. SUFFICES ASSUME IInv, [Next]_vars PROVE IInv'
    OBVIOUS
  <2>1. CASE Next
    BY <2>1, TypeStep, OwnStep, SetUpStep, EventStep DEF IInv
  <2>2. CASE UNCHANGED vars
    BY <2>2
    DEF IInv, TypeOK, ShapeInv, OwnInv, SetUpInv, EventInv, Connected, Served, vars
  <2>. QED  BY <2>1, <2>2
<1>. QED  BY <1>1, <1>2, PTL DEF Spec

\* A worker never has more descriptors and events than fit, and none is told of a
\* socket that may block.
THEOREM TypeCorrect == Spec => []TypeOK
<1>1. IInv => TypeOK
  BY DEF IInv
<1>. QED  BY <1>1, Inductive, PTL

\* Every event of a batch is still good when its turn comes, with no filter.
THEOREM BatchesCurrent == Spec => []EventsCurrent
<1>1. IInv => EventsCurrent
  <2>. SUFFICES ASSUME IInv, NEW w \in Workers, NEW k \in DOMAIN batch[w]
                PROVE  /\ batch[w][k] \in watched[w]
                       /\ batch[w][k] \in Clients => Ready(batch[w][k])
    BY DEF EventsCurrent
  <2>1. batch[w][k] \in Range(batch[w])
    BY DEF Range
  <2>. QED  BY <2>1, WorkersAssumption DEF IInv, EventInv, Ready
<1>. QED  BY <1>1, Inductive, PTL

-----------------------------------------------------------------------------
(* The master *)

\* Every step of the master, of a worker and of the senders of signals keeps
\* the types of the master's variables.
LEMMA MasterTypeStep ==
  ASSUME MasterTypeOK, [MasterNext]_masterVars
  PROVE  MasterTypeOK'
<1>. USE MasterAssumption DEF MasterTypeOK, Children, Signals
<1>1. CASE Spawn
  <2>1. PICK state \in {"starting", "none"} : Fork(state)
    BY <1>1 DEF Spawn
  <2>2. i \in Children /\ i + 1 \in 0..WorkerProcesses
    BY <2>1 DEF Fork
  <2>. QED  BY <2>1, <2>2 DEF Fork
<1>2. CASE EnterLoop
  BY <1>2 DEF EnterLoop
<1>3. CASE DeliverChild
  BY <1>3 DEF DeliverChild
<1>4. CASE DeliverOther
  BY <1>4 DEF DeliverOther
<1>5. CASE WaitPid
  BY <1>5 DEF WaitPid
<1>6. CASE NoMoreStatus
  BY <1>6 DEF NoMoreStatus
<1>7. CASE Sleep
  BY <1>7 DEF Sleep
<1>8. CASE Suspend
  BY <1>8 DEF Suspend
<1>9. CASE \E w \in Children : WorkerServes(w) \/ WorkerDies(w)
  BY <1>9 DEF WorkerServes, WorkerDies
<1>10. CASE \E s \in Signals : SendSignal(s)
  BY <1>10 DEF SendSignal
<1>11. CASE UNCHANGED masterVars
  BY <1>11 DEF masterVars
<1>. QED
  BY <1>1, <1>2, <1>3, <1>4, <1>5, <1>6, <1>7, <1>8, <1>9, <1>10, <1>11
  DEF MasterNext, MasterStep

\* The master and the kernel keep within their types, whatever order signals
\* and deaths come in (ngx_master_process_cycle, ngx_signal_handler).
THEOREM MasterTypeCorrect == MasterSpec => []MasterTypeOK
<1>1. MasterInit => MasterTypeOK
  BY MasterAssumption DEF MasterInit, MasterTypeOK, Children
<1>. QED  BY <1>1, MasterTypeStep, PTL DEF MasterSpec

\* No step leaves a zombie behind that nothing will wait for: a death adds
\* SIGCHLD, the handler's start moves to the waitpid() loop, and that loop ends
\* only without zombies.
LEMMA NoticedStep ==
  ASSUME MasterTypeOK, ZombieNoticed, [MasterNext]_masterVars
  PROVE  ZombieNoticed'
<1>. USE DEF ZombieNoticed
<1>1. CASE Spawn
  <2>1. PICK state \in {"starting", "none"} : Fork(state)
    BY <1>1 DEF Spawn
  <2>2. \A w \in Children : worker'[w] = "zombie" => worker[w] = "zombie"
    BY <2>1 DEF Fork, MasterTypeOK
  <2>3. pending' = pending /\ masterpc' = masterpc
    BY <2>1 DEF Fork
  <2>. QED  BY <2>2, <2>3
<1>2. CASE EnterLoop
  BY <1>2 DEF EnterLoop
<1>3. CASE DeliverChild
  BY <1>3 DEF DeliverChild
<1>4. CASE DeliverOther
  BY <1>4 DEF DeliverOther
<1>5. CASE WaitPid
  BY <1>5 DEF WaitPid
<1>6. CASE NoMoreStatus
  BY <1>6 DEF NoMoreStatus
<1>7. CASE Sleep
  BY <1>7 DEF Sleep
<1>8. CASE Suspend
  BY <1>8 DEF Suspend
<1>9. CASE \E w \in Children : WorkerServes(w)
  <2>1. PICK w \in Children : WorkerServes(w)
    BY <1>9
  <2>2. \A v \in Children : worker'[v] = "zombie" => worker[v] = "zombie"
    BY <2>1 DEF WorkerServes, MasterTypeOK
  <2>. QED  BY <2>1, <2>2 DEF WorkerServes
<1>10. CASE \E w \in Children : WorkerDies(w)
  BY <1>10 DEF WorkerDies
<1>11. CASE \E s \in Signals : SendSignal(s)
  BY <1>11 DEF SendSignal
<1>12. CASE UNCHANGED masterVars
  BY <1>12 DEF masterVars
<1>. QED
  BY <1>1, <1>2, <1>3, <1>4, <1>5, <1>6, <1>7, <1>8, <1>9, <1>10, <1>11, <1>12
  DEF MasterNext, MasterStep

\* However many workers die while one SIGCHLD is pending, each zombie is seen
\* by a waitpid() loop that runs or will run (ngx_process_get_status).
THEOREM DeathsNoticed == MasterSpec => []ZombieNoticed
<1>1. MasterInit => ZombieNoticed
  BY DEF MasterInit, ZombieNoticed
<1>. QED  BY <1>1, MasterTypeCorrect, NoticedStep, PTL DEF MasterSpec
-----------------------------------------------------------------------------
(***************************************************************************)
(* Locks: deadlock freedom of a worker's mutexes, for any number of pool   *)
(* threads and connections.  The mutexes under which a second one is asked *)
(* for (Outer) are not among those asked for while another is held         *)
(* (Inner), so that a thread that waits holds an outer one and waits for   *)
(* an inner one, whose holder waits for nothing.                           *)
(***************************************************************************)

Outer == {recyQueueMutex} \cup LogicMutexes
Inner == {connectionMutex, sendQueueMutex}

\* The mutexes are different things.
LEMMA MutexesDiffer ==
  /\ NoMutex \notin Mutexes /\ Outer \cap Inner = {}
  /\ Outer \subseteq Mutexes /\ Inner \subseteq Mutexes
BY DEF NoMutex, Mutexes, Outer, Inner, LogicMutexes, logicPorcMutex, pthreadMutex,
       sendQueueMutex, connectionMutex, recyQueueMutex

\* What a thread may ask for depends on what it holds.
LEMMA AskNested ==
  ASSUME NEW t \in Threads, NEW m \in Mutexes, Ask(t, m)
  PROVE  \/ held[t] = <<>>
         \/ \E outer \in Outer : held[t] = <<outer>> /\ m \in Inner
<1>1. CASE m \in MainAsks(held[t])
  BY <1>1 DEF MainAsks
<1>2. CASE m \in SendAsks(held[t])
  BY <1>2 DEF SendAsks
<1>3. CASE m \in RecyclerAsks(held[t])
  BY <1>3 DEF RecyclerAsks, Outer, Inner
<1>4. CASE m \in PoolAsks(held[t])
  BY <1>4 DEF PoolAsks, Outer, Inner
<1>. QED  BY <1>1, <1>2, <1>3, <1>4 DEF Ask

\* A stack with one mutex more.
LEMMA AppendToStack ==
  ASSUME NEW m \in Mutexes, NEW n \in Mutexes
  PROVE  Append(<<>>, m) = <<m>> /\ Append(<<m>>, n) = <<m, n>>
<1>1. /\ <<>> \in Seq(Mutexes) /\ Len(<<>>) = 0
      /\ <<m>> \in Seq(Mutexes) /\ Len(<<m>>) = 1 /\ <<m>>[1] = m
      /\ <<m, n>> \in Seq(Mutexes) /\ Len(<<m, n>>) = 2
      /\ <<m, n>>[1] = m /\ <<m, n>>[2] = n
  OBVIOUS
<1>2. Append(<<>>, m) = <<m>>
  <2>1. /\ Append(<<>>, m) \in Seq(Mutexes) /\ Len(Append(<<>>, m)) = 1
        /\ Append(<<>>, m)[1] = m
    BY <1>1, AppendProperties
  <2>. QED  BY <1>1, <2>1, SeqEqual
<1>3. Append(<<m>>, n) = <<m, n>>
  <2>1. /\ Append(<<m>>, n) \in Seq(Mutexes) /\ Len(Append(<<m>>, n)) = 2
        /\ Append(<<m>>, n)[1] = m /\ Append(<<m>>, n)[2] = n
    BY <1>1, AppendProperties
  <2>2. \A k \in 1..Len(Append(<<m>>, n)) : Append(<<m>>, n)[k] = <<m, n>>[k]
    <3>1. \A k \in 1..2 : k = 1 \/ k = 2
      OBVIOUS
    <3>. QED  BY <1>1, <2>1, <3>1
  <2>3. Len(Append(<<m>>, n)) = Len(<<m, n>>)
    BY <1>1, <2>1
  <2>. QED  BY <1>1, <2>1, <2>2, <2>3, SeqEqual, Zenon
<1>. QED  BY <1>2, <1>3

\* A stack without its top.
LEMMA FrontOfStack ==
  ASSUME NEW m \in Mutexes, NEW n \in Mutexes
  PROVE  Front(<<m>>) = <<>> /\ Front(<<m, n>>) = <<m>>
<1>1. Front(<<m>>) = <<>>
  BY SubSeqEmpty DEF Front
<1>2. Front(<<m, n>>) = <<m>>
  <2>1. /\ SubSeq(<<m, n>>, 1, 1) \in Seq(Mutexes) /\ Len(SubSeq(<<m, n>>, 1, 1)) = 1
        /\ SubSeq(<<m, n>>, 1, 1)[1] = m
    BY SubSeqProperties
  <2>2. Len(<<m, n>>) - 1 = 1 /\ <<m>> \in Seq(Mutexes) /\ Len(<<m>>) = 1 /\ <<m>>[1] = m
    OBVIOUS
  <2>3. SubSeq(<<m, n>>, 1, 1) = <<m>>
    <3>1. \A k \in 1..Len(SubSeq(<<m, n>>, 1, 1)) : SubSeq(<<m, n>>, 1, 1)[k] = <<m>>[k]
      <4>1. \A k \in 1..1 : k = 1
        OBVIOUS
      <4>. QED  BY <2>1, <2>2, <4>1
    <3>2. Len(SubSeq(<<m, n>>, 1, 1)) = Len(<<m>>)
      BY <2>1, <2>2
    <3>. QED  BY <2>1, <2>2, <3>1, <3>2, SeqEqual, Zenon
  <2>. QED  BY <2>2, <2>3 DEF Front
<1>. QED  BY <1>1, <1>2

\* The mutexes in a stack.
LEMMA RangeOfEmpty == Range(<<>>) = {}
BY DEF Range

LEMMA RangeOfStack ==
  ASSUME NEW m \in Mutexes, NEW n \in Mutexes
  PROVE  Range(<<>>) = {} /\ Range(<<m>>) = {m} /\ Range(<<m, n>>) = {m, n}
BY DEF Range
-----------------------------------------------------------------------------
(* The inductive invariant *)

\* The stack of a thread has two mutexes at most, an outer and an inner one, and
\* a thread with one asks for an inner one.
Shape(stack, wanted) ==
  \/ stack = <<>>
  \/ \E m \in Mutexes : stack = <<m>>
                        /\ (wanted # NoMutex => m \in Outer /\ wanted \in Inner)
  \/ \E m \in Outer, n \in Inner : stack = <<m, n>> /\ wanted = NoMutex

LocksIInv ==
  /\ LocksTypeOK
  /\ \A t \in Threads : Shape(held[t], want[t])

\* A thread that asks.
LEMMA AskStep ==
  ASSUME LocksIInv, NEW t \in Threads, NEW m \in Mutexes, Ask(t, m)
  PROVE  LocksIInv'
<1>1. LocksTypeOK'
  BY DEF LocksIInv, LocksTypeOK, Ask, Holds
<1>2. ASSUME NEW u \in Threads PROVE Shape(held[u], want[u])'
  <2>1. CASE u = t
    <3>1. held' = held /\ want'[u] = m
      BY <2>1 DEF Ask, LocksIInv, LocksTypeOK
    <3>2. CASE held[u] = <<>>
      BY <3>1, <3>2 DEF Shape
    <3>3. ASSUME NEW outer \in Outer, held[t] = <<outer>>, m \in Inner
          PROVE  Shape(held[u], want[u])'
      BY <2>1, <3>1, <3>3, MutexesDiffer DEF Shape
    <3>. QED  BY <2>1, <3>2, <3>3, AskNested
  <2>2. CASE u # t
    <3>1. held'[u] = held[u] /\ want'[u] = want[u]
      BY <2>2 DEF Ask, LocksIInv, LocksTypeOK
    <3>. QED  BY <3>1 DEF LocksIInv, Shape
  <2>. QED  BY <2>1, <2>2
<1>. QED  BY <1>1, <1>2 DEF LocksIInv

\* A thread that gets what it asked for: nobody else holds it.
LEMMA LockStep ==
  ASSUME LocksIInv, NEW t \in Threads, Lock(t)
  PROVE  LocksIInv'
<1> DEFINE m == want[t]
<1>1. /\ m \in Mutexes /\ m # NoMutex /\ Free(m)
      /\ held' = [held EXCEPT ![t] = Append(held[t], m)]
      /\ want' = [want EXCEPT ![t] = NoMutex]
  BY DEF LocksIInv, LocksTypeOK, Lock
<1>2. /\ held'[t] = Append(held[t], m) /\ want'[t] = NoMutex
      /\ \A u \in Threads \ {t} : held'[u] = held[u] /\ want'[u] = want[u]
  BY <1>1 DEF LocksIInv, LocksTypeOK
<1>3. \/ held[t] = <<>> /\ held'[t] = <<m>>
      \/ \E outer \in Outer : held[t] = <<outer>> /\ held'[t] = <<outer, m>> /\ m \in Inner
  <2>1. CASE held[t] = <<>>
    BY <1>1, <1>2, <2>1, AppendToStack
  <2>2. ASSUME NEW outer \in Mutexes, held[t] = <<outer>>, outer \in Outer /\ m \in Inner
        PROVE  \E o \in Outer : held[t] = <<o>> /\ held'[t] = <<o, m>> /\ m \in Inner
    <3>1. held'[t] = <<outer, m>>
      BY <1>1, <1>2, <2>2, AppendToStack
    <3>. QED  BY <2>2, <3>1
  <2>. QED  BY <1>1, <2>1, <2>2 DEF LocksIInv, Shape
<1>4. ASSUME NEW u \in Threads PROVE Shape(held[u], want[u])'
  <2>1. CASE u = t
    BY <1>1, <1>2, <1>3, <2>1 DEF Shape
  <2>2. CASE u # t
    BY <1>2, <2>2 DEF LocksIInv, Shape
  <2>. QED  BY <2>1, <2>2
<1>5. Range(held'[t]) = Range(held[t]) \cup {m}
  <2>1. CASE held[t] = <<>> /\ held'[t] = <<m>>
    <3>1. Range(held[t]) = {} /\ Range(held'[t]) = {m}
      BY <1>1, <2>1, RangeOfStack
    <3>. QED  BY <3>1
  <2>2. ASSUME NEW outer \in Outer, held[t] = <<outer>>, held'[t] = <<outer, m>>
        PROVE  Range(held'[t]) = Range(held[t]) \cup {m}
    <3>1. Range(held[t]) = {outer} /\ Range(held'[t]) = {outer, m}
      BY <1>1, <2>2, RangeOfStack, MutexesDiffer
    <3>. QED  BY <3>1
  <2>. QED  BY <1>3, <2>1, <2>2
<1>6. LocksTypeOK'
  <2>1. held' \in [Threads -> Seq(Mutexes)] /\ want' \in [Threads -> Mutexes \cup {NoMutex}]
    BY <1>1, AppendProperties DEF LocksIInv, LocksTypeOK
  <2>2. ASSUME NEW u \in Threads, NEW v \in Threads, NEW n \in Mutexes,
               Holds(u, n)', Holds(v, n)'
        PROVE  u = v
    BY <1>1, <1>2, <1>5, <2>2 DEF Holds, Free, LocksIInv, LocksTypeOK
  <2>. QED  BY <2>1, <2>2 DEF LocksTypeOK
<1>. QED  BY <1>4, <1>6 DEF LocksIInv

\* A thread that leaves its innermost critical section.
LEMMA UnlockStep ==
  ASSUME LocksIInv, NEW t \in Threads, Unlock(t)
  PROVE  LocksIInv'
<1>1. /\ want[t] = NoMutex /\ held[t] # <<>>
      /\ held' = [held EXCEPT ![t] = Front(held[t])] /\ want' = want
  BY DEF Unlock
<1>2. /\ held'[t] = Front(held[t])
      /\ \A u \in Threads \ {t} : held'[u] = held[u]
  BY <1>1 DEF LocksIInv, LocksTypeOK
<1>3. \/ \E m \in Mutexes : held[t] = <<m>> /\ held'[t] = <<>>
      \/ \E m \in Outer, n \in Inner : held[t] = <<m, n>> /\ held'[t] = <<m>>
  <2>1. ASSUME NEW m \in Mutexes, held[t] = <<m>>
        PROVE  held'[t] = <<>>
    BY <1>2, <2>1, FrontOfStack
  <2>2. ASSUME NEW m \in Outer, NEW n \in Inner, held[t] = <<m, n>>
        PROVE  held'[t] = <<m>>
    BY <1>2, <2>2, FrontOfStack, MutexesDiffer
  <2>. QED  BY <1>1, <2>1, <2>2 DEF LocksIInv, Shape
<1>4. ASSUME NEW u \in Threads PROVE Shape(held[u], want[u])'
  <2>1. CASE u = t
    BY <1>1, <1>3, <2>1, MutexesDiffer DEF Shape
  <2>2. CASE u # t
    BY <1>1, <1>2, <2>2 DEF LocksIInv, Shape
  <2>. QED  BY <2>1, <2>2
<1>5. Range(held'[t]) \subseteq Range(held[t]) /\ held'[t] \in Seq(Mutexes)
  <2>1. ASSUME NEW m \in Mutexes, held[t] = <<m>>, held'[t] = <<>>
        PROVE  Range(held'[t]) = {} /\ held'[t] \in Seq(Mutexes)
    <3>1. <<>> \in Seq(Mutexes)
      OBVIOUS
    <3>. QED  BY <2>1, <3>1, RangeOfEmpty
  <2>2. ASSUME NEW m \in Outer, NEW n \in Inner, held[t] = <<m, n>>, held'[t] = <<m>>
        PROVE  /\ Range(held'[t]) = {m} /\ Range(held[t]) = {m, n}
               /\ held'[t] \in Seq(Mutexes)
    BY <2>2, RangeOfStack, MutexesDiffer
  <2>. QED  BY <1>3, <2>1, <2>2
<1>6. LocksTypeOK'
  <2>1. held' \in [Threads -> Seq(Mutexes)] /\ want' \in [Threads -> Mutexes \cup {NoMutex}]
    BY <1>1, <1>2, <1>5 DEF LocksIInv, LocksTypeOK
  <2>2. ASSUME NEW u \in Threads, NEW v \in Threads, NEW n \in Mutexes,
               Holds(u, n)', Holds(v, n)'
        PROVE  u = v
    BY <1>2, <1>5, <2>2 DEF Holds, LocksIInv, LocksTypeOK
  <2>. QED  BY <2>1, <2>2 DEF LocksTypeOK
<1>. QED  BY <1>4, <1>6 DEF LocksIInv

\* Every step of every thread keeps the nesting.
LEMMA LocksInductive == LocksSpec => []LocksIInv
<1>1. LocksInit => LocksIInv
  <2>. SUFFICES ASSUME LocksInit PROVE LocksIInv
    OBVIOUS
  <2>1. \A t \in Threads : held[t] = <<>> /\ want[t] = NoMutex
    BY DEF LocksInit
  <2>2. \A t \in Threads, m \in Mutexes : ~Holds(t, m)
    BY <2>1, RangeOfStack DEF Holds
  <2>3. held \in [Threads -> Seq(Mutexes)] /\ want \in [Threads -> Mutexes \cup {NoMutex}]
    BY DEF LocksInit
  <2>. QED  BY <2>1, <2>2, <2>3 DEF LocksIInv, LocksTypeOK, Shape
<1>2. LocksIInv /\ [LocksNext]_lockVars => LocksIInv'
  <2>. SUFFICES ASSUME LocksIInv, [LocksNext]_lockVars PROVE LocksIInv'
    OBVIOUS
  <2>1. CASE UNCHANGED lockVars
    BY <2>1 DEF LocksIInv, LocksTypeOK, Holds, Shape, lockVars
  <2>. QED  BY <2>1, AskStep, LockStep, UnlockStep DEF LocksNext
<1>. QED  BY <1>1, <1>2, PTL DEF LocksSpec

\* The stacks and requests keep their types, and no mutex ever has two holders.
THEOREM LocksTypeCorrect == LocksSpec => []LocksTypeOK
<1>1. LocksIInv => LocksTypeOK
  BY DEF LocksIInv
<1>. QED  BY <1>1, LocksInductive, PTL

\* The mutexes of a worker cannot deadlock.  If every thread of a set waited for
\* another, one of them would hold an inner mutex while it waits, and a thread
\* that waits holds at most an outer one.
THEOREM DeadlockFree == LocksSpec => []NoCircularWait
<1>1. LocksIInv => NoCircularWait
  <2>. SUFFICES ASSUME LocksIInv, NEW waiting \in SUBSET Threads, NEW t \in waiting,
                       \A u \in waiting : \E v \in waiting : Holds(v, want[u])
                PROVE  FALSE
    BY DEF NoCircularWait
  <2>1. ASSUME NEW u \in waiting, NEW v \in waiting, Holds(v, want[u])
        PROVE  want[u] \in Mutexes /\ (want[v] # NoMutex => want[u] \in Outer /\ want[v] \in Inner)
    <3>1. want[u] \in Range(held[v]) /\ Shape(held[v], want[v])
      BY <2>1 DEF Holds, LocksIInv
    <3>2. held[v] # <<>>
      BY <3>1, RangeOfEmpty
    <3>3. ASSUME NEW m \in Mutexes, held[v] = <<m>>,
                 want[v] # NoMutex => m \in Outer /\ want[v] \in Inner
          PROVE  want[u] = m
      BY <3>1, <3>3, RangeOfStack
    <3>4. ASSUME NEW m \in Outer, NEW n \in Inner, held[v] = <<m, n>>
          PROVE  want[u] \in {m, n}
      BY <3>1, <3>4, RangeOfStack, MutexesDiffer
    <3>. QED  BY <3>1, <3>2, <3>3, <3>4, MutexesDiffer DEF Shape
  <2>2. \A u \in waiting : want[u] \in Mutexes /\ want[u] # NoMutex
    BY <2>1, MutexesDiffer
  <2>3. PICK u \in waiting : Holds(u, want[t])
    OBVIOUS
  <2>4. want[u] \in Inner
    BY <2>1, <2>2, <2>3
  <2>5. PICK v \in waiting : Holds(v, want[u])
    OBVIOUS
  <2>6. want[u] \in Outer
    BY <2>1, <2>2, <2>5
  <2>. QED  BY <2>4, <2>6, MutexesDiffer
<1>. QED  BY <1>1, LocksInductive, PTL
=============================================================================
