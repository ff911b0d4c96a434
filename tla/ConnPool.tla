------------------------------ MODULE ConnPool ------------------------------
(***************************************************************************)
(* The connection pool of a worker process (net/ngx_c_socket_conn.cxx) and *)
(* the code around it: ngx_event_accept takes connections out of it,       *)
(* recvproc closes sockets and queues their connections for recycling, and *)
(* ServerRecyConnectionThread puts them back once they have waited         *)
(* m_RecyConnectionWaitTime seconds.                                       *)
(*                                                                         *)
(* The wait is there for the other threads.  A message carries a pointer   *)
(* to its connection and the sequence number the connection had when the   *)
(* message was received.  The send thread and the pool threads compare     *)
(* that number with iCurrsequence, without a lock, and then go on using    *)
(* the connection.                                                         *)
(*                                                                         *)
(* A connection is identified by its rank in m_connectionList.  Nothing in *)
(* the repository sets g_stopEvent: it is 0, and the branches it guards    *)
(* are left out.                                                           *)
(***************************************************************************)
EXTENDS Naturals, Sequences, FiniteSets, SequencesExt

CONSTANTS
  WorkerConnections,       \* m_worker_connections
  ListenPortCount,         \* m_ListenPortCount
  RecyConnectionWaitTime,  \* m_RecyConnectionWaitTime, in ticks of time()
  Users,                   \* the send thread and the pool threads
  MaxBurst,                \* ticks a thread may take from test to last use
  NumFds,                  \* descriptors the process may have for clients
  MaxAccepts,              \* bound on the clients that connect
  MaxTime                  \* bound on the time

\* MaxBurst < RecyConnectionWaitTime is what the design relies on: no thread
\* takes as long to handle one message as a connection waits in the queue.
ASSUME ConnPoolAssumption ==
  /\ WorkerConnections \in Nat /\ ListenPortCount \in 0..WorkerConnections
  /\ RecyConnectionWaitTime \in Nat /\ MaxBurst \in Nat
  /\ MaxBurst < RecyConnectionWaitTime
  /\ IsFiniteSet(Users)
  /\ NumFds \in Nat /\ MaxAccepts \in Nat /\ MaxTime \in Nat

Conns == 1..(WorkerConnections + MaxAccepts)
Listeners == 1..ListenPortCount
Fds == 1..NumFds
Clients == 1..MaxAccepts

VARIABLES
  m_total_connection_n,     \* length of m_connectionList
  m_freeconnectionList,
  m_free_connection_n,
  m_recyconnectionList,
  m_totol_recyconnection_n,
  iCurrsequence,            \* of each connection, as the next two
  fd,
  inRecyTime,
  mainpc,                   \* where the event loop is
  newc,                     \* the connection it is working on, or 0
  recypc,                   \* where ServerRecyConnectionThread is
  currtime,                 \* its currtime, 0 when it is not scanning
  now,                      \* time(NULL)
  open,                     \* kernel: the client behind each descriptor, or 0
  registered,               \* kernel: client connections in the epoll set
  accepted,                 \* history: clients accepted; a client is its rank
  client,                   \* history: the client of each connection, or 0
  headers,                  \* message headers received so far
  using                     \* the connection each user works on, if any

loopVars == <<mainpc, newc>>
recyThreadVars == <<recypc, currtime>>
freeVars == <<m_freeconnectionList, m_free_connection_n>>
recyVars == <<m_recyconnectionList, m_totol_recyconnection_n, inRecyTime>>
kernelVars == <<open, registered>>
userVars == <<headers, using>>

vars == <<loopVars, recyThreadVars, freeVars, recyVars, kernelVars, userVars,
          m_total_connection_n, iCurrsequence, fd, now, accepted, client>>

\* initconnection() and the loop of ngx_epoll_init() that gives the first
\* connections to the listening sockets: GetOneToUse() has run once for each
\* connection, and twice for the listening ones.
Init ==
  /\ m_total_connection_n = WorkerConnections
  /\ m_freeconnectionList =
       [i \in 1..(WorkerConnections - ListenPortCount) |-> ListenPortCount + i]
  /\ m_free_connection_n = WorkerConnections - ListenPortCount
  /\ m_recyconnectionList = <<>>
  /\ m_totol_recyconnection_n = 0
  /\ iCurrsequence = [c \in Conns |-> IF c \in Listeners THEN 2
                                      ELSE IF c <= WorkerConnections THEN 1
                                      ELSE 0]
  /\ fd = [c \in Conns |-> 0]
  /\ inRecyTime = [c \in Conns |-> 0]
  /\ mainpc = "wait"
  /\ newc = 0
  /\ recypc = "sleep"
  /\ currtime = 0
  /\ now = 0
  /\ open = [f \in Fds |-> 0]
  /\ registered = {}
  /\ accepted = 0
  /\ client = [c \in Conns |-> 0]
  /\ headers = {}
  /\ using = [u \in Users |-> {}]

-----------------------------------------------------------------------------
(* The event loop. *)

\* accept4() returns the lowest free descriptor.
FreeFds == {f \in Fds : open[f] = 0}

\* What ngx_get_connection() does with the connection c it has chosen.
Bind(c, s) ==
  /\ iCurrsequence' = [iCurrsequence EXCEPT ![c] = @ + 1]
  /\ fd' = [fd EXCEPT ![c] = s]
  /\ client' = [client EXCEPT ![c] = accepted + 1]
  /\ open' = [open EXCEPT ![s] = accepted + 1]
  /\ accepted' = accepted + 1
  /\ newc' = c
  /\ mainpc' = "add"

\* Mutant of Accept: the free connections are counted down in both branches.
AcceptMiscounts ==
  /\ mainpc = "wait"
  /\ accepted < MaxAccepts
  /\ \E s \in FreeFds :
       /\ \A f \in FreeFds : s <= f
       /\ m_free_connection_n' = m_free_connection_n - 1
       /\ \/ /\ m_freeconnectionList # <<>>
             /\ Bind(Head(m_freeconnectionList), s)
             /\ m_freeconnectionList' = Tail(m_freeconnectionList)
             /\ UNCHANGED m_total_connection_n
          \/ /\ m_freeconnectionList = <<>>
             /\ Bind(m_total_connection_n + 1, s)
             /\ m_total_connection_n' = m_total_connection_n + 1
             /\ UNCHANGED m_freeconnectionList
  /\ UNCHANGED <<recyVars, recyThreadVars, registered, userVars, now>>

\* ngx_event_accept() up to ngx_get_connection(), which takes the front of the
\* free list, or allocates a connection when the list is empty.
Accept ==
  /\ mainpc = "wait"
  /\ accepted < MaxAccepts
  /\ \E s \in FreeFds :
       /\ \A f \in FreeFds : s <= f
       /\ \/ /\ m_freeconnectionList # <<>>
             /\ Bind(Head(m_freeconnectionList), s)
             /\ m_freeconnectionList' = Tail(m_freeconnectionList)
             /\ m_free_connection_n' = m_free_connection_n - 1
             /\ UNCHANGED m_total_connection_n
          \/ /\ m_freeconnectionList = <<>>
             /\ Bind(m_total_connection_n + 1, s)
             /\ m_total_connection_n' = m_total_connection_n + 1
             /\ UNCHANGED freeVars
  /\ UNCHANGED <<recyVars, recyThreadVars, registered, userVars, now>>

\* epoll_ctl(EPOLL_CTL_ADD) succeeds.
AddToEpoll ==
  /\ mainpc = "add"
  /\ registered' = registered \cup {newc}
  /\ mainpc' = "wait"
  /\ newc' = 0
  /\ UNCHANGED <<freeVars, recyVars, recyThreadVars, userVars, open,
                 m_total_connection_n, iCurrsequence, fd, now, accepted,
                 client>>

\* ngx_free_connection(): PutOneToFree(), push_back and the counter, under
\* m_connectionMutex.
FreeConnection(c) ==
  /\ iCurrsequence' = [iCurrsequence EXCEPT ![c] = @ + 1]
  /\ m_freeconnectionList' = Append(m_freeconnectionList, c)
  /\ m_free_connection_n' = m_free_connection_n + 1
  /\ client' = [client EXCEPT ![c] = 0]

\* Mutant of AddFails: the descriptor is closed, the connection is not freed.
AddFailsLeaks ==
  /\ mainpc = "add"
  /\ mainpc' = "close"
  /\ UNCHANGED <<newc, freeVars, recyVars, recyThreadVars, kernelVars, userVars,
                 m_total_connection_n, iCurrsequence, fd, now, accepted,
                 client>>

\* epoll_ctl(EPOLL_CTL_ADD) fails and ngx_close_connection() is called.  It
\* frees the connection before it closes the descriptor.
AddFails ==
  /\ mainpc = "add"
  /\ FreeConnection(newc)
  /\ mainpc' = "close"
  /\ UNCHANGED <<newc, recyVars, recyThreadVars, kernelVars, userVars,
                 m_total_connection_n, fd, now, accepted>>

\* Mutant of CloseNew: the descriptor is not closed.
CloseNewForgotten ==
  /\ mainpc = "close"
  /\ mainpc' = "wait"
  /\ newc' = 0
  /\ UNCHANGED <<freeVars, recyVars, recyThreadVars, userVars, kernelVars,
                 m_total_connection_n, iCurrsequence, fd, now, accepted,
                 client>>

CloseNew ==
  /\ mainpc = "close"
  /\ open' = [open EXCEPT ![fd[newc]] = 0]
  /\ mainpc' = "wait"
  /\ newc' = 0
  /\ UNCHANGED <<freeVars, recyVars, recyThreadVars, userVars,
                 registered, m_total_connection_n, iCurrsequence, fd, now,
                 accepted, client>>

\* recvproc() meets the end of the stream or an error and closes the socket,
\* which takes it out of the epoll set.
RecvEnd(c) ==
  /\ mainpc = "wait"
  /\ c \in registered
  /\ open' = [open EXCEPT ![fd[c]] = 0]
  /\ registered' = registered \ {c}
  /\ newc' = c
  /\ mainpc' = "recy"
  /\ UNCHANGED <<freeVars, recyVars, recyThreadVars, userVars,
                 m_total_connection_n, iCurrsequence, fd, now, accepted,
                 client>>

\* Mutant of InRecyConnectQueue: iCurrsequence is not changed.
InRecyConnectQueueSameSequence ==
  /\ mainpc = "recy"
  /\ recypc # "scan"
  /\ inRecyTime' = [inRecyTime EXCEPT ![newc] = now]
  /\ m_recyconnectionList' = Append(m_recyconnectionList, newc)
  /\ m_totol_recyconnection_n' = m_totol_recyconnection_n + 1
  /\ mainpc' = "wait"
  /\ newc' = 0
  /\ UNCHANGED <<freeVars, recyThreadVars, kernelVars, userVars, iCurrsequence,
                 m_total_connection_n, fd, now, accepted, client>>

\* inRecyConnectQueue(), under m_recyconnqueueMutex.
InRecyConnectQueue ==
  /\ mainpc = "recy"
  /\ recypc # "scan"
  /\ inRecyTime' = [inRecyTime EXCEPT ![newc] = now]
  /\ iCurrsequence' = [iCurrsequence EXCEPT ![newc] = @ + 1]
  /\ m_recyconnectionList' = Append(m_recyconnectionList, newc)
  /\ m_totol_recyconnection_n' = m_totol_recyconnection_n + 1
  /\ mainpc' = "wait"
  /\ newc' = 0
  /\ UNCHANGED <<freeVars, recyThreadVars, kernelVars, userVars,
                 m_total_connection_n, fd, now, accepted, client>>

\* ngx_wait_request_handler_proc_p1(): a message is received and its header
\* filled in.  A reply is sent with a copy of the same header.
ReceiveMessage(c) ==
  /\ mainpc = "wait"
  /\ c \in registered
  /\ headers' = headers \cup {[pConn |-> c, iCurrsequence |-> iCurrsequence[c],
                               client |-> client[c]]}
  /\ UNCHANGED <<loopVars, freeVars, recyVars, recyThreadVars, kernelVars,
                 using, m_total_connection_n, iCurrsequence, fd, now, accepted,
                 client>>

LoopStep ==
  \/ Accept \/ AddToEpoll \/ AddFails \/ CloseNew \/ InRecyConnectQueue
  \/ \E c \in Conns : RecvEnd(c) \/ ReceiveMessage(c)

-----------------------------------------------------------------------------
(* ServerRecyConnectionThread. *)

\* Mutant of RecyWake: a queue of one connection is taken for an empty one.
RecyWakeOffByOne ==
  /\ recypc = "sleep"
  /\ m_totol_recyconnection_n > 1
  /\ currtime' = now
  /\ recypc' = "lock"
  /\ UNCHANGED <<loopVars, freeVars, recyVars, kernelVars, userVars,
                 m_total_connection_n, iCurrsequence, fd, now, accepted,
                 client>>

\* usleep() is over and the counter, read without the mutex, is not 0.
RecyWake ==
  /\ recypc = "sleep"
  /\ m_totol_recyconnection_n > 0
  /\ currtime' = now
  /\ recypc' = "lock"
  /\ UNCHANGED <<loopVars, freeVars, recyVars, kernelVars, userVars,
                 m_total_connection_n, iCurrsequence, fd, now, accepted,
                 client>>

RecyLock ==
  /\ recypc = "lock"
  /\ recypc' = "scan"
  /\ UNCHANGED <<loopVars, currtime, freeVars, recyVars, kernelVars, userVars,
                 m_total_connection_n, iCurrsequence, fd, now, accepted,
                 client>>

\* Mutant of Expired: the wait is not added.
ExpiredAtOnce(c) == inRecyTime[c] <= currtime

\* The test that keeps a connection in the queue, negated.
Expired(c) == inRecyTime[c] + RecyConnectionWaitTime <= currtime

\* One round from lblRRTD that ends in goto lblRRTD: the first connection that
\* has waited long enough leaves the queue and goes back to the free list.
RecyFree ==
  /\ recypc = "scan"
  /\ \E i \in 1..Len(m_recyconnectionList) :
       /\ Expired(m_recyconnectionList[i])
       /\ \A j \in 1..(i - 1) : ~Expired(m_recyconnectionList[j])
       /\ m_totol_recyconnection_n' = m_totol_recyconnection_n - 1
       /\ m_recyconnectionList' = RemoveAt(m_recyconnectionList, i)
       /\ FreeConnection(m_recyconnectionList[i])
  /\ UNCHANGED <<loopVars, recyThreadVars, inRecyTime, kernelVars, userVars,
                 m_total_connection_n, fd, now, accepted>>

\* The last round finds nothing to free.
RecyUnlock ==
  /\ recypc = "scan"
  /\ \A i \in 1..Len(m_recyconnectionList) : ~Expired(m_recyconnectionList[i])
  /\ recypc' = "sleep"
  /\ currtime' = 0
  /\ UNCHANGED <<loopVars, freeVars, recyVars, kernelVars, userVars,
                 m_total_connection_n, iCurrsequence, fd, now, accepted,
                 client>>

RecyStep == RecyWake \/ RecyLock \/ RecyFree \/ RecyUnlock

-----------------------------------------------------------------------------
(* The threads that have messages of a connection, and the clock. *)

Borrowed(h, since) == [pConn |-> h.pConn, client |-> h.client, since |-> since]

\* threadRecvProcFunc() or ServerSendQueueThread() finds that iCurrsequence is
\* the one in the header; the use of the connection begins.
Validate(u, h) ==
  /\ using[u] = {}
  /\ iCurrsequence[h.pConn] = h.iCurrsequence
  /\ using' = [using EXCEPT ![u] = {Borrowed(h, now)}]
  /\ UNCHANGED <<loopVars, freeVars, recyVars, recyThreadVars, kernelVars,
                 headers, m_total_connection_n, iCurrsequence, fd, now,
                 accepted, client>>

DoneUsing(u) ==
  /\ using[u] # {}
  /\ using' = [using EXCEPT ![u] = {}]
  /\ UNCHANGED <<loopVars, freeVars, recyVars, recyThreadVars, kernelVars,
                 headers, m_total_connection_n, iCurrsequence, fd, now,
                 accepted, client>>

\* The clock advances, but not past what MaxBurst allows a thread.
Tick ==
  /\ now < MaxTime
  /\ \A u \in Users : \A b \in using[u] : now < b.since + MaxBurst
  /\ now' = now + 1
  /\ UNCHANGED <<loopVars, freeVars, recyVars, recyThreadVars, kernelVars,
                 userVars, m_total_connection_n, iCurrsequence, fd, accepted,
                 client>>

Next ==
  \/ LoopStep
  \/ RecyStep
  \/ \E u \in Users : DoneUsing(u) \/ \E h \in headers : Validate(u, h)
  \/ Tick

Spec == Init /\ [][Next]_vars

\* Time passes, the recycling thread is scheduled, and a thread that uses a
\* connection comes to the end of its use.
Fairness ==
  /\ WF_vars(RecyStep)
  /\ WF_vars(Tick)
  /\ \A u \in Users : WF_vars(DoneUsing(u))

FairSpec == Spec /\ Fairness
-----------------------------------------------------------------------------
(* Correctness *)

Headers == [pConn : Conns, iCurrsequence : Nat, client : Clients]
Uses == [pConn : Conns, client : Clients, since : 0..MaxTime]

\* Types of the pool's fields, of the threads' places and of the kernel's
\* tables.
TypeOK ==
  /\ m_total_connection_n \in WorkerConnections..(WorkerConnections + MaxAccepts)
  /\ m_freeconnectionList \in Seq(Conns)
  /\ m_free_connection_n \in Nat
  /\ m_recyconnectionList \in Seq(Conns)
  /\ m_totol_recyconnection_n \in Nat
  /\ iCurrsequence \in [Conns -> Nat]
  /\ fd \in [Conns -> Fds \cup {0}]
  /\ inRecyTime \in [Conns -> 0..MaxTime]
  /\ mainpc \in {"wait", "add", "close", "recy"}
  /\ newc \in Conns \cup {0}
  /\ recypc \in {"sleep", "lock", "scan"}
  /\ currtime \in 0..MaxTime
  /\ now \in 0..MaxTime
  /\ open \in [Fds -> Clients \cup {0}]
  /\ registered \subseteq Conns
  /\ accepted \in 0..MaxAccepts
  /\ client \in [Conns -> Clients \cup {0}]
  /\ headers \subseteq Headers
  /\ using \in [Users -> SUBSET Uses]

Free == Range(m_freeconnectionList)
Recycling == Range(m_recyconnectionList)

\* The connection the event loop has taken from a list and not yet put into
\* the epoll set, or out of it and not yet into a list.
InHand == IF mainpc \in {"add", "recy"} THEN {newc} ELSE {}

\* Every connection that has been allocated is in exactly one place, once, and
\* the two counters that the threads read without a lock are the lengths of
\* their lists whenever no thread is in the middle of an operation.  A
\* connection in two places would be leased twice, one in none would be lost.
PoolPartition ==
  /\ m_free_connection_n = Cardinality(Free)
  /\ m_free_connection_n = Len(m_freeconnectionList)
  /\ m_totol_recyconnection_n = Cardinality(Recycling)
  /\ m_totol_recyconnection_n = Len(m_recyconnectionList)
  /\ Listeners \cup Free \cup Recycling \cup registered \cup InHand =
       1..m_total_connection_n
  /\ ListenPortCount + Cardinality(Free) + Cardinality(Recycling)
       + Cardinality(registered) + Cardinality(InHand) = m_total_connection_n

\* The connections whose client has not been seen to leave.
Leased == registered \cup (IF mainpc = "recy" THEN {newc} ELSE {})

\* A header whose sequence number is the connection's belongs to the client
\* that has the connection now, and that client has not left: comparing
\* numbers is enough to recognise a message of an earlier client, although the
\* number is read without a lock and the connection has been reused.
HeaderFresh ==
  \A h \in headers :
    iCurrsequence[h.pConn] = h.iCurrsequence =>
      /\ client[h.pConn] = h.client
      /\ h.pConn \in Leased

\* Every descriptor that is open belongs to one connection that will close it,
\* and a connection in the epoll set has its own client behind its fd.
\* ngx_close_connection() uses pConn->fd after it has freed pConn.
FdOwned ==
  LET holders == registered
                   \cup (IF mainpc \in {"add", "close"} THEN {newc} ELSE {})
  IN  /\ \A f \in Fds :
           open[f] # 0 <=> \E c \in holders : fd[c] = f
      /\ \A c, d \in holders : fd[c] = fd[d] => c = d
      /\ \A c \in registered : open[fd[c]] = client[c]

\* The pool keeps the promise of LeasePool.  A thread that has compared the
\* sequence number can use the connection for MaxBurst ticks: it does not go
\* back to the free list, where PutOneToFree() would free its buffers.
Leases ==
  INSTANCE LeasePool
    WITH Conns <- Conns \ Listeners,
         Nobody <- 0,
         tenant <- [c \in Conns \ Listeners |-> client[c]],
         lease <- Leased,
         uses <- [u \in Users |-> {<<b.pConn, b.client>> : b \in using[u]}]
LeasesHold == Leases!Spec

\* A connection in the recycling queue goes back to the free list after it has
\* waited, if the time it waits for lies within the bound on the time.
RecycleEventually ==
  \A c \in Conns :
    (c \in Recycling /\ inRecyTime[c] + RecyConnectionWaitTime <= MaxTime)
      ~> (c \notin Recycling)

\* worker_connections is the "maximum number of clients by each worker
\* process" (nginx.conf:39), and a little less as some of its connections are
\* used as listening sockets (nginx.conf:40).
ClientLimit == Cardinality(registered) <= WorkerConnections

\* "only after this 'seconds' the system begins to recyle resouces and
\* connections" (nginx.conf:43): a thread that has compared the sequence number
\* finds the descriptor of its client behind fd, or a closed one, and never
\* the descriptor of another client.
NoCrossTalk ==
  \A u \in Users : \A b \in using[u] : open[fd[b.pConn]] \in {0, b.client}
=============================================================================
