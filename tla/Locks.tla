------------------------------- MODULE Locks -------------------------------
(***************************************************************************)
(* All mutexes of a worker and the threads that take them: which one a     *)
(* thread may ask for while it holds which others.  ThreadPool, ConnPool   *)
(* and SendQueue have what happens under each of them.                     *)
(***************************************************************************)
EXTENDS Naturals, Sequences, SequencesExt

CONSTANTS
  Main,           \* the thread of the event loop
  Send,           \* ServerSendQueueThread
  Recycler,       \* ServerRecyConnectionThread
  PoolThreads,    \* ThreadFunc
  Conns           \* the connections, each with a logicPorcMutex

Threads == {Main, Send, Recycler} \cup PoolThreads

pthreadMutex == <<"pool">>               \* m_pthreadMutex
sendQueueMutex == <<"sendQueue">>        \* m_sendMessageQueueMutex
connectionMutex == <<"connection">>      \* m_connectionMutex
recyQueueMutex == <<"recyQueue">>        \* m_recyconnqueueMutex
logicPorcMutex(c) == <<"logicPorc", c>>
LogicMutexes == {logicPorcMutex(c) : c \in Conns}
Mutexes == {pthreadMutex, sendQueueMutex, connectionMutex, recyQueueMutex} \cup LogicMutexes
NoMutex == <<>>

ASSUME LocksAssumption ==
  /\ Main # Send /\ Main # Recycler /\ Send # Recycler
  /\ {Main, Send, Recycler} \cap PoolThreads = {}

VARIABLES
  held,     \* the mutexes of each thread, the last one taken at the end
  want      \* the mutex each thread asks for

lockVars == <<held, want>>

LocksInit ==
  /\ held = [t \in Threads |-> <<>>]
  /\ want = [t \in Threads |-> NoMutex]
-----------------------------------------------------------------------------
\* Mutant of MainAsks: a connection is given to the recycler while the list of
\* connections is locked.
MainAsksNested(stack) ==
  IF stack = <<connectionMutex>> THEN {recyQueueMutex}
  ELSE IF stack = <<>> THEN {connectionMutex, recyQueueMutex, pthreadMutex} ELSE {}

\* Accepting or freeing a connection, giving one to the recycler, handing a
\* message to the pool.
MainAsks(stack) ==
  IF stack = <<>> THEN {connectionMutex, recyQueueMutex, pthreadMutex} ELSE {}

\* A pass over the messages is one critical section.
SendAsks(stack) == IF stack = <<>> THEN {sendQueueMutex} ELSE {}

\* ngx_free_connection is called with the queue of the recycler locked.
RecyclerAsks(stack) ==
  IF stack = <<>> THEN {recyQueueMutex}
  ELSE IF stack = <<recyQueueMutex>> THEN {connectionMutex} ELSE {}

\* A thread takes a job; its handler has the connection's mutex when it calls
\* msgSend.
PoolAsks(stack) ==
  IF stack = <<>> THEN {pthreadMutex} \cup LogicMutexes
  ELSE IF \E m \in LogicMutexes : stack = <<m>> THEN {sendQueueMutex} ELSE {}

Ask(t, m) ==
  /\ want[t] = NoMutex
  /\ \/ t = Main /\ m \in MainAsks(held[t])
     \/ t = Send /\ m \in SendAsks(held[t])
     \/ t = Recycler /\ m \in RecyclerAsks(held[t])
     \/ t \in PoolThreads /\ m \in PoolAsks(held[t])
  /\ want' = [want EXCEPT ![t] = m]
  /\ UNCHANGED held

Holds(t, m) == m \in Range(held[t])

\* Mutant of Free: the result of pthread_mutex_lock does not matter.
FreeAlways(m) == m \in Mutexes
Free(m) == \A t \in Threads : ~Holds(t, m)

Lock(t) ==
  /\ want[t] # NoMutex /\ Free(want[t])
  /\ held' = [held EXCEPT ![t] = Append(@, want[t])]
  /\ want' = [want EXCEPT ![t] = NoMutex]

Unlock(t) ==
  /\ want[t] = NoMutex /\ held[t] # <<>>
  /\ held' = [held EXCEPT ![t] = Front(@)]
  /\ UNCHANGED want

LocksNext ==
  \E t \in Threads :
    \/ Lock(t) \/ Unlock(t)
    \/ \E m \in Mutexes : Ask(t, m)

LocksSpec == LocksInit /\ [][LocksNext]_lockVars
-----------------------------------------------------------------------------
(* Correctness *)

\* No mutex has two holders.
LocksTypeOK ==
  /\ held \in [Threads -> Seq(Mutexes)]
  /\ want \in [Threads -> Mutexes \cup {NoMutex}]
  /\ \A t, u \in Threads, m \in Mutexes : Holds(t, m) /\ Holds(u, m) => t = u

\* There is no set of threads each of which waits for a mutex that one of them
\* holds: no thread waits for itself, none for another that waits for it.
NoCircularWait ==
  \A waiting \in SUBSET Threads :
    waiting # {} => \E t \in waiting : \A u \in waiting : ~Holds(u, want[t])
=============================================================================
