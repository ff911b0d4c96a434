-------------------------- MODULE ThreadPoolProofs --------------------------
(***************************************************************************)
(* Proofs about ThreadPool, for any number of threads and of jobs.         *)
(*                                                                         *)
(* The properties rest on one inductive invariant, IInv.  Its parts say    *)
(* who holds the mutex, what a thread that holds it knows about the queue, *)
(* which jobs are where, and which threads m_iRunningThreadNum counts.     *)
(***************************************************************************)
EXTENDS ThreadPool, SequenceTheorems, FiniteSetTheorems, TLAPS

\* A thread holds the mutex from the lock to the unlock or the wait.
MutexInv ==
  \A t \in Threads : m_pthreadMutex = t <=> pc[t] \in {"test", "wait", "decide"}

\* What the test of the wait condition found still holds after it.
TestInv ==
  \A t \in Threads :
    /\ pc[t] = "wait" => m_MsgRecvQueue = <<>>
    /\ pc[t] = "decide" => m_MsgRecvQueue # <<>> \/ m_shutdown

\* The counter is the length of the list, and the list holds the jobs that
\* have been submitted and not taken, oldest first.
QueueInv ==
  /\ m_iRecvMsgQueueCount = Len(m_MsgRecvQueue)
  /\ Len(m_MsgRecvQueue) <= submitted
  /\ \A i \in 1..Len(m_MsgRecvQueue) : m_MsgRecvQueue[i] = taken + i

\* A job that has been taken is in the hands of at most one thread.
JobInv ==
  /\ \A t \in Threads : /\ job[t] # 0 <=> pc[t] \in {"got", "run"}
                        /\ job[t] <= taken
  /\ \A t, u \in Threads : job[t] = job[u] /\ job[t] # 0 => t = u

\* m_iRunningThreadNum counts the threads between the two atomic updates.
CountInv == m_iRunningThreadNum = Cardinality(Counted)

StateInv ==
  /\ TypeOK
  /\ MutexInv
  /\ TestInv
  /\ QueueInv
  /\ JobInv
  /\ CountInv

IInv == StateInv /\ WorkConserving
-----------------------------------------------------------------------------
(* How the sets of threads the properties count change with a step. *)

\* A thread that goes to a label enters or leaves Counted, Awake and Blocked
\* according to that label, and no other thread does.
LEMMA GotoMovesOne ==
  ASSUME TypeOK, NEW t \in Threads, NEW l \in Labels, Goto(t, l)
  PROVE  /\ Counted' = IF l \in {"run", "ran"} THEN Counted \cup {t}
                       ELSE Counted \ {t}
         /\ Awake' = IF l \in {"lock", "test", "decide"} THEN Awake \cup {t}
                     ELSE Awake \ {t}
         /\ Blocked' = IF l = "blocked" THEN Blocked \cup {t}
                       ELSE Blocked \ {t}
         /\ pc' \in [Threads -> Labels]
BY DEF TypeOK, Goto, Counted, Awake, Blocked

\* They are finite sets of threads: their cardinalities are numbers.
LEMMA SetsAreFinite ==
  /\ IsFiniteSet(Threads) /\ Cardinality(Threads) \in Nat
  /\ IsFiniteSet(Counted) /\ Cardinality(Counted) \in Nat
  /\ IsFiniteSet(Awake) /\ Cardinality(Awake) \in Nat
<1>1. IsFiniteSet(Threads)
  BY PoolAssumption
<1>2. Counted \in SUBSET Threads /\ Awake \in SUBSET Threads
  BY DEF Counted, Awake
<1>3. IsFiniteSet(Counted) /\ IsFiniteSet(Awake)
  BY <1>1, <1>2, FS_Subset
<1> QED
  BY <1>1, <1>3, FS_CardinalityType
-----------------------------------------------------------------------------
(* The state invariant, one step per action. *)

LEMMA StateInvInit == Init => StateInv
<1> SUFFICES ASSUME Init PROVE StateInv
  OBVIOUS
<1>1. TypeOK
  <2>1. m_MsgRecvQueue \in Seq(Nat)
    BY EmptySeq DEF Init
  <2>2. ifrunning \in [Threads -> BOOLEAN] /\ m_shutdown \in BOOLEAN
    BY Zenon DEF Init
  <2> QED
    BY <2>1, <2>2, PoolAssumption DEF Init, TypeOK, Labels, MainLabels
<1>2. MutexInv /\ TestInv /\ QueueInv /\ JobInv
  BY PoolAssumption
     DEF Init, MutexInv, TestInv, QueueInv, JobInv, taken
<1>3. CountInv
  <2>1. Counted = {}
    BY DEF Init, Counted
  <2> QED
    BY <2>1, FS_EmptySet DEF Init, CountInv
<1> QED
  BY <1>1, <1>2, <1>3 DEF StateInv

\* A step that moves a thread to a label without counting it up or down.
LEMMA CountInvKept ==
  ASSUME StateInv, UNCHANGED m_iRunningThreadNum,
         NEW t \in Threads, NEW l \in Labels, Goto(t, l),
         pc[t] \in {"run", "ran"} <=> l \in {"run", "ran"}
  PROVE  CountInv'
<1>1. Counted' = Counted
  BY GotoMovesOne DEF StateInv, Counted
<1> QED
  BY <1>1 DEF StateInv, CountInv

\* The actions of a pool thread.
LEMMA StateInvThread ==
  ASSUME StateInv, NEW t \in Threads, ThreadStep(t) \/ SpuriousWakeup(t)
  PROVE  StateInv'
<1> USE DEF Goto, queueVars
<1> DEFINE Rest == TypeOK' /\ MutexInv' /\ TestInv' /\ QueueInv' /\ JobInv'
<1> USE PoolAssumption
<1>1. CASE Lock(t)
  <2>1. CountInv'
    BY <1>1, CountInvKept DEF Lock, Labels
  <2>2. Rest
    BY <1>1 DEF Lock, StateInv, TypeOK, Labels, MutexInv, TestInv, QueueInv,
                JobInv, taken
  <2> QED
    BY <2>1, <2>2 DEF StateInv
<1>2. CASE TestAndStay(t)
  <2>1. CountInv'
    BY <1>2, CountInvKept DEF TestAndStay, Labels
  <2>2. Rest
    BY <1>2 DEF TestAndStay, StateInv, TypeOK, Labels, MutexInv, TestInv,
                QueueInv, JobInv, taken
  <2> QED
    BY <2>1, <2>2 DEF StateInv
<1>3. CASE TestAndLeave(t)
  <2>1. CountInv'
    BY <1>3, CountInvKept DEF TestAndLeave, Labels
  <2>2. Rest
    BY <1>3 DEF TestAndLeave, StateInv, TypeOK, Labels, MutexInv, TestInv,
                QueueInv, JobInv, taken
  <2> QED
    BY <2>1, <2>2 DEF StateInv
<1>4. CASE CondWait(t)
  <2>1. CountInv'
    BY <1>4, CountInvKept DEF CondWait, Labels
  <2>2. Rest
    BY <1>4 DEF CondWait, StateInv, TypeOK, Labels, MutexInv, TestInv,
                QueueInv, JobInv, taken
  <2> QED
    BY <2>1, <2>2 DEF StateInv
<1>5. CASE SpuriousWakeup(t)
  <2>1. CountInv'
    BY <1>5, CountInvKept DEF SpuriousWakeup, Labels
  <2>2. Rest
    BY <1>5 DEF SpuriousWakeup, StateInv, TypeOK, Labels, MutexInv, TestInv,
                QueueInv, JobInv, taken
  <2> QED
    BY <2>1, <2>2 DEF StateInv
<1>6. CASE LeaveOnShutdown(t)
  <2>1. CountInv'
    BY <1>6, CountInvKept DEF LeaveOnShutdown, Labels
  <2>2. Rest
    BY <1>6 DEF LeaveOnShutdown, StateInv, TypeOK, Labels, MutexInv, TestInv,
                QueueInv, JobInv, taken
  <2> QED
    BY <2>1, <2>2 DEF StateInv
<1>7. CASE TakeJob(t)
  <2>1. CountInv'
    BY <1>7, CountInvKept DEF TakeJob, Labels
  <2>2. /\ m_MsgRecvQueue # <<>>
        /\ Head(m_MsgRecvQueue) = taken + 1
        /\ Tail(m_MsgRecvQueue) \in Seq(Nat)
        /\ Len(Tail(m_MsgRecvQueue)) = Len(m_MsgRecvQueue) - 1
        /\ \A i \in 1..Len(Tail(m_MsgRecvQueue)) :
             Tail(m_MsgRecvQueue)[i] = m_MsgRecvQueue[i + 1]
        /\ taken' = taken + 1
        /\ taken \in Nat
    <3>1. m_MsgRecvQueue # <<>> /\ m_MsgRecvQueue \in Seq(Nat)
      BY <1>7 DEF TakeJob, StateInv, TestInv, TypeOK
    <3>2. Len(m_MsgRecvQueue) \in Nat \ {0}
      BY <3>1, EmptySeq
    <3>3. Head(m_MsgRecvQueue) = m_MsgRecvQueue[1]
      OBVIOUS
    <3>4. submitted' = submitted /\ m_MsgRecvQueue' = Tail(m_MsgRecvQueue)
      BY <1>7 DEF TakeJob
    <3> QED
      BY <3>1, <3>2, <3>3, <3>4, HeadTailProperties
         DEF StateInv, QueueInv, TypeOK, taken
  <2>3. TypeOK'
    BY <1>7, <2>2 DEF TakeJob, StateInv, TypeOK, Labels, QueueInv, taken
  <2>4. MutexInv' /\ TestInv'
    BY <1>7 DEF TakeJob, StateInv, TypeOK, MutexInv, TestInv
  <2>5. QueueInv'
    BY <1>7, <2>2 DEF TakeJob, StateInv, TypeOK, QueueInv, taken
  <2>6. JobInv'
    <3>1. job' = [job EXCEPT ![t] = taken + 1] /\ job \in [Threads -> Nat]
      BY <1>7, <2>2 DEF TakeJob, StateInv, TypeOK
    <3>2. pc' = [pc EXCEPT ![t] = "got"] /\ pc \in [Threads -> Labels]
      BY <1>7 DEF TakeJob, StateInv, TypeOK
    <3> HIDE DEF taken
    <3> QED
      BY <3>1, <3>2, <2>2 DEF StateInv, JobInv
  <2> QED
    BY <2>1, <2>3, <2>4, <2>5, <2>6 DEF StateInv
<1>8. CASE CountUp(t)
  <2>1. CountInv'
    <3>1. Counted' = Counted \cup {t} /\ t \notin Counted
      BY <1>8, GotoMovesOne DEF CountUp, Labels, StateInv, Counted
    <3> QED
      BY <1>8, <3>1, SetsAreFinite, FS_AddElement
         DEF CountUp, StateInv, CountInv
  <2>2. Rest
    BY <1>8 DEF CountUp, StateInv, TypeOK, Labels, MutexInv, TestInv,
                QueueInv, JobInv, taken
  <2> QED
    BY <2>1, <2>2 DEF StateInv
<1>9. CASE RunJob(t)
  <2>1. CountInv'
    BY <1>9, CountInvKept DEF RunJob, Labels
  <2>2. Rest
    BY <1>9 DEF RunJob, StateInv, TypeOK, Labels, MutexInv, TestInv,
                QueueInv, JobInv, taken
  <2> QED
    BY <2>1, <2>2 DEF StateInv
<1>10. CASE CountDown(t)
  <2>1. CountInv' /\ m_iRunningThreadNum - 1 \in Nat
    <3>1. Counted' = Counted \ {t} /\ t \in Counted
      BY <1>10, GotoMovesOne DEF CountDown, Labels, StateInv, Counted
    <3>2. Cardinality(Counted') = Cardinality(Counted) - 1
      BY <3>1, SetsAreFinite, FS_RemoveElement
    <3>3. Cardinality(Counted) # 0
      BY <3>1, SetsAreFinite, FS_EmptySet
    <3> QED
      BY <1>10, <3>2, <3>3, SetsAreFinite DEF CountDown, StateInv, CountInv
  <2>2. Rest
    BY <1>10, <2>1 DEF CountDown, StateInv, TypeOK, Labels, MutexInv, TestInv,
                QueueInv, JobInv, taken
  <2> QED
    BY <2>1, <2>2 DEF StateInv
<1> QED
  BY <1>1, <1>2, <1>3, <1>4, <1>5, <1>6, <1>7, <1>8, <1>9, <1>10
     DEF ThreadStep

\* The actions of the main thread.
LEMMA StateInvMain ==
  ASSUME StateInv, 
         \/ \E t \in Threads : CreateThread(t)
         \/ CreateFails \/ CreateReturns \/ Enqueue \/ Signal \/ SetShutdown
         \/ Broadcast \/ JoinAll
  PROVE  StateInv'
<1> USE PoolAssumption DEF Goto, queueVars
<1> DEFINE Rest == TypeOK' /\ MutexInv' /\ TestInv' /\ QueueInv' /\ JobInv'
<1>1. ASSUME NEW t \in Threads, CreateThread(t)
      PROVE  StateInv'
  <2>1. CountInv'
    BY <1>1, CountInvKept DEF CreateThread, Labels
  <2>2. Rest
    BY <1>1 DEF CreateThread, StateInv, TypeOK, Labels, MutexInv, TestInv,
                QueueInv, JobInv, taken
  <2> QED
    BY <2>1, <2>2 DEF StateInv
<1>2. CASE CreateFails \/ CreateReturns \/ JoinAll
  <2>1. Counted' = Counted
    BY <1>2 DEF CreateFails, CreateReturns, JoinAll, Counted
  <2> QED
    BY <1>2, <2>1
       DEF CreateFails, CreateReturns, JoinAll, StateInv, TypeOK, MainLabels,
           MutexInv, TestInv, QueueInv, JobInv, CountInv, taken
<1>3. CASE Enqueue
  <2> DEFINE q == m_MsgRecvQueue
  <2>1. /\ q \in Seq(Nat) /\ submitted + 1 \in Nat /\ Len(q) \in Nat
        /\ q' = Append(q, submitted + 1)
    BY <1>3, LenProperties DEF Enqueue, StateInv, TypeOK
  <2>2. /\ q' \in Seq(Nat) /\ q' # <<>> /\ Len(q') = Len(q) + 1
        /\ \A i \in 1..Len(q) : q'[i] = q[i]
        /\ q'[Len(q) + 1] = submitted + 1
    BY <2>1, AppendProperties
  <2>3. taken' = taken
    BY <1>3, <2>1, <2>2 DEF Enqueue, StateInv, TypeOK, taken
  <2>4. TypeOK'
    BY <1>3, <2>2 DEF Enqueue, StateInv, TypeOK, MainLabels
  <2>5. MutexInv' /\ TestInv'
    BY <1>3, <2>2 DEF Enqueue, StateInv, TypeOK, MutexInv, TestInv
  <2>6. QueueInv'
    <3>1. ASSUME NEW i \in 1..Len(q') PROVE q'[i] = taken' + i
      <4>1. CASE i \in 1..Len(q)
        BY <2>2, <2>3, <4>1 DEF StateInv, QueueInv
      <4>2. CASE i = Len(q) + 1
        BY <2>1, <2>2, <2>3, <4>2 DEF StateInv, TypeOK, taken
      <4> QED
        BY <2>1, <2>2, <4>1, <4>2
    <3> QED
      BY <1>3, <2>1, <2>2, <3>1 DEF Enqueue, StateInv, TypeOK, QueueInv
  <2>7. JobInv'
    BY <1>3, <2>3 DEF Enqueue, StateInv, JobInv
  <2>8. CountInv'
    BY <1>3 DEF Enqueue, StateInv, CountInv, Counted
  <2> QED
    BY <2>4, <2>5, <2>6, <2>7, <2>8 DEF StateInv
<1>4. CASE Signal
  <2>1. ASSUME NEW t \in Threads, pc[t] = "blocked", Goto(t, "lock")
        PROVE  StateInv'
    <3>1. CountInv'
      BY <1>4, <2>1, CountInvKept DEF Signal, Labels
    <3>2. Rest
      BY <1>4, <2>1
         DEF Signal, StateInv, TypeOK, Labels, MainLabels, MutexInv, TestInv,
             QueueInv, JobInv, taken
    <3> QED
      BY <3>1, <3>2 DEF StateInv
  <2>2. CASE UNCHANGED pc
    <3>1. Counted' = Counted
      BY <2>2 DEF Counted
    <3> QED
      BY <1>4, <2>2, <3>1
         DEF Signal, StateInv, TypeOK, MainLabels, MutexInv, TestInv,
             QueueInv, JobInv, CountInv, taken
  <2> QED
    BY <1>4, <2>1, <2>2 DEF Signal
<1>5. CASE SetShutdown
  <2>1. Counted' = Counted
    BY <1>5 DEF SetShutdown, Counted
  <2> QED
    BY <1>5, <2>1
       DEF SetShutdown, StateInv, TypeOK, MainLabels, MutexInv, TestInv,
           QueueInv, JobInv, CountInv, taken
<1>6. CASE Broadcast
  <2>1. CountInv'
    <3>1. Counted' = Counted
      BY <1>6 DEF Broadcast, StateInv, TypeOK, Counted
    <3> QED
      BY <1>6, <3>1 DEF Broadcast, StateInv, CountInv
  <2>2. Rest
    BY <1>6
       DEF Broadcast, StateInv, TypeOK, Labels, MainLabels, MutexInv, TestInv,
           QueueInv, JobInv, taken
  <2> QED
    BY <2>1, <2>2 DEF StateInv
<1> QED
  BY <1>1, <1>2, <1>3, <1>4, <1>5, <1>6

\* Every step of the pool is a step of one of its threads or of the main one.
LEMMA NextCases ==
  ASSUME Next
  PROVE  \/ \E t \in Threads : ThreadStep(t) \/ SpuriousWakeup(t)
         \/ \E t \in Threads : CreateThread(t)
         \/ CreateFails \/ CreateReturns \/ Enqueue \/ Signal \/ SetShutdown
         \/ Broadcast \/ JoinAll
BY DEF Next, MainStep

LEMMA StateInvStep == StateInv /\ [Next]_vars => StateInv'
<1> SUFFICES ASSUME StateInv, [Next]_vars PROVE StateInv'
  OBVIOUS
<1>1. CASE Next
  BY <1>1, NextCases, StateInvThread, StateInvMain
<1>2. CASE UNCHANGED vars
  BY <1>2
     DEF vars, StateInv, TypeOK, MutexInv, TestInv, QueueInv, JobInv, CountInv,
         Counted, taken
<1> QED
  BY <1>1, <1>2
-----------------------------------------------------------------------------
(* WorkConserving is inductive relative to StateInv: a thread goes to sleep *)
(* only when the queue is empty.                                            *)

\* A step that takes no thread off its way to the queue, puts none to sleep
\* and queues no job.
LEMMA AwakeGrows ==
  ASSUME StateInv, WorkConserving, StateInv',
         UNCHANGED <<m_MsgRecvQueue, m_shutdown>>,
         mainpc' = "signal" <=> mainpc = "signal",
         Blocked' \subseteq Blocked, Awake \subseteq Awake'
  PROVE  WorkConserving'
<1>1. IsFiniteSet(Awake') /\ Cardinality(Awake') \in Nat
  <2>1. Awake' \in SUBSET Threads
    BY DEF Awake
  <2> QED
    BY <2>1, SetsAreFinite, FS_Subset, FS_CardinalityType
<1>2. Cardinality(Awake) <= Cardinality(Awake')
  BY <1>1, FS_Subset
<1>3. Len(m_MsgRecvQueue) \in Nat
  BY LenProperties DEF StateInv, TypeOK
<1> QED
  BY <1>1, <1>2, <1>3, SetsAreFinite DEF WorkConserving

\* A step after which the queue is empty.
LEMMA NothingQueued ==
  ASSUME StateInv', m_MsgRecvQueue' = <<>>
  PROVE  WorkConserving'
<1>1. Cardinality(Awake') \in Nat
  <2>1. Awake' \in SUBSET Threads
    BY DEF Awake
  <2> QED
    BY <2>1, SetsAreFinite, FS_Subset, FS_CardinalityType
<1>2. Len(m_MsgRecvQueue') = 0
  BY EmptySeq
<1> QED
  BY <1>1, <1>2 DEF WorkConserving

LEMMA WorkConservingStep ==
  StateInv /\ StateInv' /\ WorkConserving /\ [Next]_vars => WorkConserving'
<1> SUFFICES ASSUME StateInv, StateInv', WorkConserving, [Next]_vars
             PROVE  WorkConserving'
  OBVIOUS
<1> USE DEF Goto, queueVars
<1> DEFINE q == m_MsgRecvQueue
<1>0. q \in Seq(Nat) /\ Len(q) \in Nat
  BY LenProperties DEF StateInv, TypeOK
<1>1. ASSUME NEW t \in Threads,
             \/ Lock(t) \/ TestAndLeave(t) \/ SpuriousWakeup(t) \/ CountUp(t)
             \/ RunJob(t) \/ CountDown(t) \/ CreateThread(t)
      PROVE  WorkConserving'
  <2>1. UNCHANGED <<m_MsgRecvQueue, m_shutdown, mainpc>>
    BY <1>1 DEF Lock, TestAndLeave, SpuriousWakeup, CountUp, RunJob, CountDown,
                CreateThread
  <2>2. Blocked' \subseteq Blocked /\ Awake \subseteq Awake'
    BY <1>1 DEF Lock, TestAndLeave, SpuriousWakeup, CountUp, RunJob, CountDown,
                CreateThread, StateInv, TypeOK, Blocked, Awake
  <2> QED
    BY <2>1, <2>2, AwakeGrows
<1>2. ASSUME NEW t \in Threads, TestAndStay(t) \/ CondWait(t)
      PROVE  WorkConserving'
  BY <1>2, NothingQueued DEF TestAndStay, CondWait, StateInv, TestInv
<1>3. ASSUME NEW t \in Threads, LeaveOnShutdown(t)
      PROVE  WorkConserving'
  BY <1>3 DEF LeaveOnShutdown, WorkConserving
<1>4. ASSUME NEW t \in Threads, TakeJob(t)
      PROVE  WorkConserving'
  <2>1. q # <<>> /\ Len(q') = Len(q) - 1
    <3>1. q # <<>>
      BY <1>4 DEF TakeJob, StateInv, TestInv
    <3> QED
      BY <1>0, <1>4, <3>1, HeadTailProperties DEF TakeJob
  <2>2. Awake' = Awake \ {t} /\ t \in Awake /\ Blocked' = Blocked
    BY <1>4, GotoMovesOne DEF TakeJob, Labels, StateInv, Awake, Blocked
  <2>3. Cardinality(Awake') = Cardinality(Awake) - 1
    BY <2>2, SetsAreFinite, FS_RemoveElement
  <2> QED
    BY <1>0, <1>4, <2>1, <2>2, <2>3, SetsAreFinite DEF TakeJob, WorkConserving
<1>5. CASE CreateFails \/ CreateReturns \/ JoinAll
  BY <1>5, AwakeGrows DEF CreateFails, CreateReturns, JoinAll, Blocked, Awake
<1>6. CASE Enqueue
  <2>1. Len(q') = Len(q) + 1
    BY <1>0, <1>6, AppendProperties DEF Enqueue, StateInv, TypeOK
  <2>2. Awake' = Awake /\ Blocked' = Blocked
    BY <1>6 DEF Enqueue, Awake, Blocked
  <2> QED
    BY <1>0, <1>6, <2>1, <2>2, SetsAreFinite DEF Enqueue, WorkConserving
<1>7. CASE Signal
  <2>1. ASSUME NEW t \in Threads, pc[t] = "blocked", Goto(t, "lock")
        PROVE  WorkConserving'
    <3>1. Awake' = Awake \cup {t} /\ t \notin Awake /\ t \in Blocked
      BY <2>1, GotoMovesOne DEF Labels, StateInv, Awake, Blocked
    <3>2. Cardinality(Awake') = Cardinality(Awake) + 1
      BY <3>1, SetsAreFinite, FS_AddElement
    <3> QED
      BY <1>0, <1>7, <3>1, <3>2, SetsAreFinite DEF Signal, WorkConserving
  <2>2. CASE UNCHANGED pc /\ \A t \in Threads : pc[t] # "blocked"
    <3>1. Blocked' = {}
      BY <2>2 DEF Blocked
    <3> QED
      BY <3>1 DEF WorkConserving
  <2> QED
    BY <1>7, <2>1, <2>2 DEF Signal
<1>8. CASE SetShutdown
  BY <1>8 DEF SetShutdown, WorkConserving
<1>9. CASE Broadcast
  <2>1. Blocked' = {}
    BY <1>9 DEF Broadcast, StateInv, TypeOK, Blocked
  <2> QED
    BY <2>1 DEF WorkConserving
<1>10. CASE UNCHANGED vars
  BY <1>10, AwakeGrows DEF vars, Blocked, Awake
<1> QED
  BY <1>1, <1>2, <1>3, <1>4, <1>5, <1>6, <1>7, <1>8, <1>9, <1>10, NextCases
     DEF ThreadStep

LEMMA Inductive == Spec => []IInv
<1>1. Init => IInv
  <2> SUFFICES ASSUME Init PROVE IInv
    OBVIOUS
  <2>1. Blocked = {}
    BY DEF Init, Blocked
  <2> QED
    BY <2>1, StateInvInit DEF IInv, WorkConserving
<1>2. IInv /\ [Next]_vars => IInv'
  BY StateInvStep, WorkConservingStep DEF IInv
<1> QED
  BY <1>1, <1>2, PTL DEF Spec
-----------------------------------------------------------------------------
(* The theorems. *)

\* The pool's fields keep their types: in particular neither counter of
\* CThreadPool ever goes below zero, however its threads interleave.
THEOREM TypeCorrect == Spec => []TypeOK
<1>1. IInv => TypeOK
  BY DEF IInv, StateInv
<1> QED
  BY <1>1, Inductive, PTL

\* With any number of threads, none sleeps on the condition variable while
\* more jobs are queued than threads and signals are on their way: signalling
\* after the unlock in inMsgRecvQueueAndSignal loses no wake-up.
THEOREM WorkConserved == Spec => []WorkConserving
<1>1. IInv => WorkConserving
  BY DEF IInv
<1> QED
  BY <1>1, Inductive, PTL

\* When Call() finds m_iThreadNum == m_iRunningThreadNum, every thread of the
\* pool is inside threadRecvProcFunc: the warning is never a false alarm.
THEOREM SaturationSound == Spec => []SaturationWarningTrue
<1>1. IInv => SaturationWarningTrue
  <2> SUFFICES ASSUME IInv, m_iRunningThreadNum = Cardinality(Threads)
               PROVE  \A t \in Threads : pc[t] \in {"run", "ran"}
    BY DEF SaturationWarningTrue
  <2>1. Counted \in SUBSET Threads /\ Cardinality(Counted) = Cardinality(Threads)
    BY DEF IInv, StateInv, CountInv, Counted
  <2>2. Counted = Threads
    BY <2>1, SetsAreFinite, FS_Subset
  <2> QED
    BY <2>2 DEF Counted
<1> QED
  BY <1>1, Inductive, PTL

\* A step of the pool is a step of JobQueue or leaves its state alone.
LEMMA StepSimulation ==
  ASSUME StateInv, StateInv', [Next]_vars
  PROVE  [Jobs!Next]_(Jobs!vars)
<1> USE DEF Goto, queueVars
<1> DEFINE q == m_MsgRecvQueue
<1>0. q \in Seq(Nat) /\ Len(q) \in Nat /\ submitted \in Nat /\ taken \in Nat
  BY LenProperties, PoolAssumption DEF StateInv, TypeOK, QueueInv, taken
<1>1. ASSUME UNCHANGED <<submitted, m_MsgRecvQueue, job>>
      PROVE  UNCHANGED Jobs!vars
  BY <1>1 DEF Jobs!vars, taken, running
<1>2. ASSUME NEW t \in Threads,
             \/ Lock(t) \/ TestAndStay(t) \/ TestAndLeave(t) \/ CondWait(t)
             \/ SpuriousWakeup(t) \/ LeaveOnShutdown(t) \/ CountUp(t)
             \/ CountDown(t) \/ CreateThread(t)
      PROVE  UNCHANGED Jobs!vars
  BY <1>1, <1>2 DEF Lock, TestAndStay, TestAndLeave, CondWait, SpuriousWakeup,
                    LeaveOnShutdown, CountUp, CountDown, CreateThread
<1>3. CASE \/ CreateFails \/ CreateReturns \/ Signal \/ SetShutdown
           \/ Broadcast \/ JoinAll \/ UNCHANGED vars
  BY <1>1, <1>3 DEF CreateFails, CreateReturns, Signal, SetShutdown, Broadcast,
                    JoinAll, vars
<1>4. ASSUME NEW t \in Threads, TakeJob(t)
      PROVE  Jobs!Take
  <2>1. q # <<>>
    BY <1>4 DEF TakeJob, StateInv, TestInv
  <2>2. /\ Len(q) \in Nat \ {0} /\ Len(q') = Len(q) - 1 /\ Head(q) = q[1]
    BY <1>0, <1>4, <2>1, EmptySeq, HeadTailProperties DEF TakeJob
  <2>3. taken' = taken + 1 /\ Head(q) = taken + 1 /\ taken < submitted
    BY <1>0, <1>4, <2>2 DEF TakeJob, StateInv, QueueInv, taken
  <2>4. job[t] = 0 /\ job' = [job EXCEPT ![t] = taken + 1]
    BY <1>4, <2>3 DEF TakeJob, StateInv, JobInv, TypeOK
  <2>5. running' = running \cup {taken + 1}
    <3>1. job \in [Threads -> Nat] /\ taken + 1 # 0
      BY <1>0 DEF StateInv, TypeOK
    <3> HIDE DEF taken
    <3> QED
      BY <2>4, <3>1 DEF running
  <2> QED
    BY <1>4, <2>3, <2>5 DEF TakeJob, Jobs!Take
<1>5. ASSUME NEW t \in Threads, RunJob(t)
      PROVE  \E j \in running : Jobs!Finish(j)
  <2>1. /\ job[t] # 0 /\ job' = [job EXCEPT ![t] = 0] /\ job \in [Threads -> Nat]
        /\ \A u \in Threads : job[u] = job[t] => u = t
    BY <1>5 DEF RunJob, StateInv, TypeOK, JobInv
  <2>2. job[t] \in running /\ running' = running \ {job[t]}
    BY <2>1 DEF running
  <2>3. UNCHANGED <<submitted, taken>>
    BY <1>5 DEF RunJob, taken
  <2> QED
    BY <2>2, <2>3 DEF Jobs!Finish
<1>6. CASE Enqueue
  <2>1. Len(q') = Len(q) + 1
    BY <1>0, <1>6, AppendProperties DEF Enqueue
  <2>2. taken' = taken /\ running' = running
    BY <1>0, <1>6, <2>1 DEF Enqueue, taken, running
  <2>3. Jobs!Submit
    BY <1>6, <2>2 DEF Enqueue, Jobs!Submit
  <2> QED
    BY <2>3 DEF Jobs!Next
<1> QED
  BY <1>2, <1>3, <1>4, <1>5, <1>6, NextCases DEF ThreadStep, Jobs!Next

\* CThreadPool implements JobQueue: jobs are handed out in the order in which
\* the event loop queued them, each to one thread, and none is lost.
THEOREM ImplementsJobQueue == Spec => HandsOutInOrder
<1>1. Init => Jobs!Init
  <2> SUFFICES ASSUME Init PROVE Jobs!Init
    OBVIOUS
  <2>1. Len(m_MsgRecvQueue) = 0 /\ submitted = 0
    BY EmptySeq DEF Init
  <2>2. running = {}
    BY DEF Init, running
  <2> QED
    BY <2>1, <2>2 DEF Jobs!Init, taken
<1>2. StateInv /\ StateInv' /\ [Next]_vars => [Jobs!Next]_(Jobs!vars)
  BY StepSimulation
<1>3. IInv => StateInv
  BY DEF IInv
<1> QED
  BY <1>1, <1>2, <1>3, Inductive, PTL DEF Spec, HandsOutInOrder, Jobs!Spec
=============================================================================
