----------------------------- MODULE ThreadPool -----------------------------
(***************************************************************************)
(* CThreadPool (misc/ngx_c_threadpool.cxx): the pool of threads a worker   *)
(* process hands its received packets to.  The worker's main thread        *)
(* creates the pool, then feeds it from the event loop, and may stop it;   *)
(* each pool thread runs ThreadFunc.                                       *)
(*                                                                         *)
(* One action is one stretch of code between two accesses to state shared  *)
(* with another thread.  m_shutdown is a plain bool that StopAll writes    *)
(* without the mutex, so a thread's test of the wait condition and its     *)
(* call of pthread_cond_wait are two steps although it holds the mutex     *)
(* throughout.  A thread blocked in pthread_cond_wait has pc "blocked"; a  *)
(* woken one has to get the mutex back and is again at "lock".             *)
(***************************************************************************)
EXTENDS Naturals, Sequences, FiniteSets

CONSTANTS
  Threads,   \* the pool's threads: ProcMsgRecvWorkThreadCount of them
  Nobody,    \* the holder of a free mutex
  MaxJobs    \* bound on the packets the event loop submits

ASSUME PoolAssumption ==
  /\ IsFiniteSet(Threads)
  /\ Nobody \notin Threads
  /\ MaxJobs \in Nat

VARIABLES
  m_pthreadMutex,        \* who holds it
  m_MsgRecvQueue,        \* jobs not yet taken, oldest first
  m_iRecvMsgQueueCount,
  m_iRunningThreadNum,
  m_shutdown,
  ifrunning,             \* ThreadItem::ifrunning of each thread
  pc,                    \* where each pool thread is
  job,                   \* jobbuf of each pool thread, 0 when it has none
  mainpc,                \* where the worker's main thread is
  submitted              \* history: jobs submitted; a job is its rank

vars == <<m_pthreadMutex, m_MsgRecvQueue, m_iRecvMsgQueueCount,
          m_iRunningThreadNum, m_shutdown, ifrunning, pc, job, mainpc,
          submitted>>

queueVars == <<m_MsgRecvQueue, m_iRecvMsgQueueCount, submitted>>

Goto(t, label) == pc' = [pc EXCEPT ![t] = label]

Init ==
  /\ m_pthreadMutex = Nobody
  /\ m_MsgRecvQueue = <<>>
  /\ m_iRecvMsgQueueCount = 0
  /\ m_iRunningThreadNum = 0
  /\ m_shutdown = FALSE
  /\ ifrunning = [t \in Threads |-> FALSE]
  /\ pc = [t \in Threads |-> "absent"]
  /\ job = [t \in Threads |-> 0]
  /\ mainpc = "create"
  /\ submitted = 0

-----------------------------------------------------------------------------
(* ThreadFunc, run by every pool thread. *)

\* pthread_mutex_lock at the top of the loop, and the one inside
\* pthread_cond_wait when the thread has been woken.
Lock(t) ==
  /\ pc[t] = "lock"
  /\ m_pthreadMutex = Nobody
  /\ m_pthreadMutex' = t
  /\ Goto(t, "test")
  /\ UNCHANGED <<queueVars, m_iRunningThreadNum, m_shutdown, ifrunning, job,
                 mainpc>>

\* Mutant of TestAndStay: the thread never reports itself as started.
TestAndStaySilently(t) ==
  /\ pc[t] = "test"
  /\ m_MsgRecvQueue = <<>>
  /\ ~m_shutdown
  /\ Goto(t, "wait")
  /\ UNCHANGED <<queueVars, m_pthreadMutex, m_iRunningThreadNum, m_shutdown,
                 ifrunning, job, mainpc>>

\* The condition of the inner while, true: ifrunning is set before waiting.
TestAndStay(t) ==
  /\ pc[t] = "test"
  /\ m_MsgRecvQueue = <<>>
  /\ ~m_shutdown
  /\ ifrunning' = [ifrunning EXCEPT ![t] = TRUE]
  /\ Goto(t, "wait")
  /\ UNCHANGED <<queueVars, m_pthreadMutex, m_iRunningThreadNum, m_shutdown,
                 job, mainpc>>

\* The condition of the inner while, false.
TestAndLeave(t) ==
  /\ pc[t] = "test"
  /\ m_MsgRecvQueue # <<>> \/ m_shutdown
  /\ Goto(t, "decide")
  /\ UNCHANGED <<queueVars, m_pthreadMutex, m_iRunningThreadNum, m_shutdown,
                 ifrunning, job, mainpc>>

\* pthread_cond_wait gives up the mutex and blocks in one step.
CondWait(t) ==
  /\ pc[t] = "wait"
  /\ m_pthreadMutex' = Nobody
  /\ Goto(t, "blocked")
  /\ UNCHANGED <<queueVars, m_iRunningThreadNum, m_shutdown, ifrunning, job,
                 mainpc>>

\* POSIX lets pthread_cond_wait return without a signal.
SpuriousWakeup(t) ==
  /\ pc[t] = "blocked"
  /\ Goto(t, "lock")
  /\ UNCHANGED <<queueVars, m_pthreadMutex, m_iRunningThreadNum, m_shutdown,
                 ifrunning, job, mainpc>>

LeaveOnShutdown(t) ==
  /\ pc[t] = "decide"
  /\ m_shutdown
  /\ m_pthreadMutex' = Nobody
  /\ Goto(t, "exited")
  /\ UNCHANGED <<queueVars, m_iRunningThreadNum, m_shutdown, ifrunning, job,
                 mainpc>>

\* Mutant of TakeJob: the newest job is taken, back() for front().
TakeNewest(t) ==
  /\ pc[t] = "decide"
  /\ ~m_shutdown
  /\ job' = [job EXCEPT ![t] = m_MsgRecvQueue[Len(m_MsgRecvQueue)]]
  /\ m_MsgRecvQueue' = SubSeq(m_MsgRecvQueue, 1, Len(m_MsgRecvQueue) - 1)
  /\ m_iRecvMsgQueueCount' = m_iRecvMsgQueueCount - 1
  /\ m_pthreadMutex' = Nobody
  /\ Goto(t, "got")
  /\ UNCHANGED <<m_iRunningThreadNum, m_shutdown, ifrunning, mainpc, submitted>>

TakeJob(t) ==
  /\ pc[t] = "decide"
  /\ ~m_shutdown
  /\ job' = [job EXCEPT ![t] = Head(m_MsgRecvQueue)]
  /\ m_MsgRecvQueue' = Tail(m_MsgRecvQueue)
  /\ m_iRecvMsgQueueCount' = m_iRecvMsgQueueCount - 1
  /\ m_pthreadMutex' = Nobody
  /\ Goto(t, "got")
  /\ UNCHANGED <<m_iRunningThreadNum, m_shutdown, ifrunning, mainpc, submitted>>

\* Mutant of CountUp: ++m_iRunningThreadNum is forgotten.
CountUpForgotten(t) ==
  /\ pc[t] = "got"
  /\ Goto(t, "run")
  /\ UNCHANGED <<queueVars, m_pthreadMutex, m_iRunningThreadNum, m_shutdown,
                 ifrunning, job, mainpc>>

CountUp(t) ==
  /\ pc[t] = "got"
  /\ m_iRunningThreadNum' = m_iRunningThreadNum + 1
  /\ Goto(t, "run")
  /\ UNCHANGED <<queueVars, m_pthreadMutex, m_shutdown, ifrunning, job, mainpc>>

\* g_socket.threadRecvProcFunc(jobbuf), then FreeMemory(jobbuf).
RunJob(t) ==
  /\ pc[t] = "run"
  /\ job' = [job EXCEPT ![t] = 0]
  /\ Goto(t, "ran")
  /\ UNCHANGED <<queueVars, m_pthreadMutex, m_iRunningThreadNum, m_shutdown,
                 ifrunning, mainpc>>

\* Mutant of CountDown: --m_iRunningThreadNum is forgotten.
CountDownForgotten(t) ==
  /\ pc[t] = "ran"
  /\ Goto(t, "lock")
  /\ UNCHANGED <<queueVars, m_pthreadMutex, m_iRunningThreadNum, m_shutdown,
                 ifrunning, job, mainpc>>

CountDown(t) ==
  /\ pc[t] = "ran"
  /\ m_iRunningThreadNum' = m_iRunningThreadNum - 1
  /\ Goto(t, "lock")
  /\ UNCHANGED <<queueVars, m_pthreadMutex, m_shutdown, ifrunning, job, mainpc>>

ThreadStep(t) ==
  \/ Lock(t) \/ TestAndStay(t) \/ TestAndLeave(t) \/ CondWait(t)
  \/ LeaveOnShutdown(t) \/ TakeJob(t) \/ CountUp(t) \/ RunJob(t) \/ CountDown(t)

-----------------------------------------------------------------------------
(* Create, inMsgRecvQueueAndSignal and StopAll, run by the main thread. *)

CreateThread(t) ==
  /\ mainpc = "create"
  /\ pc[t] = "absent"
  /\ Goto(t, "lock")
  /\ UNCHANGED <<queueVars, m_pthreadMutex, m_iRunningThreadNum, m_shutdown,
                 ifrunning, job, mainpc>>

\* pthread_create fails: Create returns false and the worker calls exit(-2).
CreateFails ==
  /\ mainpc = "create"
  /\ \E t \in Threads : pc[t] = "absent"
  /\ mainpc' = "gone"
  /\ UNCHANGED <<queueVars, m_pthreadMutex, m_iRunningThreadNum, m_shutdown,
                 ifrunning, pc, job>>

\* The loop at lblfor ends when one scan finds every ifrunning set.  A flag is
\* never reset, so a scan that ends has seen what a scan done in one step sees.
CreateReturns ==
  /\ mainpc = "create"
  /\ \A t \in Threads : pc[t] # "absent" /\ ifrunning[t]
  /\ mainpc' = "loop"
  /\ UNCHANGED <<queueVars, m_pthreadMutex, m_iRunningThreadNum, m_shutdown,
                 ifrunning, pc, job>>

\* inMsgRecvQueueAndSignal up to pthread_mutex_unlock: a critical section that
\* touches nothing another thread may read or write without the mutex.
Enqueue ==
  /\ mainpc = "loop"
  /\ submitted < MaxJobs
  /\ m_pthreadMutex = Nobody
  /\ m_MsgRecvQueue' = Append(m_MsgRecvQueue, submitted + 1)
  /\ m_iRecvMsgQueueCount' = m_iRecvMsgQueueCount + 1
  /\ submitted' = submitted + 1
  /\ mainpc' = "signal"
  /\ UNCHANGED <<m_pthreadMutex, m_iRunningThreadNum, m_shutdown, ifrunning,
                 pc, job>>

\* Mutant of Signal: signal only when the queue was empty before this job.
SignalWhenFirst ==
  /\ mainpc = "signal"
  /\ \/ /\ Len(m_MsgRecvQueue) = 1
        /\ \E t \in Threads : pc[t] = "blocked" /\ Goto(t, "lock")
     \/ /\ Len(m_MsgRecvQueue) # 1 \/ \A t \in Threads : pc[t] # "blocked"
        /\ UNCHANGED pc
  /\ mainpc' = "loop"
  /\ UNCHANGED <<queueVars, m_pthreadMutex, m_iRunningThreadNum, m_shutdown,
                 ifrunning, job>>

\* Mutant of Signal: Call() does not signal.
SignalForgotten ==
  /\ mainpc = "signal"
  /\ mainpc' = "loop"
  /\ UNCHANGED <<queueVars, m_pthreadMutex, m_iRunningThreadNum, m_shutdown,
                 ifrunning, pc, job>>

\* Call(): pthread_cond_signal, after the mutex has been given up.
Signal ==
  /\ mainpc = "signal"
  /\ \/ \E t \in Threads : pc[t] = "blocked" /\ Goto(t, "lock")
     \/ (\A t \in Threads : pc[t] # "blocked") /\ UNCHANGED pc
  /\ mainpc' = "loop"
  /\ UNCHANGED <<queueVars, m_pthreadMutex, m_iRunningThreadNum, m_shutdown,
                 ifrunning, job>>

\* StopAll: m_shutdown is set with no lock held.
SetShutdown ==
  /\ mainpc = "loop"
  /\ m_shutdown' = TRUE
  /\ mainpc' = "broadcast"
  /\ UNCHANGED <<queueVars, m_pthreadMutex, m_iRunningThreadNum, ifrunning, pc,
                 job>>

Broadcast ==
  /\ mainpc = "broadcast"
  /\ pc' = [t \in Threads |-> IF pc[t] = "blocked" THEN "lock" ELSE pc[t]]
  /\ mainpc' = "join"
  /\ UNCHANGED <<queueVars, m_pthreadMutex, m_iRunningThreadNum, m_shutdown,
                 ifrunning, job>>

\* Every pthread_join has returned; the mutex, the condition variable and the
\* ThreadItems are destroyed.
JoinAll ==
  /\ mainpc = "join"
  /\ \A t \in Threads : pc[t] = "exited"
  /\ mainpc' = "stopped"
  /\ UNCHANGED <<queueVars, m_pthreadMutex, m_iRunningThreadNum, m_shutdown,
                 ifrunning, pc, job>>

MainStep ==
  \/ \E t \in Threads : CreateThread(t)
  \/ CreateReturns \/ Signal \/ Broadcast \/ JoinAll

Next ==
  /\ mainpc # "gone"
  /\ \/ \E t \in Threads : ThreadStep(t) \/ SpuriousWakeup(t)
     \/ MainStep
     \/ CreateFails
     \/ Enqueue
     \/ SetShutdown

Spec == Init /\ [][Next]_vars

\* Every thread that can run is eventually run, and one that waits for the
\* mutex gets it when it is released again and again.  Nothing makes the
\* network deliver packets, StopAll be called or pthread_create fail.
Fairness ==
  /\ WF_vars(MainStep /\ mainpc # "gone")
  /\ \A t \in Threads : /\ WF_vars(ThreadStep(t) /\ mainpc # "gone")
                        /\ SF_vars(Lock(t) /\ mainpc # "gone")

FairSpec == Spec /\ Fairness
-----------------------------------------------------------------------------
(* Correctness *)

Labels == {"absent", "lock", "test", "wait", "blocked", "decide", "got", "run",
           "ran", "exited"}

MainLabels == {"create", "loop", "signal", "broadcast", "join", "stopped",
               "gone"}

\* Types of the pool's fields and of the places its threads can be at.
TypeOK ==
  /\ m_pthreadMutex \in Threads \cup {Nobody}
  /\ m_MsgRecvQueue \in Seq(Nat)
  /\ m_iRecvMsgQueueCount \in Nat
  /\ m_iRunningThreadNum \in Nat
  /\ m_shutdown \in BOOLEAN
  /\ ifrunning \in [Threads -> BOOLEAN]
  /\ pc \in [Threads -> Labels]
  /\ job \in [Threads -> Nat]
  /\ mainpc \in MainLabels
  /\ submitted \in 0..MaxJobs

Blocked == {t \in Threads : pc[t] = "blocked"}
Awake == {t \in Threads : pc[t] \in {"lock", "test", "decide"}}
Counted == {t \in Threads : pc[t] \in {"run", "ran"}}

\* No thread sleeps on the condition variable while more jobs are queued than
\* there are threads on their way to the queue, a signal still to be sent
\* counting for one: inMsgRecvQueueAndSignal signals after unlocking, and
\* ThreadFunc tests the queue and blocks without giving up the mutex between.
WorkConserving ==
  (Blocked # {} /\ ~m_shutdown) =>
    Len(m_MsgRecvQueue) <= Cardinality(Awake)
                             + (IF mainpc = "signal" THEN 1 ELSE 0)

\* The test in Call() that reports that no thread of the pool is idle
\* (m_iThreadNum == m_iRunningThreadNum) is never true while one is.
SaturationWarningTrue ==
  m_iRunningThreadNum = Cardinality(Threads) =>
    \A t \in Threads : pc[t] \in {"run", "ran"}

\* The pool hands out jobs as JobQueue promises: in order, once, none lost.
taken == submitted - Len(m_MsgRecvQueue)
running == {job[t] : t \in Threads} \ {0}

Jobs == INSTANCE JobQueue
HandsOutInOrder == Jobs!Spec

\* Create() returns, or the worker has exited because a thread could not be
\* created: every thread comes to set its ifrunning although it does so only
\* when it finds the queue empty.
CreateEnds == <>(mainpc # "create")

\* A job that has been queued is taken by some thread, unless StopAll has been
\* called: the signal of Call() is not lost.
EveryJobTaken ==
  \A n \in 1..MaxJobs : (submitted >= n) ~> (taken >= n \/ m_shutdown)

\* StopAll, "stop thread pool" (ngx_c_threadpool.cxx:138), comes to its end,
\* where it reports that all threads of the pool have ended normally.
StopAllReturns == m_shutdown ~> (mainpc = "stopped")
=============================================================================
