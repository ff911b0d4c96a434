------------------------------- MODULE Master -------------------------------
(***************************************************************************)
(* The master process and the life of its workers: ngx_master_process_cycle *)
(* (proc/ngx_process_cycle.cxx), the signal handler and its waitpid loop    *)
(* (signal/ngx_signal.cxx).                                                 *)
(*                                                                         *)
(* The master blocks its signals before it forks, and lets them in only    *)
(* during sigsuspend.  A blocked signal is pending once, however often it  *)
(* is sent: the death of several workers may show as one SIGCHLD.          *)
(***************************************************************************)
EXTENDS Naturals

CONSTANT WorkerProcesses   \* WorkerProcesses of nginx.conf

ASSUME MasterAssumption == WorkerProcesses \in Nat

Children == 0..(WorkerProcesses - 1)
Signals == {"SIGCHLD", "SIGHUP"}   \* SIGHUP stands for the other caught ones

VARIABLES
  masterpc,   \* where the master is
  i,          \* the loop variable of ngx_start_worker_processes
  pending,    \* kernel: signals pending for the master
  ngx_reap,
  worker      \* kernel: the state of each worker process

masterVars == <<masterpc, i, pending, ngx_reap, worker>>

\* ngx_init_signals() has installed the handler, main() has become the daemon,
\* and sigprocmask() has blocked the signals.
MasterInit ==
  /\ masterpc = "spawn"
  /\ i = 0
  /\ pending = {}
  /\ ngx_reap = 0
  /\ worker = [w \in Children |-> "none"]

-----------------------------------------------------------------------------
(* The master. *)

\* Mutant of Fork: the loop runs once more than there are workers.
ForkOneMore(state) ==
  /\ masterpc = "spawn"
  /\ i <= WorkerProcesses
  /\ worker' = [worker EXCEPT ![i] = state]
  /\ i' = i + 1
  /\ UNCHANGED <<masterpc, pending, ngx_reap>>

Fork(state) ==
  /\ masterpc = "spawn"
  /\ i < WorkerProcesses
  /\ worker' = [worker EXCEPT ![i] = state]
  /\ i' = i + 1
  /\ UNCHANGED <<masterpc, pending, ngx_reap>>

\* ngx_spawn_process(); when fork() fails the loop goes on without that worker.
Spawn == Fork("starting") \/ Fork("none")

\* The signal set is emptied and the loop entered.
EnterLoop ==
  /\ masterpc = "spawn"
  /\ i = WorkerProcesses
  /\ masterpc' = "suspend"
  /\ UNCHANGED <<i, pending, ngx_reap, worker>>

\* Mutant of DeliverChild: sigsuspend() is called with the set that blocks.
DeliverChildBlocked == FALSE

\* sigsuspend() lets SIGCHLD in and ngx_signal_handler() starts.  SIGCHLD is
\* blocked while its handler runs, and may come again before sigsuspend() ends.
DeliverChild ==
  /\ masterpc \in {"suspend", "delivered"}
  /\ "SIGCHLD" \in pending
  /\ pending' = pending \ {"SIGCHLD"}
  /\ ngx_reap' = 1
  /\ masterpc' = "reap"
  /\ UNCHANGED <<i, worker>>

\* Any other signal is logged; it may come while SIGCHLD is being handled.
DeliverOther ==
  /\ masterpc \in {"suspend", "delivered", "reap"}
  /\ \E s \in pending \ {"SIGCHLD"} : pending' = pending \ {s}
  /\ masterpc' = IF masterpc = "reap" THEN "reap" ELSE "delivered"
  /\ UNCHANGED <<i, ngx_reap, worker>>

\* Mutant of WaitPid: waitpid() is called once.
WaitPidOnce ==
  /\ masterpc = "reap"
  /\ \E w \in Children :
       /\ worker[w] = "zombie"
       /\ worker' = [worker EXCEPT ![w] = "gone"]
  /\ masterpc' = "delivered"
  /\ UNCHANGED <<i, pending, ngx_reap>>

\* ngx_process_get_status(): one round of the loop around waitpid(), ...
WaitPid ==
  /\ masterpc = "reap"
  /\ \E w \in Children :
       /\ worker[w] = "zombie"
       /\ worker' = [worker EXCEPT ![w] = "gone"]
  /\ UNCHANGED <<masterpc, i, pending, ngx_reap>>

\* ... and the one that finds no child to wait for, or no child at all.
NoMoreStatus ==
  /\ masterpc = "reap"
  /\ \A w \in Children : worker[w] # "zombie"
  /\ masterpc' = "delivered"
  /\ UNCHANGED <<i, pending, ngx_reap, worker>>

\* sigsuspend() returns and the signals are blocked again during sleep(1).
Sleep ==
  /\ masterpc = "delivered"
  /\ masterpc' = "sleep"
  /\ UNCHANGED <<i, pending, ngx_reap, worker>>

Suspend ==
  /\ masterpc = "sleep"
  /\ masterpc' = "suspend"
  /\ UNCHANGED <<i, pending, ngx_reap, worker>>

MasterStep ==
  \/ Spawn \/ EnterLoop \/ DeliverChild \/ DeliverOther \/ WaitPid
  \/ NoMoreStatus \/ Sleep \/ Suspend

-----------------------------------------------------------------------------
(* The workers, and who sends signals to the master. *)

\* ngx_worker_process_init() succeeds.
WorkerServes(w) ==
  /\ worker[w] = "starting"
  /\ worker' = [worker EXCEPT ![w] = "serving"]
  /\ UNCHANGED <<masterpc, i, pending, ngx_reap>>

\* It calls exit(), or the worker is killed: by SIGKILL, by a fault, or by
\* SIGPIPE, which no entry of signals[] handles or ignores.
WorkerDies(w) ==
  /\ worker[w] \in {"starting", "serving"}
  /\ worker' = [worker EXCEPT ![w] = "zombie"]
  /\ pending' = pending \cup {"SIGCHLD"}
  /\ UNCHANGED <<masterpc, i, ngx_reap>>

SendSignal(s) ==
  /\ pending' = pending \cup {s}
  /\ UNCHANGED <<masterpc, i, ngx_reap, worker>>

MasterNext ==
  \/ MasterStep
  \/ \E w \in Children : WorkerServes(w) \/ WorkerDies(w)
  \/ \E s \in Signals : SendSignal(s)

MasterSpec == MasterInit /\ [][MasterNext]_masterVars

\* The master is scheduled, whatever signals interrupt it, and sigsuspend() lets
\* a pending SIGCHLD in although other signals keep coming.
MasterFairness ==
  /\ WF_masterVars(Spawn)
  /\ WF_masterVars(EnterLoop)
  /\ WF_masterVars(WaitPid \/ NoMoreStatus)
  /\ WF_masterVars(Sleep)
  /\ WF_masterVars(Suspend)
  /\ SF_masterVars(DeliverChild)

MasterFairSpec == MasterSpec /\ MasterFairness
-----------------------------------------------------------------------------
(* Correctness *)

\* Types of the master's variables and of the kernel's.
MasterTypeOK ==
  /\ masterpc \in {"spawn", "suspend", "reap", "delivered", "sleep"}
  /\ i \in 0..WorkerProcesses
  /\ pending \subseteq Signals
  /\ ngx_reap \in {0, 1}
  /\ worker \in [Children -> {"none", "starting", "serving", "zombie", "gone"}]

\* While there is a zombie, a SIGCHLD is pending or the loop around waitpid()
\* has not found that there is none: that several deaths may show as one signal
\* loses none of them.
ZombieNoticed ==
  (\E w \in Children : worker[w] = "zombie") =>
    "SIGCHLD" \in pending \/ masterpc = "reap"

\* Every worker that has died is waited for, "to avoid child process becomes
\* zombie process" (ngx_signal.cxx:144).
ZombieReaped ==
  \A w \in Children : (worker[w] = "zombie") ~> (worker[w] = "gone")
=============================================================================
