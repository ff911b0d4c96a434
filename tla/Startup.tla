------------------------------ MODULE Startup ------------------------------
(***************************************************************************)
(* From main to the loop of the master (app/nginx.cxx): the configuration  *)
(* and the log are opened, the listening sockets set up, and, with Daemon  *)
(* in the configuration, a child goes on without the terminal while the    *)
(* parent ends (proc/ngx_daemon.cxx).  Every system call may fail.  The    *)
(* program may be started again while it starts or runs.                   *)
(*                                                                         *)
(* A process is known by the descriptors it has; Master goes on where a    *)
(* process arrives at "run".                                               *)
(***************************************************************************)
EXTENDS Integers, Sequences, SequencesExt

CONSTANTS
  Starts,      \* the times the program is started
  Ports,       \* the sequence of the ports to listen on
  Daemons      \* possible values of Daemon in the configuration

Launcher(s) == <<s, "launcher">>
Daemon(s) == <<s, "daemon">>
Processes == Starts \X {"launcher", "daemon"}

Closed == "closed"
Fd == 0..(Len(Ports) + 5)     \* enough: a process opens at most that many
Stdin == 0
Stdout == 1
Stderr == 2

\* What the constants have to be.
StartupAssumption ==
  /\ Daemons \subseteq BOOLEAN
  /\ Ports \in Seq(Range(Ports)) /\ Len(Ports) > 0 /\ IsInjective(Ports)
  /\ Range(Ports) \cap {Closed, "terminal", "conf", "log", "null"} = {}

VARIABLES
  step,        \* of each process: what it does next
  fds,         \* its descriptors: the file of each number
  logFd,       \* ngx_log.fd
  nullFd,      \* the descriptor of /dev/null in ngx_daemon
  listening,   \* how many ports are in m_ListenSocketList
  exitcode     \* -1 before its end

vars == <<step, fds, logFd, nullFd, listening, exitcode>>

NoFds == [n \in Fd |-> Closed]
\* 0, 1 and 2 are open when a program starts.
Init ==
  /\ step = [p \in Processes |-> IF p[2] = "launcher" THEN "load" ELSE "none"]
  /\ fds = [p \in Processes |-> IF p[2] = "launcher"
                                THEN [n \in Fd |-> IF n <= 2 THEN "terminal" ELSE Closed]
                                ELSE NoFds]
  /\ logFd = [p \in Processes |-> -1]
  /\ nullFd = [p \in Processes |-> -1]
  /\ listening = [p \in Processes |-> 0]
  /\ exitcode = [p \in Processes |-> -1]

\* The lowest free number, as open and socket choose it.
NewFd(p) == CHOOSE n \in Fd : fds[p][n] = Closed /\ \A k \in 0..(n - 1) : fds[p][k] # Closed
Opens(p, file) == fds' = [fds EXCEPT ![p][NewFd(p)] = file]
Closes(p, n) == fds' = [fds EXCEPT ![p][n] = Closed]

At(p, place) == step[p] = place
Goto(p, place) == step' = [step EXCEPT ![p] = place]
-----------------------------------------------------------------------------
(* main *)

OpenConf(p) ==
  /\ At(p, "load")
  /\ \/ Goto(p, "closeConf") /\ Opens(p, "conf")
     \/ Goto(p, "logFailure") /\ UNCHANGED fds
  /\ UNCHANGED <<logFd, nullFd, listening, exitcode>>

\* Mutant of CloseConf: fclose is forgotten.
CloseConfForgotten(p) ==
  /\ At(p, "closeConf") /\ Goto(p, "log")
  /\ UNCHANGED <<fds, logFd, nullFd, listening, exitcode>>

CloseConf(p) ==
  /\ At(p, "closeConf") /\ Goto(p, "log")
  /\ \E n \in Fd : fds[p][n] = "conf" /\ Closes(p, n)
  /\ UNCHANGED <<logFd, nullFd, listening, exitcode>>

\* Also if the configuration could not be read, to say so.
LogInit(p) ==
  /\ \/ At(p, "log") /\ Goto(p, "signals")
     \/ At(p, "logFailure") /\ Goto(p, "exit2")
  /\ \/ logFd' = [logFd EXCEPT ![p] = NewFd(p)] /\ Opens(p, "log")
     \/ logFd' = [logFd EXCEPT ![p] = Stderr] /\ UNCHANGED fds
  /\ UNCHANGED <<nullFd, listening, exitcode>>

InitSignals(p) ==
  /\ At(p, "signals")
  /\ Goto(p, "socket") \/ Goto(p, "exit1")
  /\ UNCHANGED <<fds, logFd, nullFd, listening, exitcode>>

\* ngx_open_listening_sockets: one socket more.
OpenSocket(p) ==
  /\ At(p, "socket")
  /\ \/ Goto(p, "bind") /\ Opens(p, Ports[listening[p] + 1])
     \/ Goto(p, "exit1") /\ UNCHANGED fds
  /\ UNCHANGED <<logFd, nullFd, listening, exitcode>>

Bound(p, port) ==
  port \in Range(fds[p]) /\ \E k \in 1..listening[p] : Ports[k] = port

\* Mutant of AddressFree: SO_REUSEPORT in place of SO_REUSEADDR.
AddressFreeAlways(port) == TRUE

\* SO_REUSEADDR does not let two sockets listen on a port.
AddressFree(port) == \A q \in Processes : ~Bound(q, port)

\* Mutant of AfterListen: one port is enough.
AfterListenFirst(count) == "title"
\* The loop over i.
AfterListen(count) == IF count < Len(Ports) THEN "socket" ELSE "title"

Listen(p) ==
  /\ At(p, "bind") /\ AddressFree(Ports[listening[p] + 1])
  /\ listening' = [listening EXCEPT ![p] = @ + 1]
  /\ Goto(p, AfterListen(listening[p] + 1))
  /\ UNCHANGED <<fds, logFd, nullFd, exitcode>>

\* Mutant of ListenFails: the loop goes on with the next port.
ListenFailsGoesOn(p) ==
  /\ At(p, "bind") /\ Goto(p, AfterListen(listening[p] + 1))
  /\ listening' = [listening EXCEPT ![p] = @ + 1]
  /\ \E n \in Fd : fds[p][n] = Ports[listening[p] + 1] /\ Closes(p, n)
  /\ UNCHANGED <<logFd, nullFd, exitcode>>

\* setsockopt, setnonblocking, bind or listen fails.
ListenFails(p) ==
  /\ At(p, "bind") /\ Goto(p, "exit1")
  /\ \E n \in Fd : fds[p][n] = Ports[listening[p] + 1] /\ Closes(p, n)
  /\ UNCHANGED <<logFd, nullFd, listening, exitcode>>

\* ngx_init_setproctitle, and the question of the daemon.
AskDaemon(p) ==
  /\ At(p, "title")
  /\ \E daemon \in Daemons : Goto(p, IF daemon THEN "fork" ELSE "run")
  /\ UNCHANGED <<fds, logFd, nullFd, listening, exitcode>>

Forked(f, s) == [f EXCEPT ![Daemon(s)] = f[Launcher(s)]]

\* The child has a copy of everything; the parent goes on to its end.
Fork(s) ==
  /\ At(Launcher(s), "fork")
  /\ \/ /\ step' = [step EXCEPT ![Launcher(s)] = "exit0", ![Daemon(s)] = "setsid"]
        /\ fds' = Forked(fds, s) /\ logFd' = Forked(logFd, s)
        /\ listening' = Forked(listening, s)
     \/ Goto(Launcher(s), "exit1") /\ UNCHANGED <<fds, logFd, listening>>
  /\ UNCHANGED <<nullFd, exitcode>>
-----------------------------------------------------------------------------
(* ngx_daemon, in the child *)

Setsid(p) ==
  /\ At(p, "setsid")
  /\ Goto(p, "null") \/ Goto(p, "exit1")
  /\ UNCHANGED <<fds, logFd, nullFd, listening, exitcode>>

OpenNull(p) ==
  /\ At(p, "null")
  /\ \/ /\ Goto(p, "dupStdin") /\ Opens(p, "null")
        /\ nullFd' = [nullFd EXCEPT ![p] = NewFd(p)]
     \/ Goto(p, "exit1") /\ UNCHANGED <<fds, nullFd>>
  /\ UNCHANGED <<logFd, listening, exitcode>>

Dup2(p, from, to, n) ==
  /\ At(p, from)
  /\ \/ Goto(p, to) /\ fds' = [fds EXCEPT ![p][n] = "null"]
     \/ Goto(p, "exit1") /\ UNCHANGED fds
  /\ UNCHANGED <<logFd, nullFd, listening, exitcode>>

\* Mutant of ClosedWithNull: all that is not standard is closed, as many daemons do.
ClosedWithNullAll(p) == {n \in Fd : n > Stderr}
\* close(fd), if fd is above the standard descriptors.
ClosedWithNull(p) == {nullFd[p]} \ {Stdin, Stdout, Stderr}

CloseNull(p) ==
  /\ At(p, "closeNull")
  /\ \/ Goto(p, "run")
     \/ Goto(p, "exit1")
  /\ fds' = [fds EXCEPT ![p] = [n \in Fd |-> IF n \in ClosedWithNull(p) THEN Closed ELSE @[n]]]
  /\ UNCHANGED <<logFd, nullFd, listening, exitcode>>
-----------------------------------------------------------------------------
\* freeresource, and the end of the process.
Exit(p) ==
  /\ \E code \in 0..2 : At(p, <<"exit0", "exit1", "exit2">>[code + 1])
                        /\ exitcode' = [exitcode EXCEPT ![p] = code]
  /\ Goto(p, "ended")
  /\ fds' = [fds EXCEPT ![p] = NoFds]
  /\ logFd' = [logFd EXCEPT ![p] = IF @ = Stderr THEN @ ELSE -1]
  /\ UNCHANGED <<nullFd, listening>>

\* A running master is killed.
Killed(p) ==
  /\ At(p, "run") /\ Goto(p, "ended")
  /\ fds' = [fds EXCEPT ![p] = NoFds]
  /\ UNCHANGED <<logFd, nullFd, listening, exitcode>>

Next ==
  \/ \E s \in Starts : Fork(s)
  \/ \E p \in Processes :
       \/ OpenConf(p) \/ CloseConf(p) \/ LogInit(p) \/ InitSignals(p) \/ OpenSocket(p)
       \/ Listen(p) \/ ListenFails(p) \/ AskDaemon(p) \/ Setsid(p) \/ OpenNull(p)
       \/ Dup2(p, "dupStdin", "dupStdout", Stdin)
       \/ Dup2(p, "dupStdout", "closeNull", Stdout)
       \/ CloseNull(p) \/ Exit(p) \/ Killed(p)

Spec == Init /\ [][Next]_vars
-----------------------------------------------------------------------------
(* Correctness *)

\* A process counts no port that it has not.
TypeOK ==
  /\ fds \in [Processes -> [Fd -> {Closed, "terminal", "conf", "log", "null"} \cup Range(Ports)]]
  /\ logFd \in [Processes -> Fd \cup {-1}] /\ nullFd \in [Processes -> Fd \cup {-1}]
  /\ listening \in [Processes -> 0..Len(Ports)] /\ exitcode \in [Processes -> -1..2]
  /\ \A p \in Processes :
       IF step[p] \in {"none", "ended"} THEN fds[p] = NoFds
       ELSE listening[p] <= Cardinality(Range(Ports) \cap Range(fds[p]))

\* A master that runs has every port of the configuration, its log, what it
\* started with and nothing else: neither the configuration nor /dev/null is
\* left open for the workers to inherit.
NothingStray ==
  \A p \in Processes : At(p, "run") =>
    LET open == {n \in Fd : fds[p][n] # Closed}
    IN  /\ {fds[p][n] : n \in open \ {Stdin, Stdout, Stderr, logFd[p]}} = Range(Ports)
        /\ Cardinality(open) = 3 + Len(Ports) + (IF logFd[p] = Stderr THEN 0 ELSE 1)

\* However often the program is started, one master serves the ports.
OneMaster ==
  \A p, q \in Processes : At(p, "run") /\ At(q, "run") => p = q

\* As long as a process may log, ngx_log.fd is the log or the terminal: it is never
\* a descriptor that was closed or given to something else, in the child of
\* ngx_daemon as in its parent.
LogUsable ==
  \A p \in Processes : (step[p] \notin {"none", "ended"} /\ logFd[p] # -1) =>
    fds[p][logFd[p]] = (IF logFd[p] = Stderr THEN "terminal" ELSE "log")

\* A process that ends with 0 leaves a child that has all ports and the log.
LauncherTrue ==
  [][\A s \in Starts : exitcode'[Launcher(s)] = 0 /\ exitcode[Launcher(s)] # 0 =>
       LET p == Daemon(s)
       IN  step[p] # "ended" =>
             listening[p] = Len(Ports) /\ Range(Ports) \subseteq Range(fds[p])]_vars
=============================================================================
