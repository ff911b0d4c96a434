---------------------------- MODULE PartsProofs ----------------------------
(***************************************************************************)
(* Theorems about start-up, the business logic, logging and the checksum,  *)
(* for any number of starts, ports, threads, clients and requests, any     *)
(* size of the log's buffer, any length of a body and any damage.          *)
(***************************************************************************)
EXTENDS Parts, ListLemmas

-----------------------------------------------------------------------------
(* Start-up: what a process has open at each place *)

Early == {"load", "logFailure", "closeConf", "log"}
Exits == {"exit0", "exit1", "exit2"}
Null == {"dupStdin", "dupStdout", "closeNull"}
\* Places where the process listens on all ports.
Full == {"title", "fork", "setsid", "null", "run", "exit0"} \cup Null
Late == {"signals", "socket", "bind"} \cup Full \cup Exits
DaemonPlaces == {"setsid", "null", "run", "exit1"} \cup Null
FileNames == {S!Closed, "terminal", "conf", "log", "null"} \cup Range(Ports)

\* The descriptor of the first port: the log, if it could be opened, has 3.
First(log) == IF log = S!Stderr THEN 3 ELSE 4

\* What follows the descriptors of the ports.
Extra(place, count) ==
  IF place = "bind" THEN Ports[count + 1]
  ELSE IF place \in Null THEN "null" ELSE S!Closed

\* At the beginning, only the configuration is open besides the terminal.
Third(place) == IF place = "closeConf" THEN "conf" ELSE S!Closed
EarlyTable(place) ==
  [n \in S!Fd |-> IF n <= 2 THEN "terminal" ELSE IF n = 3 THEN Third(place) ELSE S!Closed]

\* Later the descriptors are, in this order: the standard ones, the log, the ports
\* that are counted, and the file that is being opened or closed.
LateTable(place, f, log, null, count) ==
  /\ log \in {S!Stderr, 3} /\ count \in 0..Len(Ports)
  /\ f[S!Stdin] \in {"terminal", "null"} /\ f[S!Stdout] \in {"terminal", "null"}
  /\ f[S!Stderr] = "terminal"
  /\ log = 3 => f[3] = "log"
  /\ \A k \in 1..count : f[First(log) + k - 1] = Ports[k]
  /\ place = "signals" => count = 0
  /\ place \in {"socket", "bind"} => count < Len(Ports)
  /\ place \in Full => count = Len(Ports)
  /\ place \in Null => null = First(log) + count
  /\ place \notin Exits =>
       /\ f[First(log) + count] = Extra(place, count)
       /\ \A n \in S!Fd : n > First(log) + count => f[n] = S!Closed

\* A process at a place, with its descriptors, ngx_log.fd, that of /dev/null and
\* the number of its ports.
Proper(place, f, log, null, count) ==
  /\ place \in {"none", "ended"} \cup Early \cup Late
  /\ f \in [S!Fd -> FileNames]
  /\ place \in {"none", "ended"} => f = S!NoFds
  /\ place \in Early => f = EarlyTable(place) /\ log = -1 /\ count = 0
  /\ place \in Late => LateTable(place, f, log, null, count)

ProperAt(p) == Proper(step[p], fds[p], logFd[p], nullFd[p], listening[p])

Holds(p) == step[p] \in Late /\ listening[p] > 0

\* Two processes have ports at the same time only after a fork, until the parent
\* has ended.
Exclusive ==
  \A p, q \in S!Processes :
    Holds(p) /\ Holds(q) /\ p # q => step[p] = "exit0" \/ step[q] = "exit0"

\* A daemon is the copy of a process that has all ports, which ends only after it
\* has made it.
DaemonInv ==
  \A s \in Starts :
    /\ step[S!Daemon(s)] \notin {"none", "ended"} =>
         step[S!Daemon(s)] \in DaemonPlaces /\ listening[S!Daemon(s)] = Len(Ports)
    /\ step[S!Launcher(s)] = "exit0" => step[S!Daemon(s)] # "none"

StartTypes ==
  /\ step \in [S!Processes -> {"none", "ended"} \cup Early \cup Late]
  /\ fds \in [S!Processes -> [S!Fd -> FileNames]]
  /\ logFd \in [S!Processes -> S!Fd \cup {-1}] /\ nullFd \in [S!Processes -> S!Fd \cup {-1}]
  /\ listening \in [S!Processes -> 0..Len(Ports)] /\ exitcode \in [S!Processes -> -1..2]

StartInv ==
  StartTypes /\ (\A p \in S!Processes : ProperAt(p)) /\ Exclusive /\ DaemonInv

-----------------------------------------------------------------------------
\* The ports are different from each other and from what else is open.
LEMMA PortsAre ==
  /\ Len(Ports) \in Nat \ {0}
  /\ \A k \in 1..Len(Ports) :
       Ports[k] \in Range(Ports) /\ Ports[k] \in FileNames /\ Ports[k] # S!Closed
  /\ \A j, k \in 1..Len(Ports) : Ports[j] = Ports[k] => j = k
  /\ Range(Ports) = {Ports[k] : k \in 1..Len(Ports)}
<1>1. /\ Ports \in Seq(Range(Ports)) /\ Len(Ports) > 0 /\ IsInjective(Ports)
      /\ S!Closed \notin Range(Ports)
  BY PartsAssumption DEF S!StartupAssumption, S!IsInjective, S!Range, IsInjective, Range
<1>2. DOMAIN Ports = 1..Len(Ports) /\ Len(Ports) \in Nat
  BY <1>1, LenProperties
<1>. QED  BY <1>1, <1>2 DEF IsInjective, Range, FileNames
\* open and socket choose the only free number that has no free one below.
LEMMA FirstFree ==
  ASSUME NEW p \in S!Processes, NEW m \in S!Fd, fds[p][m] = S!Closed,
         \A k \in S!Fd : k < m => fds[p][k] # S!Closed
  PROVE  S!NewFd(p) = m
<1>1. Len(Ports) \in Nat
  BY PortsAre
<1>2. \A k \in 0..(m - 1) : k \in S!Fd /\ k < m
  BY <1>1 DEF S!Fd
<1>3. \A n \in S!Fd :
        fds[p][n] = S!Closed /\ (\A k \in 0..(n - 1) : fds[p][k] # S!Closed) => n = m
  <2>1. ASSUME NEW n \in S!Fd, fds[p][n] = S!Closed, n # m,
               \A k \in 0..(n - 1) : fds[p][k] # S!Closed
        PROVE  FALSE
    <3>1. n < m \/ m \in 0..(n - 1)
      BY <1>1, <2>1 DEF S!Fd
    <3>. QED  BY <2>1, <3>1
  <2>. QED  BY <2>1
<1>. QED  BY <1>2, <1>3 DEF S!NewFd

\* A step of one process: the others stay where they are.
OthersStay(p) ==
  \A q \in S!Processes \ {p} :
    /\ step'[q] = step[q] /\ fds'[q] = fds[q] /\ logFd'[q] = logFd[q]
    /\ nullFd'[q] = nullFd[q] /\ listening'[q] = listening[q]

\* What a step of process p has to see to.
LEMMA StepOf ==
  ASSUME StartInv, NEW p \in S!Processes, OthersStay(p), StartTypes', ProperAt(p)',
         Holds(p)' => Holds(p) \/ \A q \in S!Processes \ {p} : ~Holds(q),
         step[p] = "exit0" => ~Holds(p)',
         step'[p] \notin {"none", "exit0"},
         p[2] = "daemon" /\ step'[p] # "ended" =>
           step'[p] \in DaemonPlaces /\ listening'[p] = Len(Ports)
  PROVE  StartInv'
<1>1. \A q \in S!Processes \ {p} : (ProperAt(q)' <=> ProperAt(q)) /\ (Holds(q)' <=> Holds(q))
  BY DEF OthersStay, ProperAt, Holds
<1>2. \A q \in S!Processes : ProperAt(q)'
  BY <1>1 DEF StartInv
<1>3. Exclusive'
  <2>. SUFFICES ASSUME NEW q \in S!Processes, NEW r \in S!Processes,
                       Holds(q)', Holds(r)', q # r
                PROVE  step'[q] = "exit0" \/ step'[r] = "exit0"
    BY DEF Exclusive
  <2>1. CASE q = p
    BY <1>1, <2>1 DEF StartInv, Exclusive, OthersStay
  <2>2. CASE r = p
    BY <1>1, <2>2 DEF StartInv, Exclusive, OthersStay
  <2>3. CASE q # p /\ r # p
    BY <1>1, <2>3 DEF StartInv, Exclusive, OthersStay
  <2>. QED  BY <2>1, <2>2, <2>3
<1>4. DaemonInv'
  <2>. SUFFICES ASSUME NEW s \in Starts
                PROVE  /\ step'[S!Daemon(s)] \notin {"none", "ended"} =>
                            /\ step'[S!Daemon(s)] \in DaemonPlaces
                            /\ listening'[S!Daemon(s)] = Len(Ports)
                       /\ step'[S!Launcher(s)] = "exit0" => step'[S!Daemon(s)] # "none"
    BY DEF DaemonInv
  <2>1. /\ S!Daemon(s) \in S!Processes /\ S!Daemon(s)[2] = "daemon"
        /\ S!Launcher(s) \in S!Processes
    BY DEF S!Daemon, S!Launcher, S!Processes
  <2>. QED  BY <2>1 DEF StartInv, DaemonInv, OthersStay
<1>. QED  BY <1>2, <1>3, <1>4 DEF StartInv, StartTypes

\* What process p has after the step.
Moves(p, place, f, log, null, count) ==
  /\ step' = [step EXCEPT ![p] = place] /\ fds' = [fds EXCEPT ![p] = f]
  /\ logFd' = [logFd EXCEPT ![p] = log] /\ nullFd' = [nullFd EXCEPT ![p] = null]
  /\ listening' = [listening EXCEPT ![p] = count]

\* A step of one process may be checked on that process alone.
LEMMA UpdateStep ==
  ASSUME StartInv, NEW p \in S!Processes,
         NEW place, NEW f, NEW log, NEW null, NEW count,
         Moves(p, place, f, log, null, count),
         exitcode' \in [S!Processes -> -1..2],
         log \in S!Fd \cup {-1}, null \in S!Fd \cup {-1}, count \in 0..Len(Ports),
         Proper(place, f, log, null, count), place \notin {"none", "exit0"},
         place \in Late /\ count > 0 =>
           Holds(p) \/ \A q \in S!Processes \ {p} : ~Holds(q),
         step[p] = "exit0" => place = "ended",
         p[2] = "daemon" /\ place # "ended" =>
           place \in DaemonPlaces /\ count = Len(Ports)
  PROVE  StartInv'
<1>1. /\ step \in [S!Processes -> {"none", "ended"} \cup Early \cup Late]
      /\ fds \in [S!Processes -> [S!Fd -> FileNames]]
      /\ logFd \in [S!Processes -> S!Fd \cup {-1}]
      /\ nullFd \in [S!Processes -> S!Fd \cup {-1}]
      /\ listening \in [S!Processes -> 0..Len(Ports)]
  BY DEF StartInv, StartTypes
<1>2. /\ place \in {"none", "ended"} \cup Early \cup Late /\ f \in [S!Fd -> FileNames]
      /\ "ended" \notin Late
  BY DEF Proper, Late, Full, Null, Exits
<1>3. /\ step'[p] = place /\ fds'[p] = f /\ logFd'[p] = log /\ nullFd'[p] = null
      /\ listening'[p] = count
  BY <1>1 DEF Moves
<1>4. OthersStay(p)
  BY <1>1 DEF OthersStay, Moves
<1>5. StartTypes'
  BY <1>1, <1>2 DEF StartTypes, Moves
<1>6. ProperAt(p)'
  BY <1>3 DEF ProperAt
<1>7. Holds(p)' <=> place \in Late /\ count > 0
  BY <1>3 DEF Holds
<1>. QED  BY <1>2, <1>3, <1>4, <1>5, <1>6, <1>7, StepOf

\* A step leaves a variable alone that it is not said to change.
LEMMA Alone ==
  ASSUME StartInv, NEW p \in S!Processes
  PROVE  /\ UNCHANGED fds => fds' = [fds EXCEPT ![p] = fds[p]]
         /\ UNCHANGED logFd => logFd' = [logFd EXCEPT ![p] = logFd[p]]
         /\ UNCHANGED nullFd => nullFd' = [nullFd EXCEPT ![p] = nullFd[p]]
         /\ UNCHANGED listening => listening' = [listening EXCEPT ![p] = listening[p]]
         /\ UNCHANGED exitcode => exitcode' \in [S!Processes -> -1..2]
         /\ fds[p] \in [S!Fd -> FileNames] /\ logFd[p] \in S!Fd \cup {-1}
         /\ nullFd[p] \in S!Fd \cup {-1} /\ listening[p] \in 0..Len(Ports)
         /\ Proper(step[p], fds[p], logFd[p], nullFd[p], listening[p])
BY DEF StartInv, StartTypes, ProperAt

\* Where a daemon can be.
LEMMA DaemonAt ==
  ASSUME StartInv, NEW p \in S!Processes, p[2] = "daemon",
         step[p] \notin {"none", "ended"}
  PROVE  step[p] \in DaemonPlaces /\ listening[p] = Len(Ports)
<1>1. p = S!Daemon(p[1]) /\ p[1] \in Starts
  BY DEF S!Daemon, S!Processes
<1>. QED  BY <1>1 DEF StartInv, DaemonInv

\* Before the log is opened the configuration comes to 3 and goes again.
LEMMA EarlyTables ==
  ASSUME NEW place
  PROVE  /\ EarlyTable(place) \in [S!Fd -> FileNames]
         /\ \A n \in {0, 1, 2} : EarlyTable(place)[n] = "terminal"
         /\ \A n \in S!Fd : EarlyTable(place)[n] = "conf" => n = 3
         /\ \A n \in S!Fd : n > 3 => EarlyTable(place)[n] = S!Closed
         /\ EarlyTable(place)[3] = Third(place)
         /\ [EarlyTable("closeConf") EXCEPT ![3] = S!Closed] = EarlyTable("log")
         /\ [EarlyTable("load") EXCEPT ![3] = "conf"] = EarlyTable("closeConf")
         /\ EarlyTable("logFailure") = EarlyTable("load")
         /\ 0 \in S!Fd /\ 1 \in S!Fd /\ 2 \in S!Fd /\ 3 \in S!Fd /\ 4 \in S!Fd
<1>. DEFINE f == EarlyTable(place)
<1>1. /\ 0 \in S!Fd /\ 1 \in S!Fd /\ 2 \in S!Fd /\ 3 \in S!Fd /\ 4 \in S!Fd
      /\ \A k \in S!Fd : k \in Nat
  BY PortsAre DEF S!Fd
<1>2. f = [n \in S!Fd |-> IF n <= 2 THEN "terminal"
                         ELSE IF n = 3 THEN Third(place) ELSE S!Closed]
  BY DEF EarlyTable
<1>3. f \in [S!Fd -> FileNames]
  BY <1>2 DEF FileNames, Third
<1>. HIDE DEF f
<1>4. f[0] = "terminal" /\ f[1] = "terminal" /\ f[2] = "terminal" /\ f[3] = Third(place)
  BY <1>1, <1>2
<1>5. \A n \in S!Fd : n > 3 => f[n] = S!Closed
  BY <1>1, <1>2
<1>6. ASSUME NEW n \in S!Fd, f[n] = "conf" PROVE n = 3
  <2>1. f[n] \in {"terminal", Third(place), S!Closed}
    BY <1>2
  <2>2. n \in {0, 1, 2, 3} \/ n > 3
    BY <1>1
  <2>. QED  BY <1>4, <1>5, <1>6, <2>2 DEF S!Closed
<1>7. ASSUME NEW q, NEW r, NEW c, Third(q) = c
      PROVE  [EarlyTable(r) EXCEPT ![3] = c] = EarlyTable(q)
  <2>. DEFINE g == EarlyTable(r)
              h == EarlyTable(q)
  <2>1. /\ g = [n \in S!Fd |-> IF n <= 2 THEN "terminal"
                               ELSE IF n = 3 THEN Third(r) ELSE S!Closed]
        /\ h = [n \in S!Fd |-> IF n <= 2 THEN "terminal"
                               ELSE IF n = 3 THEN Third(q) ELSE S!Closed]
    BY DEF EarlyTable
  <2>. HIDE DEF g, h
  <2>2. ASSUME NEW n \in S!Fd PROVE [g EXCEPT ![3] = c][n] = h[n]
    BY <1>1, <1>7, <2>1
  <2>3. DOMAIN [g EXCEPT ![3] = c] = S!Fd /\ DOMAIN h = S!Fd
    BY <2>1
  <2>. QED  BY <2>1, <2>2, <2>3 DEF g, h
<1>8. /\ Third("log") = S!Closed /\ Third("closeConf") = "conf"
      /\ Third("logFailure") = S!Closed /\ Third("load") = S!Closed
  BY DEF Third
<1>9. EarlyTable("logFailure") = EarlyTable("load")
  BY <1>8 DEF EarlyTable
<1>10. /\ [EarlyTable("closeConf") EXCEPT ![3] = S!Closed] = EarlyTable("log")
       /\ [EarlyTable("load") EXCEPT ![3] = "conf"] = EarlyTable("closeConf")
  BY <1>7, <1>8
<1>. QED  BY <1>1, <1>3, <1>4, <1>5, <1>6, <1>9, <1>10 DEF f

\* A step that changes nothing but the place.
LEMMA GotoStep ==
  ASSUME StartInv, NEW p \in S!Processes, NEW place, S!Goto(p, place),
         UNCHANGED <<fds, logFd, nullFd, listening, exitcode>>,
         Proper(place, fds[p], logFd[p], nullFd[p], listening[p]),
         place \notin {"none", "exit0"}, step[p] # "exit0",
         place \in Late => step[p] \in Late,
         p[2] = "daemon" /\ place # "ended" =>
           place \in DaemonPlaces /\ listening[p] = Len(Ports)
  PROVE  StartInv'
<1>1. Moves(p, place, fds[p], logFd[p], nullFd[p], listening[p])
  BY Alone DEF Moves, S!Goto
<1>2. listening[p] > 0 /\ place \in Late => Holds(p)
  BY DEF Holds
<1>. QED  BY <1>1, <1>2, Alone, UpdateStep

\* main, up to the log.
LEMMA ConfStep ==
  ASSUME StartInv, NEW p \in S!Processes, S!OpenConf(p) \/ S!CloseConf(p)
  PROVE  StartInv'
<1>. DEFINE f == fds[p]
<1>1. step[p] \in Early /\ p[2] # "daemon" /\ step[p] # "exit0"
  <2>1. step[p] \in {"load", "closeConf"}
    BY DEF S!OpenConf, S!CloseConf, S!At
  <2>. QED  BY <2>1, DaemonAt DEF Early, DaemonPlaces, Null
<1>2. f = EarlyTable(step[p]) /\ logFd[p] = -1 /\ listening[p] = 0
  BY <1>1, Alone DEF Proper
<1>3. ASSUME NEW place \in Early, S!Goto(p, place),
             fds' = [fds EXCEPT ![p] = EarlyTable(place)],
             UNCHANGED <<logFd, nullFd, listening, exitcode>>
      PROVE  StartInv'
  <2>1. EarlyTable(place) \in [S!Fd -> FileNames]
    BY EarlyTables
  <2>2. place \notin Late /\ place \notin {"none", "ended", "exit0"}
    BY <1>3 DEF Early, Late, Full, Null, Exits
  <2>3. Proper(place, EarlyTable(place), logFd[p], nullFd[p], listening[p])
    BY <1>2, <2>1, <2>2 DEF Proper
  <2>4. Moves(p, place, EarlyTable(place), logFd[p], nullFd[p], listening[p])
    BY <1>3, Alone DEF Moves, S!Goto
  <2>. QED
    BY <1>1, <1>3, <2>2, <2>3, <2>4, UpdateStep, Alone
<1>4. CASE S!OpenConf(p)
  <2>1. /\ step[p] = "load" /\ UNCHANGED <<logFd, nullFd, listening, exitcode>>
        /\ "closeConf" \in Early /\ "logFailure" \in Early
    BY <1>4 DEF S!OpenConf, S!At, Early
  <2>2. CASE S!Goto(p, "closeConf") /\ S!Opens(p, "conf")
    <3>1. /\ f[0] = "terminal" /\ f[1] = "terminal" /\ f[2] = "terminal"
          /\ f[3] = S!Closed /\ 3 \in S!Fd
          /\ [f EXCEPT ![3] = "conf"] = EarlyTable("closeConf")
      <4>1. f = EarlyTable("load") /\ Third("load") = S!Closed
        BY <1>2, <2>1 DEF Third
      <4>. HIDE DEF f
      <4>. QED  BY <4>1, EarlyTables
    <3>2. \A k \in S!Fd : k < 3 => k \in {0, 1, 2}
      BY PortsAre DEF S!Fd
    <3>3. S!NewFd(p) = 3
      BY <3>1, <3>2, FirstFree DEF S!Closed
    <3>4. fds' = [fds EXCEPT ![p] = EarlyTable("closeConf")]
      BY <2>2, <3>1, <3>3 DEF S!Opens, StartInv, StartTypes
    <3>. QED  BY <1>3, <2>1, <2>2, <3>4
  <2>3. CASE S!Goto(p, "logFailure") /\ UNCHANGED fds
    <3>1. f = EarlyTable("logFailure")
      BY <1>2, <2>1, EarlyTables
    <3>2. fds' = [fds EXCEPT ![p] = EarlyTable("logFailure")]
      BY <2>3, <3>1, Alone
    <3>. QED  BY <1>3, <2>1, <2>3, <3>2
  <2>. QED  BY <1>4, <2>2, <2>3 DEF S!OpenConf
<1>5. CASE S!CloseConf(p)
  <2>1. /\ step[p] = "closeConf" /\ UNCHANGED <<logFd, nullFd, listening, exitcode>>
        /\ "log" \in Early /\ S!Goto(p, "log")
    BY <1>5 DEF S!CloseConf, S!At, Early
  <2>2. PICK n \in S!Fd : f[n] = "conf" /\ S!Closes(p, n)
    BY <1>5 DEF S!CloseConf
  <2>3. n = 3 /\ [f EXCEPT ![3] = S!Closed] = EarlyTable("log")
    <3>1. f = EarlyTable("closeConf") /\ f[n] = "conf"
      BY <1>2, <2>1, <2>2
    <3>. HIDE DEF f
    <3>. QED  BY <3>1, EarlyTables
  <2>4. fds' = [fds EXCEPT ![p] = EarlyTable("log")]
    BY <2>2, <2>3 DEF S!Closes, StartInv, StartTypes
  <2>. QED  BY <1>3, <2>1, <2>4
<1>. QED  BY <1>4, <1>5

\* The log, if it can be opened, comes after the terminal.
LEMMA LogTable ==
  ASSUME NEW place \in {"signals", "exit2"}, NEW g \in [S!Fd -> FileNames],
         NEW log, NEW null,
         g[0] = "terminal", g[1] = "terminal", g[2] = "terminal",
         (log = 2 /\ g[3] = S!Closed) \/ (log = 3 /\ g[3] = "log"),
         \A n \in S!Fd : n > 3 => g[n] = S!Closed
  PROVE  Proper(place, g, log, null, 0)
<1>1. Len(Ports) \in Nat \ {0} /\ 0 \in 0..Len(Ports) /\ 4 \in S!Fd /\ S!Fd \subseteq Nat
  BY PortsAre DEF S!Fd
<1>2. /\ place \notin Full /\ place \notin Null /\ place \in Late /\ place \notin Early
      /\ place \notin {"none", "ended", "socket", "bind"}
  BY DEF Full, Null, Late, Early, Exits
<1>3. First(log) \in {3, 4} /\ First(log) + 0 = First(log)
  BY DEF First
<1>4. g[First(log)] = S!Closed /\ \A n \in S!Fd : n > First(log) => g[n] = S!Closed
  BY <1>1 DEF First, S!Stderr
<1>5. Extra(place, 0) = S!Closed
  BY <1>2 DEF Extra
<1>6. LateTable(place, g, log, null, 0)
  BY <1>1, <1>2, <1>3, <1>4, <1>5 DEF LateTable, S!Closed, S!Stdin, S!Stdout, S!Stderr
<1>. QED  BY <1>2, <1>6 DEF Proper

\* ngx_log_init.
LEMMA LogInitStep ==
  ASSUME StartInv, NEW p \in S!Processes, S!LogInit(p)
  PROVE  StartInv'
<1>. DEFINE f == fds[p]
<1>1. PICK place \in {"signals", "exit2"} :
        /\ step[p] \in {"log", "logFailure"} /\ S!Goto(p, place)
        /\ UNCHANGED <<nullFd, listening, exitcode>>
  BY DEF S!LogInit, S!At
<1>2. p[2] # "daemon" /\ step[p] # "exit0" /\ step[p] \in Early
  BY <1>1, DaemonAt DEF Early, DaemonPlaces, Null
<1>3. f = EarlyTable(step[p]) /\ listening[p] = 0 /\ Third(step[p]) = S!Closed
  BY <1>1, <1>2, Alone DEF Proper, Third
<1>4. /\ f \in [S!Fd -> FileNames] /\ 2 \in S!Fd /\ 3 \in S!Fd
      /\ f[0] = "terminal" /\ f[1] = "terminal" /\ f[2] = "terminal" /\ f[3] = S!Closed
      /\ \A n \in S!Fd : n > 3 => f[n] = S!Closed
  <2>. HIDE DEF f
  <2>. QED  BY <1>3, EarlyTables
<1>5. S!NewFd(p) = 3
  <2>1. \A k \in S!Fd : k < 3 => k \in {0, 1, 2}
    BY PortsAre DEF S!Fd
  <2>. QED  BY <1>4, <2>1, FirstFree DEF S!Closed
<1>6. ASSUME NEW g, NEW log \in {2, 3}, fds' = [fds EXCEPT ![p] = g],
             logFd' = [logFd EXCEPT ![p] = log], Proper(place, g, log, nullFd[p], 0)
      PROVE  StartInv'
  <2>1. Moves(p, place, g, log, nullFd[p], 0)
    BY <1>1, <1>3, <1>6, Alone DEF Moves, S!Goto
  <2>2. 0 \in 0..Len(Ports) /\ log \in S!Fd \cup {-1}
    BY <1>4, PortsAre
  <2>3. place \notin {"none", "exit0"} /\ ~(0 > 0)
    BY <1>1
  <2>4. exitcode' \in [S!Processes -> -1..2] /\ nullFd[p] \in S!Fd \cup {-1}
    BY <1>1, Alone
  <2>. QED  BY ONLY StartInv, <1>2, <1>6, <2>1, <2>2, <2>3, <2>4, UpdateStep
<1>7. CASE logFd' = [logFd EXCEPT ![p] = S!NewFd(p)] /\ S!Opens(p, "log")
  <2>. DEFINE g == [f EXCEPT ![3] = "log"]
  <2>1. fds' = [fds EXCEPT ![p] = g]
    BY <1>5, <1>7 DEF S!Opens, StartInv, StartTypes
  <2>2. /\ g \in [S!Fd -> FileNames] /\ g[0] = "terminal" /\ g[1] = "terminal"
        /\ g[2] = "terminal" /\ g[3] = "log"
        /\ \A n \in S!Fd : n > 3 => g[n] = S!Closed
    <3>1. "log" \in FileNames /\ 0 \in S!Fd /\ 1 \in S!Fd
      BY EarlyTables DEF FileNames
    <3>. HIDE DEF f
    <3>. QED  BY <1>4, <3>1
  <2>. HIDE DEF g
  <2>3. Proper(place, g, 3, nullFd[p], 0)
    BY <2>2, LogTable
  <2>. QED  BY <1>5, <1>6, <1>7, <2>1, <2>3
<1>8. CASE logFd' = [logFd EXCEPT ![p] = S!Stderr] /\ UNCHANGED fds
  <2>1. Proper(place, f, 2, nullFd[p], 0)
    <3>. HIDE DEF f
    <3>. QED  BY <1>4, LogTable
  <2>. QED  BY <1>6, <1>8, <2>1, Alone DEF S!Stderr
<1>. QED  BY <1>7, <1>8 DEF S!LogInit

\* A process whose descriptors are proper where it is may go to exit, and from one
\* place to another if neither has a file in hand.
LEMMA SameTable ==
  ASSUME NEW place \in Late, NEW to \in Late, NEW f, NEW log, NEW null, NEW count,
         Proper(place, f, log, null, count),
         to # "exit0", to # "signals", to # "bind", to \notin Null,
         to \notin Exits => place \notin Exits \cup Null \cup {"bind"},
         to \in Full => place \in Full,
         to = "socket" => place = "signals"
  PROVE  Proper(to, f, log, null, count)
<1>1. Len(Ports) \in Nat \ {0}
  BY PortsAre
<1>2. "signals" \notin Exits /\ "exit0" \in Exits
  BY DEF Exits
<1>3. to \notin {"none", "ended"} \cup Early
  BY DEF Late, Full, Null, Exits, Early
<1>4. LateTable(place, f, log, null, count) /\ f \in [S!Fd -> FileNames]
  BY DEF Proper
<1>5. ASSUME to \notin Exits
      PROVE  /\ f[First(log) + count] = Extra(to, count)
             /\ \A n \in S!Fd : n > First(log) + count => f[n] = S!Closed
  BY <1>4, <1>5 DEF LateTable, Extra
<1>6. to \in {"socket", "bind"} => count < Len(Ports)
  BY <1>1, <1>4 DEF LateTable
<1>7. to \in Full => count = Len(Ports)
  BY <1>4 DEF LateTable
<1>8. LateTable(to, f, log, null, count)
  BY <1>4, <1>5, <1>6, <1>7 DEF LateTable
<1>. QED  BY <1>3, <1>4, <1>8 DEF Proper

\* A step that changes nothing but the place, to one of those.
LEMMA LateGoto ==
  ASSUME StartInv, NEW p \in S!Processes, NEW to \in Late, step[p] \in Late, S!Goto(p, to),
         UNCHANGED <<fds, logFd, nullFd, listening, exitcode>>,
         step[p] # "exit0", to # "exit0", to # "signals", to # "bind", to \notin Null,
         to \notin Exits => step[p] \notin Exits \cup Null \cup {"bind"},
         to \in Full => step[p] \in Full,
         to = "socket" => step[p] = "signals",
         p[2] = "daemon" => to \in DaemonPlaces
  PROVE  StartInv'
<1>1. Proper(to, fds[p], logFd[p], nullFd[p], listening[p])
  BY Alone, SameTable
<1>2. to \notin {"none", "ended"} /\ step[p] \notin {"none", "ended"}
  BY DEF Late, Full, Null, Exits
<1>3. p[2] = "daemon" => listening[p] = Len(Ports)
  BY <1>2, DaemonAt
<1>. QED  BY <1>1, <1>2, <1>3, GotoStep

\* A process may give up at every place after ngx_log_init.
LEMMA FailStep ==
  ASSUME StartInv, NEW p \in S!Processes, step[p] \in Late \ {"exit0"}, S!Goto(p, "exit1"),
         UNCHANGED <<fds, logFd, nullFd, listening, exitcode>>
  PROVE  StartInv'
<1>1. /\ "exit1" \in Late /\ "exit1" \in Exits /\ "exit1" \in DaemonPlaces
      /\ "exit1" \notin Full /\ "exit1" \notin Null
  BY DEF Late, Exits, DaemonPlaces, Full, Null
<1>. QED  BY <1>1, LateGoto

\* ngx_init_signals, the question of the daemon, setsid.
LEMMA QuietStep ==
  ASSUME StartInv, NEW p \in S!Processes,
         S!InitSignals(p) \/ S!AskDaemon(p) \/ S!Setsid(p)
  PROVE  StartInv'
<1>1. UNCHANGED <<fds, logFd, nullFd, listening, exitcode>>
  BY DEF S!InitSignals, S!AskDaemon, S!Setsid
<1>2. /\ step[p] \in {"signals", "title", "setsid"}
      /\ \/ step[p] = "signals" /\ S!Goto(p, "socket")
         \/ step[p] = "title" /\ (S!Goto(p, "fork") \/ S!Goto(p, "run"))
         \/ step[p] = "setsid" /\ S!Goto(p, "null")
         \/ S!Goto(p, "exit1")
  BY DEF S!InitSignals, S!AskDaemon, S!Setsid, S!At
<1>3. /\ step[p] \in Late \ {"exit0"} /\ step[p] \notin Exits \cup Null \cup {"bind"}
      /\ {"socket", "fork", "run", "null"} \subseteq Late
      /\ {"socket", "fork", "run", "null"} \cap (Exits \cup Null) = {}
      /\ "socket" \notin Full /\ "title" \in Full /\ "setsid" \in Full
      /\ "null" \in DaemonPlaces
  BY <1>2 DEF Late, Full, Null, Exits, DaemonPlaces
<1>4. p[2] = "daemon" => step[p] = "setsid"
  BY <1>2, DaemonAt DEF DaemonPlaces, Null
<1>. QED  BY <1>1, <1>2, <1>3, <1>4, LateGoto, FailStep

\* Below the file in hand all descriptors are in use, and only those.
LEMMA Filled ==
  ASSUME NEW place \in Late, NEW f, NEW log, NEW null, NEW count,
         Proper(place, f, log, null, count)
  PROVE  /\ First(log) \in {3, 4} /\ count \in Nat
         /\ First(log) + count \in S!Fd /\ First(log) + count + 1 \in S!Fd
         /\ \A k \in S!Fd : k < First(log) + count => f[k] # S!Closed
         /\ \A k \in S!Fd : k < First(log) + count =>
              \/ k \in {0, 1, 2} /\ f[k] \in {"terminal", "null"}
              \/ k = 3 /\ log = 3 /\ f[k] = "log"
              \/ \E j \in 1..count : k = First(log) + j - 1 /\ f[k] = Ports[j]
<1>1. Len(Ports) \in Nat \ {0} /\ \A k \in 1..Len(Ports) : Ports[k] # S!Closed
  BY PortsAre
<1>2. LateTable(place, f, log, null, count)
  BY DEF Proper, Late, Full, Null, Exits
<1>3. /\ count \in 0..Len(Ports) /\ log \in {2, 3}
      /\ f[0] \in {"terminal", "null"} /\ f[1] \in {"terminal", "null"} /\ f[2] = "terminal"
      /\ log = 3 => f[3] = "log"
      /\ \A k \in 1..count : f[First(log) + k - 1] = Ports[k]
  BY <1>2 DEF LateTable, S!Stdin, S!Stdout, S!Stderr
<1>4. First(log) \in {3, 4} /\ (First(log) = 4 <=> log = 3)
  BY <1>3 DEF First, S!Stderr
<1>5. First(log) + count \in S!Fd /\ First(log) + count + 1 \in S!Fd
  BY <1>1, <1>3, <1>4 DEF S!Fd
<1>6. ASSUME NEW k \in S!Fd, k < First(log) + count
      PROVE  \/ k \in {0, 1, 2} /\ f[k] \in {"terminal", "null"}
             \/ k = 3 /\ log = 3 /\ f[k] = "log"
             \/ \E j \in 1..count : k = First(log) + j - 1 /\ f[k] = Ports[j]
  <2>1. k \in Nat
    BY <1>1 DEF S!Fd
  <2>2. CASE k <= 2
    <3>1. k \in {0, 1, 2}
      BY <2>1, <2>2
    <3>. QED  BY <3>1, <1>3
  <2>3. CASE k = 3 /\ log = 3
    BY <1>3, <2>3
  <2>4. CASE ~(k <= 2) /\ ~(k = 3 /\ log = 3)
    <3>1. k >= First(log)
      BY <1>3, <1>4, <2>1, <2>4
    <3>2. k - First(log) + 1 \in 1..count /\ k = First(log) + (k - First(log) + 1) - 1
      BY <1>3, <1>4, <1>6, <2>1, <3>1
    <3>3. f[k] = Ports[k - First(log) + 1]
      BY <1>3, <3>2
    <3>. QED  BY <3>2, <3>3
  <2>. QED  BY <2>2, <2>3, <2>4
<1>7. ASSUME NEW k \in S!Fd, k < First(log) + count PROVE f[k] # S!Closed
  <2>1. \A j \in 1..count : Ports[j] # S!Closed
    BY <1>1, <1>3
  <2>. QED  BY <1>6, <1>7, <2>1 DEF S!Closed
<1>. QED  BY <1>3, <1>4, <1>5, <1>6, <1>7

\* The file in hand is opened or closed.
LEMMA InHandTable ==
  ASSUME NEW place \in Late \ Exits, NEW to \in Late, NEW f, NEW log, NEW null, NEW count,
         NEW x \in FileNames, NEW null1,
         Proper(place, f, log, null, count),
         to \notin Exits => x = Extra(to, count),
         to # "signals",
         to \in {"socket", "bind"} => count < Len(Ports),
         to \in Full => count = Len(Ports),
         to \in Null => null1 = First(log) + count
  PROVE  Proper(to, [f EXCEPT ![First(log) + count] = x], log, null1, count)
<1>. DEFINE m == First(log) + count
            g == [f EXCEPT ![m] = x]
<1>1. Len(Ports) \in Nat \ {0} /\ S!Fd \subseteq Nat
  BY PortsAre DEF S!Fd
<1>2. LateTable(place, f, log, null, count) /\ f \in [S!Fd -> FileNames]
  BY DEF Proper, Late, Full, Null, Exits
<1>3. First(log) \in {3, 4} /\ count \in Nat /\ m \in S!Fd /\ count \in 0..Len(Ports)
  BY <1>2, Filled DEF LateTable
<1>4. First(log) = 4 <=> log = 3
  BY <1>2 DEF First, LateTable, S!Stderr
<1>5. g \in [S!Fd -> FileNames] /\ g[m] = x /\ \A n \in S!Fd : n # m => g[n] = f[n]
  BY <1>2, <1>3
<1>. HIDE DEF g
<1>6. /\ 0 \in S!Fd /\ 1 \in S!Fd /\ 2 \in S!Fd /\ 3 \in S!Fd
      /\ m \notin {0, 1, 2} /\ (log = 3 => m # 3)
  BY <1>3, <1>4, EarlyTables
<1>7. /\ g[0] = f[0] /\ g[1] = f[1] /\ g[2] = f[2] /\ (log = 3 => g[3] = f[3])
  BY <1>5, <1>6
<1>8. \A k \in 1..count : g[First(log) + k - 1] = Ports[k]
  <2>1. ASSUME NEW k \in 1..count
        PROVE  First(log) + k - 1 \in S!Fd /\ First(log) + k - 1 # m
    BY <1>1, <1>3 DEF S!Fd
  <2>. QED  BY <1>2, <1>5, <2>1 DEF LateTable
<1>9. \A n \in S!Fd : n > m => g[n] = S!Closed
  BY <1>1, <1>2, <1>3, <1>5 DEF LateTable
<1>10. LateTable(to, g, log, null1, count)
  BY <1>2, <1>3, <1>5, <1>7, <1>8, <1>9 DEF LateTable, S!Stdin, S!Stdout, S!Stderr
<1>11. to \notin {"none", "ended"} \cup Early
  BY DEF Late, Full, Null, Exits, Early
<1>. QED  BY <1>5, <1>10, <1>11 DEF Proper, g

\* The number that follows the ports gets a file, or loses it.
LEMMA InHandStep ==
  ASSUME StartInv, NEW p \in S!Processes, step[p] \in Late \ Exits,
         NEW to \in Late \ {"exit0", "signals"}, NEW x \in FileNames,
         NEW null1 \in S!Fd \cup {-1}, S!Goto(p, to),
         fds' = [fds EXCEPT ![p][First(logFd[p]) + listening[p]] = x],
         nullFd' = [nullFd EXCEPT ![p] = null1],
         UNCHANGED <<logFd, listening, exitcode>>,
         to \notin Exits => x = Extra(to, listening[p]),
         to \in {"socket", "bind"} => listening[p] < Len(Ports),
         to \in Full => listening[p] = Len(Ports),
         to \in Null => null1 = First(logFd[p]) + listening[p],
         p[2] = "daemon" => to \in DaemonPlaces
  PROVE  StartInv'
<1>. DEFINE m == First(logFd[p]) + listening[p]
            g == [fds[p] EXCEPT ![m] = x]
<1>1. Proper(step[p], fds[p], logFd[p], nullFd[p], listening[p])
  BY Alone
<1>2. Proper(to, g, logFd[p], null1, listening[p])
  BY <1>1, InHandTable
<1>3. /\ to \notin {"none", "ended", "exit0"} /\ step[p] \notin {"none", "ended"}
      /\ step[p] # "exit0"
  BY DEF Late, Full, Null, Exits
<1>4. p[2] = "daemon" => listening[p] = Len(Ports)
  BY <1>3, DaemonAt
<1>5. fds' = [fds EXCEPT ![p] = g]
  BY DEF StartInv, StartTypes
<1>. HIDE DEF g
<1>6. Moves(p, to, g, logFd[p], null1, listening[p])
  BY <1>5, Alone DEF Moves, S!Goto
<1>7. to \in Late /\ listening[p] > 0 => Holds(p)
  BY DEF Holds
<1>. QED  BY <1>2, <1>3, <1>4, <1>6, <1>7, Alone, UpdateStep

\* open and socket take the number after those in use.
LEMMA NewFdIs ==
  ASSUME StartInv, NEW p \in S!Processes, step[p] \in Late \ (Exits \cup Null \cup {"bind"})
  PROVE  S!NewFd(p) = First(logFd[p]) + listening[p]
<1>1. Proper(step[p], fds[p], logFd[p], nullFd[p], listening[p])
  BY Alone
<1>2. LateTable(step[p], fds[p], logFd[p], nullFd[p], listening[p])
  BY <1>1 DEF Proper
<1>3. fds[p][First(logFd[p]) + listening[p]] = S!Closed
  BY <1>2 DEF LateTable, Extra
<1>. QED  BY <1>1, <1>3, Filled, FirstFree

\* ngx_open_listening_sockets: one socket more.
LEMMA OpenSocketStep ==
  ASSUME StartInv, NEW p \in S!Processes, S!OpenSocket(p)
  PROVE  StartInv'
<1>1. /\ step[p] = "socket" /\ step[p] \in Late \ (Exits \cup Null \cup {"bind"})
      /\ step[p] # "exit0"
      /\ "bind" \in Late \ {"exit0", "signals"} /\ "bind" \notin Exits \cup Null \cup Full
      /\ UNCHANGED <<logFd, nullFd, listening, exitcode>>
  BY DEF S!OpenSocket, S!At, Late, Full, Null, Exits
<1>2. p[2] # "daemon"
  BY <1>1, DaemonAt DEF DaemonPlaces, Null
<1>3. listening[p] \in Nat /\ listening[p] < Len(Ports)
  BY <1>1, Alone DEF Proper, LateTable
<1>4. CASE S!Goto(p, "bind") /\ S!Opens(p, Ports[listening[p] + 1])
  <2>1. Ports[listening[p] + 1] \in FileNames
    BY <1>3, PortsAre
  <2>2. fds' = [fds EXCEPT ![p][First(logFd[p]) + listening[p]] = Ports[listening[p] + 1]]
    BY <1>1, <1>4, NewFdIs DEF S!Opens
  <2>3. Extra("bind", listening[p]) = Ports[listening[p] + 1]
    BY DEF Extra
  <2>. QED  BY <1>1, <1>2, <1>3, <1>4, <2>1, <2>2, <2>3, Alone, InHandStep
<1>5. CASE S!Goto(p, "exit1") /\ UNCHANGED fds
  BY <1>1, <1>5, FailStep
<1>. QED  BY <1>4, <1>5 DEF S!OpenSocket

\* listen: the socket in hand is counted.
LEMMA ListenTable ==
  ASSUME NEW f, NEW log, NEW null, NEW count, Proper("bind", f, log, null, count)
  PROVE  Proper(S!AfterListen(count + 1), f, log, null, count + 1)
<1>. DEFINE to == S!AfterListen(count + 1)
            m == First(log) + count
<1>1. Len(Ports) \in Nat \ {0} /\ S!Fd \subseteq Nat
  BY PortsAre DEF S!Fd
<1>2. /\ "bind" \in Late /\ "bind" \notin Exits \cup Full \cup Null
      /\ "socket" \in Late /\ "socket" \notin Exits \cup Full \cup Null
      /\ "title" \in Late /\ "title" \notin Exits \cup Null
  BY DEF Late, Full, Null, Exits
<1>3. LateTable("bind", f, log, null, count) /\ f \in [S!Fd -> FileNames]
  BY <1>2 DEF Proper
<1>4. count \in Nat /\ count < Len(Ports) /\ First(log) \in {3, 4} /\ m + 1 \in S!Fd
  BY <1>1, <1>2, <1>3, Filled DEF LateTable
<1>5. /\ f[m] = Ports[count + 1]
      /\ \A n \in S!Fd : n > m => f[n] = S!Closed
  BY <1>2, <1>3 DEF LateTable, Extra
<1>6. ASSUME NEW k \in 1..(count + 1) PROVE f[First(log) + k - 1] = Ports[k]
  <2>1. CASE k = count + 1
    BY <1>4, <1>5, <2>1
  <2>2. CASE k # count + 1
    BY <1>3, <1>4, <2>2 DEF LateTable
  <2>. QED  BY <2>1, <2>2
<1>7. First(log) + (count + 1) = m + 1 /\ f[m + 1] = S!Closed
  BY <1>4, <1>5
<1>8. \A n \in S!Fd : n > m + 1 => f[n] = S!Closed
  BY <1>1, <1>4, <1>5
<1>9. /\ to \in {"socket", "title"}
      /\ to = "socket" => count + 1 < Len(Ports)
      /\ to = "title" => count + 1 = Len(Ports)
  BY <1>1, <1>4 DEF S!AfterListen
<1>. HIDE DEF to
<1>10. Extra(to, count + 1) = S!Closed
  BY <1>2, <1>9 DEF Extra
<1>11. /\ to \in Late /\ to \notin Exits \cup Null /\ (to \in Full => to = "title")
       /\ to # "bind" /\ to # "signals" /\ count + 1 \in 0..Len(Ports)
  BY <1>1, <1>2, <1>4, <1>9
<1>12. LateTable(to, f, log, null, count + 1)
  BY <1>3, <1>6, <1>7, <1>8, <1>9, <1>10, <1>11 DEF LateTable
<1>13. to \notin {"none", "ended"} \cup Early
  BY <1>9 DEF Early
<1>14. Proper(to, f, log, null, count + 1)
  BY <1>3, <1>11, <1>12, <1>13 DEF Proper
<1>. QED  BY <1>14 DEF to

\* A process that has ports has the first one.
LEMMA FirstPort ==
  ASSUME StartInv, NEW q \in S!Processes, Holds(q)
  PROVE  S!Bound(q, Ports[1])
<1>1. LateTable(step[q], fds[q], logFd[q], nullFd[q], listening[q])
  BY Alone DEF Proper, Holds
<1>2. First(logFd[q]) \in S!Fd /\ 1 \in 1..listening[q] /\ First(logFd[q]) + 1 - 1 = First(logFd[q])
  BY EarlyTables, <1>1, PortsAre DEF First, Holds, LateTable
<1>3. fds[q][First(logFd[q])] = Ports[1]
  BY <1>1, <1>2 DEF LateTable
<1>4. DOMAIN fds[q] = S!Fd
  BY Alone
<1>5. Ports[1] \in S!Range(fds[q])
  BY <1>2, <1>3, <1>4 DEF S!Range
<1>. QED  BY <1>2, <1>5 DEF S!Bound

\* A socket becomes a port that counts.
LEMMA ListenStep ==
  ASSUME StartInv, NEW p \in S!Processes, S!Listen(p)
  PROVE  StartInv'
<1>. DEFINE to == S!AfterListen(listening[p] + 1)
<1>1. /\ step[p] = "bind" /\ step[p] \in Late /\ step[p] # "exit0"
      /\ S!AddressFree(Ports[listening[p] + 1]) /\ S!Goto(p, to)
      /\ listening' = [listening EXCEPT ![p] = listening[p] + 1]
      /\ UNCHANGED <<fds, logFd, nullFd, exitcode>>
  BY DEF S!Listen, S!At, Late
<1>2. p[2] # "daemon"
  BY <1>1, DaemonAt DEF DaemonPlaces, Null
<1>3. Proper("bind", fds[p], logFd[p], nullFd[p], listening[p])
  BY <1>1, Alone
<1>4. Proper(to, fds[p], logFd[p], nullFd[p], listening[p] + 1)
  BY <1>3, ListenTable
<1>5. listening[p] \in Nat /\ listening[p] + 1 \in 0..Len(Ports)
  BY <1>1, <1>3, PortsAre DEF Proper, LateTable
<1>6. to \in {"socket", "title"}
  BY DEF S!AfterListen
<1>7. Holds(p) \/ \A q \in S!Processes \ {p} : ~Holds(q)
  <2>1. CASE listening[p] > 0
    BY <1>1, <2>1 DEF Holds
  <2>2. CASE listening[p] = 0
    <3>1. \A q \in S!Processes : ~S!Bound(q, Ports[1])
      BY <1>1, <2>2 DEF S!AddressFree
    <3>. QED  BY <3>1, FirstPort
  <2>. QED  BY <1>5, <2>1, <2>2
<1>8. Moves(p, to, fds[p], logFd[p], nullFd[p], listening[p] + 1)
  BY <1>1, Alone DEF Moves, S!Goto
<1>. HIDE DEF to
<1>9. to \notin {"none", "exit0"}
  BY <1>6
<1>10. /\ exitcode' \in [S!Processes -> -1..2] /\ logFd[p] \in S!Fd \cup {-1}
       /\ nullFd[p] \in S!Fd \cup {-1}
  BY <1>1, Alone
<1>. QED
  BY ONLY StartInv, <1>1, <1>2, <1>4, <1>5, <1>7, <1>8, <1>9, <1>10, UpdateStep

\* setsockopt, setnonblocking, bind or listen fails.
LEMMA ListenFailsStep ==
  ASSUME StartInv, NEW p \in S!Processes, S!ListenFails(p)
  PROVE  StartInv'
<1>. DEFINE m == First(logFd[p]) + listening[p]
<1>1. /\ step[p] = "bind" /\ step[p] \in Late \ Exits /\ S!Goto(p, "exit1")
      /\ "bind" \notin Exits \cup Full \cup Null
      /\ UNCHANGED <<logFd, nullFd, listening, exitcode>>
  BY DEF S!ListenFails, S!At, Late, Exits, Full, Null
<1>2. PICK n \in S!Fd : fds[p][n] = Ports[listening[p] + 1] /\ S!Closes(p, n)
  BY DEF S!ListenFails
<1>3. /\ Proper(step[p], fds[p], logFd[p], nullFd[p], listening[p])
      /\ LateTable("bind", fds[p], logFd[p], nullFd[p], listening[p])
  BY <1>1, Alone DEF Proper
<1>4. listening[p] \in Nat /\ listening[p] + 1 \in 1..Len(Ports)
  BY <1>1, <1>3, PortsAre DEF LateTable
<1>5. /\ Ports[listening[p] + 1] \notin {"terminal", "null", "log", S!Closed}
      /\ \A j \in 1..listening[p] : Ports[j] # Ports[listening[p] + 1]
  <2>1. Range(Ports) \cap {S!Closed, "terminal", "conf", "log", "null"} = {}
    BY PartsAssumption DEF S!StartupAssumption, S!Range, Range
  <2>2. Ports[listening[p] + 1] \in Range(Ports)
    BY <1>4, PortsAre
  <2>3. ASSUME NEW j \in 1..listening[p] PROVE Ports[j] # Ports[listening[p] + 1]
    <3>1. j \in 1..Len(Ports) /\ j # listening[p] + 1
      BY <1>4
    <3>. QED  BY <1>4, <3>1, PortsAre
  <2>. QED  BY <2>1, <2>2, <2>3
<1>6. ~(n < m)
  BY <1>2, <1>3, <1>5, <1>1, Filled
<1>7. ~(n > m)
  BY <1>1, <1>2, <1>3, <1>5 DEF LateTable
<1>8. n = m
  <2>1. n \in Nat /\ m \in Nat
    BY <1>1, <1>3, Filled, PortsAre DEF S!Fd
  <2>. QED  BY <1>6, <1>7, <2>1
<1>9. fds' = [fds EXCEPT ![p][m] = S!Closed]
  BY <1>2, <1>8 DEF S!Closes
<1>10. /\ "exit1" \in Late \ {"exit0", "signals"} /\ "exit1" \in Exits
       /\ "exit1" \notin Full \cup Null /\ S!Closed \in FileNames
       /\ "exit1" \in DaemonPlaces
  BY DEF Late, Exits, Full, Null, FileNames, DaemonPlaces
<1>11. nullFd' = [nullFd EXCEPT ![p] = nullFd[p]] /\ nullFd[p] \in S!Fd \cup {-1}
  BY <1>1, Alone
<1>. HIDE DEF m
<1>. QED  BY <1>1, <1>9, <1>10, <1>11, InHandStep DEF m

-----------------------------------------------------------------------------
\* ngx_daemon: /dev/null is opened and closed after the ports.
LEMMA OpenNullStep ==
  ASSUME StartInv, NEW p \in S!Processes, S!OpenNull(p)
  PROVE  StartInv'
<1>. DEFINE m == First(logFd[p]) + listening[p]
<1>1. /\ step[p] = "null" /\ step[p] \in Late \ (Exits \cup Null \cup {"bind"})
      /\ step[p] # "exit0" /\ "null" \in Full
      /\ "dupStdin" \in Late \ {"exit0", "signals"} /\ "dupStdin" \notin Exits
      /\ "dupStdin" \in Null /\ "dupStdin" \in DaemonPlaces
      /\ "dupStdin" # "socket" /\ "dupStdin" # "bind"
      /\ UNCHANGED <<logFd, listening, exitcode>>
  BY DEF S!OpenNull, S!At, Late, Full, Null, Exits, DaemonPlaces
<1>2. /\ Proper(step[p], fds[p], logFd[p], nullFd[p], listening[p])
      /\ S!NewFd(p) = m
  BY <1>1, Alone, NewFdIs
<1>3. m \in S!Fd
  BY <1>1, <1>2, Filled
<1>4. listening[p] = Len(Ports)
  BY <1>1, <1>2 DEF Proper, LateTable
<1>5. CASE /\ S!Goto(p, "dupStdin") /\ S!Opens(p, "null")
           /\ nullFd' = [nullFd EXCEPT ![p] = S!NewFd(p)]
  <2>1. fds' = [fds EXCEPT ![p][m] = "null"]
    BY <1>2, <1>5 DEF S!Opens
  <2>2. Extra("dupStdin", listening[p]) = "null" /\ "null" \in FileNames
    BY DEF Extra, Null, FileNames
  <2>. QED  BY <1>1, <1>2, <1>3, <1>4, <1>5, <2>1, <2>2, InHandStep
<1>6. CASE S!Goto(p, "exit1") /\ UNCHANGED <<fds, nullFd>>
  BY <1>1, <1>6, FailStep
<1>. QED  BY <1>5, <1>6 DEF S!OpenNull

\* dup2 puts it into the place of a standard descriptor.
LEMMA Dup2Step ==
  ASSUME StartInv, NEW p \in S!Processes, NEW from \in Null, NEW to \in Null,
         NEW n \in {0, 1}, S!Dup2(p, from, to, n)
  PROVE  StartInv'
<1>. DEFINE f == fds[p]
            g == [f EXCEPT ![n] = "null"]
            m == First(logFd[p]) + listening[p]
<1>1. /\ step[p] = from /\ UNCHANGED <<logFd, nullFd, listening, exitcode>>
      /\ step[p] \in Null /\ step[p] # "exit0" /\ step[p] \in Late \ {"exit0"}
      /\ Null \subseteq Late /\ Null \subseteq DaemonPlaces /\ Null \cap Exits = {}
      /\ Null \subseteq Full /\ Null \cap ({"none", "ended"} \cup Early) = {}
      /\ Null \cap {"signals", "socket", "bind", "exit0", "none"} = {}
  BY DEF S!Dup2, S!At, Late, Null, Full, Exits, DaemonPlaces, Early
<1>2. Proper(step[p], f, logFd[p], nullFd[p], listening[p])
  BY Alone
<1>3. CASE S!Goto(p, to) /\ fds' = [fds EXCEPT ![p][n] = "null"]
  <2>1. LateTable(step[p], f, logFd[p], nullFd[p], listening[p]) /\ f \in [S!Fd -> FileNames]
    BY <1>1, <1>2 DEF Proper
  <2>2. First(logFd[p]) \in {3, 4} /\ listening[p] \in Nat /\ m \in S!Fd
    BY <1>1, <1>2, Filled
  <2>3. n \in S!Fd /\ 0 \in S!Fd /\ 1 \in S!Fd /\ 2 \in S!Fd /\ S!Fd \subseteq Nat
    BY EarlyTables, PortsAre DEF S!Fd
  <2>4. /\ g \in [S!Fd -> FileNames] /\ g[n] = "null"
        /\ \A k \in S!Fd : k # n => g[k] = f[k]
    BY <2>1, <2>3 DEF FileNames
  <2>5. fds' = [fds EXCEPT ![p] = g]
    BY <1>3 DEF StartInv, StartTypes
  <2>. HIDE DEF g
  <2>6. /\ g[0] \in {"terminal", "null"} /\ g[1] \in {"terminal", "null"}
        /\ g[2] = f[2]
    BY <2>1, <2>3, <2>4 DEF LateTable, S!Stdin, S!Stdout
  <2>7. logFd[p] = 3 => g[3] = f[3]
    BY <2>3, <2>4, EarlyTables
  <2>8. \A k \in 1..listening[p] : g[First(logFd[p]) + k - 1] = f[First(logFd[p]) + k - 1]
    <3>1. ASSUME NEW k \in 1..listening[p]
          PROVE  First(logFd[p]) + k - 1 \in S!Fd /\ First(logFd[p]) + k - 1 # n
      BY <2>2, PortsAre DEF S!Fd
    <3>. QED  BY <2>4, <3>1
  <2>9. g[m] = f[m] /\ \A k \in S!Fd : k > m => g[k] = f[k]
    BY <2>2, <2>3, <2>4
  <2>10. Extra(to, listening[p]) = Extra(from, listening[p])
    BY <1>1 DEF Extra
  <2>11. LateTable(to, g, logFd[p], nullFd[p], listening[p])
    BY <1>1, <2>1, <2>6, <2>7, <2>8, <2>9, <2>10
    DEF LateTable, S!Stdin, S!Stdout, S!Stderr
  <2>12. Proper(to, g, logFd[p], nullFd[p], listening[p])
    BY <1>1, <2>4, <2>11 DEF Proper
  <2>13. Moves(p, to, g, logFd[p], nullFd[p], listening[p])
    BY <1>1, <1>3, <2>5, Alone DEF Moves, S!Goto
  <2>14. /\ to \notin {"none", "exit0"} /\ to \in DaemonPlaces
         /\ listening[p] = Len(Ports) /\ (listening[p] > 0 => Holds(p))
    BY <1>1, <2>1 DEF LateTable, Holds
  <2>. QED  BY <1>1, <2>12, <2>13, <2>14, Alone, UpdateStep
<1>4. CASE S!Goto(p, "exit1") /\ UNCHANGED fds
  BY <1>1, <1>4, FailStep
<1>. QED  BY <1>3, <1>4 DEF S!Dup2

\* The daemon closes the descriptor of /dev/null.
LEMMA CloseNullStep ==
  ASSUME StartInv, NEW p \in S!Processes, S!CloseNull(p)
  PROVE  StartInv'
<1>. DEFINE m == First(logFd[p]) + listening[p]
<1>1. PICK to \in {"run", "exit1"} :
        /\ step[p] = "closeNull" /\ S!Goto(p, to)
        /\ UNCHANGED <<logFd, nullFd, listening, exitcode>>
  BY DEF S!CloseNull, S!At
<1>2. /\ step[p] \in Late \ Exits /\ step[p] \in Full /\ step[p] \in Null
      /\ to \in Late \ {"exit0", "signals"} /\ to \notin Null /\ to \in DaemonPlaces
      /\ to \notin {"socket", "bind"}
  BY <1>1 DEF Late, Exits, Full, Null, DaemonPlaces
<1>3. Proper(step[p], fds[p], logFd[p], nullFd[p], listening[p])
  BY Alone
<1>4. nullFd[p] = m /\ listening[p] = Len(Ports)
  BY <1>2, <1>3 DEF Proper, LateTable
<1>5. First(logFd[p]) \in {3, 4} /\ listening[p] \in Nat /\ m \in S!Fd
  BY <1>2, <1>3, Filled
<1>6. S!ClosedWithNull(p) = {m}
  BY <1>4, <1>5 DEF S!ClosedWithNull, S!Stdin, S!Stdout, S!Stderr
<1>7. fds \in [S!Processes -> [S!Fd -> FileNames]]
  BY DEF StartInv, StartTypes
<1>8. fds' = [fds EXCEPT ![p] = [n \in S!Fd |-> IF n \in {m} THEN S!Closed ELSE @[n]]]
  BY <1>6 DEF S!CloseNull
<1>. HIDE DEF m
<1>9. [n \in S!Fd |-> IF n \in {m} THEN S!Closed ELSE fds[p][n]] = [fds[p] EXCEPT ![m] = S!Closed]
  BY <1>5, <1>7
<1>10. fds' = [fds EXCEPT ![p][m] = S!Closed]
  BY <1>7, <1>8, <1>9
<1>11. S!Closed \in FileNames /\ Extra(to, listening[p]) = S!Closed
  BY <1>2 DEF FileNames, Extra
<1>12. nullFd' = [nullFd EXCEPT ![p] = nullFd[p]] /\ nullFd[p] \in S!Fd \cup {-1}
  BY <1>1, Alone
<1>. QED  BY <1>1, <1>2, <1>4, <1>10, <1>11, <1>12, InHandStep DEF m

-----------------------------------------------------------------------------
\* A process that ends has nothing.
LEMMA EndStep ==
  ASSUME StartInv, NEW p \in S!Processes, S!Exit(p) \/ S!Killed(p)
  PROVE  StartInv'
<1>1. /\ step[p] \in Exits \cup {"run"} /\ S!Goto(p, "ended")
      /\ fds' = [fds EXCEPT ![p] = S!NoFds] /\ UNCHANGED <<nullFd, listening>>
  BY DEF S!Exit, S!Killed, S!At, Exits
<1>2. PICK log \in {logFd[p], -1} : logFd' = [logFd EXCEPT ![p] = log]
  <2>1. CASE S!Exit(p)
    <3>1. logFd' = [logFd EXCEPT ![p] = IF logFd[p] = S!Stderr THEN logFd[p] ELSE -1]
      BY <2>1 DEF S!Exit
    <3>. QED  BY <3>1
  <2>2. CASE S!Killed(p)
    BY <2>2, Alone DEF S!Killed
  <2>. QED  BY <2>1, <2>2
<1>3. exitcode' \in [S!Processes -> -1..2]
  <2>1. exitcode \in [S!Processes -> -1..2]
    BY DEF StartInv, StartTypes
  <2>2. UNCHANGED exitcode \/ \E code \in 0..2 : exitcode' = [exitcode EXCEPT ![p] = code]
    BY DEF S!Exit, S!Killed
  <2>3. 0..2 \subseteq -1..2
    OBVIOUS
  <2>. QED  BY <2>1, <2>2, <2>3
<1>4. S!NoFds \in [S!Fd -> FileNames]
  BY DEF S!NoFds, FileNames
<1>5. "ended" \notin Early \cup Late
  BY DEF Early, Late, Exits, Full, Null
<1>6. Proper("ended", S!NoFds, log, nullFd[p], listening[p])
  BY <1>4, <1>5 DEF Proper
<1>7. Moves(p, "ended", S!NoFds, log, nullFd[p], listening[p])
  BY <1>1, <1>2, Alone DEF Moves, S!Goto
<1>8. /\ log \in S!Fd \cup {-1} /\ nullFd[p] \in S!Fd \cup {-1}
      /\ listening[p] \in 0..Len(Ports)
  BY <1>2, Alone
<1>. QED  BY ONLY StartInv, <1>3, <1>5, <1>6, <1>7, <1>8, UpdateStep

\* The child has what its parent has.
LEMMA ForkTable ==
  ASSUME NEW f, NEW log, NEW null, NEW count, Proper("fork", f, log, null, count)
  PROVE  /\ Proper("exit0", f, log, null, count) /\ count = Len(Ports)
         /\ \A null1 : Proper("setsid", f, log, null1, count)
<1>1. /\ "fork" \in Late /\ "fork" \in Full /\ "fork" \notin Exits \cup Null
      /\ "exit0" \in Late /\ "exit0" \in Full /\ "exit0" \in Exits /\ "exit0" \notin Null
      /\ "setsid" \in Late /\ "setsid" \in Full /\ "setsid" \notin Exits \cup Null
      /\ {"exit0", "setsid"} \cap ({"none", "ended", "signals", "socket", "bind"} \cup Early) = {}
  BY DEF Late, Full, Exits, Null, Early
<1>2. LateTable("fork", f, log, null, count) /\ f \in [S!Fd -> FileNames]
  BY <1>1 DEF Proper
<1>3. Extra("setsid", count) = Extra("fork", count)
  BY <1>1 DEF Extra
<1>4. LateTable("exit0", f, log, null, count)
  BY <1>1, <1>2 DEF LateTable
<1>5. \A null1 : LateTable("setsid", f, log, null1, count)
  BY <1>1, <1>2, <1>3 DEF LateTable
<1>. QED  BY <1>1, <1>2, <1>4, <1>5 DEF Proper, LateTable

\* The daemon begins with a copy of the descriptors, and its launcher ends.
LEMMA ForkStep ==
  ASSUME StartInv, NEW s \in Starts, S!Fork(s)
  PROVE  StartInv'
<1>. DEFINE p == S!Launcher(s)
            d == S!Daemon(s)
<1>1. /\ p \in S!Processes /\ d \in S!Processes /\ p # d
  BY DEF S!Launcher, S!Daemon, S!Processes
<1>2. step[p] = "fork" /\ step[p] \in Late \ {"exit0"} /\ UNCHANGED <<nullFd, exitcode>>
  BY DEF S!Fork, S!At, Late, Full
<1>3. CASE S!Goto(p, "exit1") /\ UNCHANGED <<fds, logFd, listening>>
  BY <1>1, <1>2, <1>3, FailStep
<1>4. CASE /\ step' = [step EXCEPT ![p] = "exit0", ![d] = "setsid"]
           /\ fds' = S!Forked(fds, s) /\ logFd' = S!Forked(logFd, s)
           /\ listening' = S!Forked(listening, s)
  <2>1. StartTypes
    BY DEF StartInv
  <2>2. /\ step \in [S!Processes -> {"none", "ended"} \cup Early \cup Late]
        /\ fds \in [S!Processes -> [S!Fd -> FileNames]]
        /\ logFd \in [S!Processes -> S!Fd \cup {-1}]
        /\ listening \in [S!Processes -> 0..Len(Ports)]
    BY <2>1 DEF StartTypes
  <2>3. /\ step' = [step EXCEPT ![p] = "exit0", ![d] = "setsid"]
        /\ fds' = [fds EXCEPT ![d] = fds[p]] /\ logFd' = [logFd EXCEPT ![d] = logFd[p]]
        /\ listening' = [listening EXCEPT ![d] = listening[p]]
    BY <1>4 DEF S!Forked
  <2>. HIDE DEF p, d
  <2>4. /\ step'[p] = "exit0" /\ fds'[p] = fds[p] /\ logFd'[p] = logFd[p]
        /\ nullFd'[p] = nullFd[p] /\ listening'[p] = listening[p]
        /\ step'[d] = "setsid" /\ fds'[d] = fds[p] /\ logFd'[d] = logFd[p]
        /\ listening'[d] = listening[p]
    BY <1>1, <1>2, <2>2, <2>3
  <2>5. \A q \in S!Processes \ {p, d} :
          /\ step'[q] = step[q] /\ fds'[q] = fds[q] /\ logFd'[q] = logFd[q]
          /\ nullFd'[q] = nullFd[q] /\ listening'[q] = listening[q]
    BY <1>1, <1>2, <2>2, <2>3
  <2>6. Proper("fork", fds[p], logFd[p], nullFd[p], listening[p])
    BY <1>1, <1>2, Alone
  <2>7. ProperAt(p)' /\ ProperAt(d)' /\ listening'[d] = Len(Ports)
    BY <2>4, <2>6, ForkTable DEF ProperAt
  <2>8. \A q \in S!Processes \ {p, d} : (ProperAt(q)' <=> ProperAt(q)) /\ (Holds(q)' <=> Holds(q))
    BY <2>5 DEF ProperAt, Holds
  <2>9. \A q \in S!Processes : ProperAt(q)'
    BY <2>7, <2>8 DEF StartInv
  <2>10. StartTypes'
    <3>1. "exit0" \in Late /\ "setsid" \in Late
      BY DEF Late, Exits, Full
    <3>2. /\ step' \in [S!Processes -> {"none", "ended"} \cup Early \cup Late]
          /\ fds' \in [S!Processes -> [S!Fd -> FileNames]]
          /\ logFd' \in [S!Processes -> S!Fd \cup {-1}]
          /\ listening' \in [S!Processes -> 0..Len(Ports)]
      BY <1>1, <2>2, <2>3, <3>1
    <3>. QED  BY <1>2, <2>1, <3>2 DEF StartTypes
  <2>11. Exclusive'
    <3>. SUFFICES ASSUME NEW q \in S!Processes, NEW r \in S!Processes,
                         Holds(q)', Holds(r)', q # r
                  PROVE  step'[q] = "exit0" \/ step'[r] = "exit0"
      BY DEF Exclusive
    <3>1. Holds(p)
      <4>1. listening[p] > 0
        BY <2>6, ForkTable, PortsAre
      <4>. QED  BY <1>2, <4>1 DEF Holds
    <3>2. \A t \in S!Processes \ {p} : Holds(t) => step[t] = "exit0"
      BY <1>1, <1>2, <3>1 DEF StartInv, Exclusive
    <3>3. \A t \in S!Processes \ {p, d} : Holds(t)' => step'[t] = "exit0"
      BY <2>5, <2>8, <3>2
    <3>. QED  BY <2>4, <3>3
  <2>12. DaemonInv'
    <3>. SUFFICES ASSUME NEW t \in Starts
                  PROVE  /\ step'[S!Daemon(t)] \notin {"none", "ended"} =>
                              /\ step'[S!Daemon(t)] \in DaemonPlaces
                              /\ listening'[S!Daemon(t)] = Len(Ports)
                         /\ step'[S!Launcher(t)] = "exit0" => step'[S!Daemon(t)] # "none"
      BY DEF DaemonInv
    <3>1. CASE t = s
      BY <2>4, <2>7, <3>1 DEF DaemonPlaces, p, d
    <3>2. CASE t # s
      <4>1. /\ S!Daemon(t) \in S!Processes \ {p, d}
            /\ S!Launcher(t) \in S!Processes \ {p, d}
        BY <3>2 DEF S!Daemon, S!Launcher, S!Processes, p, d
      <4>. QED  BY <2>5, <4>1 DEF StartInv, DaemonInv
    <3>. QED  BY <3>1, <3>2
  <2>. QED  BY <2>9, <2>10, <2>11, <2>12 DEF StartInv
<1>. QED  BY <1>3, <1>4 DEF S!Fork

-----------------------------------------------------------------------------
\* Every step of the start keeps the invariant.
LEMMA StartupNext ==
  ASSUME StartInv, S!Next
  PROVE  StartInv'
<1>1. CASE \E s \in Starts : S!Fork(s)
  BY <1>1, ForkStep
<1>2. ASSUME NEW p \in S!Processes,
             \/ S!OpenConf(p) \/ S!CloseConf(p) \/ S!LogInit(p) \/ S!InitSignals(p)
             \/ S!OpenSocket(p) \/ S!Listen(p) \/ S!ListenFails(p) \/ S!AskDaemon(p)
             \/ S!Setsid(p) \/ S!OpenNull(p)
             \/ S!Dup2(p, "dupStdin", "dupStdout", S!Stdin)
             \/ S!Dup2(p, "dupStdout", "closeNull", S!Stdout)
             \/ S!CloseNull(p) \/ S!Exit(p) \/ S!Killed(p)
      PROVE  StartInv'
  <2>1. CASE S!OpenConf(p) \/ S!CloseConf(p)
    BY <2>1, ConfStep
  <2>2. CASE S!LogInit(p)
    BY <2>2, LogInitStep
  <2>3. CASE S!InitSignals(p) \/ S!AskDaemon(p) \/ S!Setsid(p)
    BY <2>3, QuietStep
  <2>4. CASE S!OpenSocket(p)
    BY <2>4, OpenSocketStep
  <2>5. CASE S!Listen(p)
    BY <2>5, ListenStep
  <2>6. CASE S!ListenFails(p)
    BY <2>6, ListenFailsStep
  <2>7. CASE S!OpenNull(p)
    BY <2>7, OpenNullStep
  <2>8. CASE \/ S!Dup2(p, "dupStdin", "dupStdout", S!Stdin)
             \/ S!Dup2(p, "dupStdout", "closeNull", S!Stdout)
    <3>1. /\ "dupStdin" \in Null /\ "dupStdout" \in Null /\ "closeNull" \in Null
          /\ S!Stdin \in {0, 1} /\ S!Stdout \in {0, 1}
      BY DEF Null, S!Stdin, S!Stdout
    <3>. QED  BY <2>8, <3>1, Dup2Step
  <2>9. CASE S!CloseNull(p)
    BY <2>9, CloseNullStep
  <2>10. CASE S!Exit(p) \/ S!Killed(p)
    BY <2>10, EndStep
  <2>. QED  BY <1>2, <2>1, <2>2, <2>3, <2>4, <2>5, <2>6, <2>7, <2>8, <2>9, <2>10
<1>. QED  BY <1>1, <1>2 DEF S!Next

\* At first no process is there.
LEMMA StartupInit == PartsInit => StartInv
<1>. SUFFICES ASSUME S!Init PROVE StartInv
  BY DEF PartsInit
<1>1. /\ Len(Ports) \in Nat \ {0} /\ 0 \in 0..Len(Ports)
      /\ EarlyTable("load") \in [S!Fd -> FileNames]
      /\ S!NoFds \in [S!Fd -> FileNames]
  BY PortsAre, EarlyTables DEF S!NoFds, FileNames
<1>2. [n \in S!Fd |-> IF n <= 2 THEN "terminal" ELSE S!Closed] = EarlyTable("load")
  BY DEF EarlyTable, Third
<1>3. ASSUME NEW p \in S!Processes
      PROVE  /\ step[p] = IF p[2] = "launcher" THEN "load" ELSE "none"
             /\ fds[p] = IF p[2] = "launcher" THEN EarlyTable("load") ELSE S!NoFds
             /\ logFd[p] = -1 /\ nullFd[p] = -1 /\ listening[p] = 0
  BY <1>2 DEF S!Init
<1>4. "load" \in Early /\ "load" \notin Late /\ "none" \notin Early \cup Late
  BY DEF Early, Late, Full, Exits, Null
<1>5. \A p \in S!Processes : ProperAt(p) /\ ~Holds(p)
  BY <1>1, <1>3, <1>4 DEF ProperAt, Proper, Holds
<1>6. StartTypes
  <2>1. step \in [S!Processes -> {"none", "ended"} \cup Early \cup Late]
    BY <1>4 DEF S!Init
  <2>2. fds \in [S!Processes -> [S!Fd -> FileNames]]
    BY <1>1, <1>2 DEF S!Init
  <2>3. exitcode \in [S!Processes -> -1..2]
    BY DEF S!Init
  <2>4. /\ logFd \in [S!Processes -> S!Fd \cup {-1}]
        /\ nullFd \in [S!Processes -> S!Fd \cup {-1}]
        /\ listening \in [S!Processes -> 0..Len(Ports)]
    BY <1>1 DEF S!Init
  <2>. QED  BY <2>1, <2>2, <2>3, <2>4 DEF StartTypes
<1>7. DaemonInv
  <2>1. ASSUME NEW s \in Starts
        PROVE  step[S!Daemon(s)] = "none" /\ step[S!Launcher(s)] = "load"
    <3>1. /\ S!Daemon(s) \in S!Processes /\ S!Daemon(s)[2] = "daemon"
          /\ S!Launcher(s) \in S!Processes /\ S!Launcher(s)[2] = "launcher"
      BY DEF S!Daemon, S!Launcher, S!Processes
    <3>. QED  BY <1>3, <3>1
  <2>. QED  BY <2>1 DEF DaemonInv
<1>. QED  BY <1>5, <1>6, <1>7 DEF StartInv, Exclusive

\* The other parts do not touch the variables of the start.
LEMMA StartupSame == StartInv /\ UNCHANGED startupVars => StartInv'
BY DEF startupVars, StartInv, StartTypes, ProperAt, Exclusive, Holds, DaemonInv

\* A step of the parts is one of start-up or leaves it alone.
LEMMA StartupSteps == [PartsNext]_partsVars => S!Next \/ UNCHANGED startupVars
BY DEF PartsNext, partsVars, LogicRuns, CrcRuns, ConfRuns, PrintfRuns, LogRuns, StartupRuns

\* The invariant of the start holds always.
LEMMA StartupInductive == PartsSpec => []StartInv
<1>1. StartInv /\ [PartsNext]_partsVars => StartInv'
  BY StartupSteps, StartupNext, StartupSame
<1>. QED  BY <1>1, StartupInit, PTL DEF PartsSpec

\* A running master has its descriptors one after the other.
LEMMA RunTable ==
  ASSUME NEW f, NEW log, NEW null, NEW count, Proper("run", f, log, null, count)
  PROVE  LET used == {n \in S!Fd : f[n] # S!Closed}
         IN  /\ {f[n] : n \in used \ {S!Stdin, S!Stdout, S!Stderr, log}} = Range(Ports)
             /\ Cardinality(used) = 3 + Len(Ports) + (IF log = S!Stderr THEN 0 ELSE 1)
<1>. DEFINE used == {n \in S!Fd : f[n] # S!Closed}
            m == First(log) + count
<1>1. /\ Len(Ports) \in Nat \ {0} /\ S!Fd \subseteq Nat
      /\ Range(Ports) = {Ports[k] : k \in 1..Len(Ports)}
      /\ \A k \in 1..Len(Ports) : Ports[k] # S!Closed
  BY PortsAre DEF S!Fd
<1>2. "run" \in Late /\ "run" \in Full /\ "run" \notin Exits \cup Null
  BY DEF Late, Full, Exits, Null
<1>3. LateTable("run", f, log, null, count)
  BY <1>2 DEF Proper
<1>4. /\ First(log) \in {3, 4} /\ count = Len(Ports) /\ m \in S!Fd
      /\ \A k \in S!Fd : k < m => f[k] # S!Closed
  BY <1>2, <1>3, Filled DEF LateTable
<1>5. f[m] = S!Closed /\ \A n \in S!Fd : n > m => f[n] = S!Closed
  BY <1>2, <1>3 DEF LateTable, Extra
<1>6. log \in {2, 3} /\ First(log) = IF log = 2 THEN 3 ELSE 4
  BY <1>3 DEF LateTable, First, S!Stderr
<1>7. \A n \in S!Fd : f[n] # S!Closed <=> n < m
  BY <1>1, <1>4, <1>5
<1>8. used = 0..(m - 1)
  <2>1. \A n : n \in 0..(m - 1) <=> n \in S!Fd /\ n < m
    BY <1>1, <1>4 DEF S!Fd
  <2>. QED  BY <1>7, <2>1
<1>9. Cardinality(used) = m
  <2>1. m \in Nat /\ m - 1 \in Int /\ 0 \in Int /\ ~(0 > m - 1) /\ (m - 1) - 0 + 1 = m
    BY <1>1, <1>4
  <2>2. Cardinality(0..(m - 1)) = m
    BY <2>1, FS_Interval
  <2>. QED  BY <1>8, <2>2
<1>10. \A n : n \in used \ {S!Stdin, S!Stdout, S!Stderr, log} <=>
              n \in First(log)..(m - 1)
  BY <1>1, <1>4, <1>6, <1>8 DEF S!Stdin, S!Stdout, S!Stderr
<1>11. \A k \in 1..count : f[First(log) + k - 1] = Ports[k]
  BY <1>3 DEF LateTable
<1>12. {f[n] : n \in used \ {S!Stdin, S!Stdout, S!Stderr, log}} = Range(Ports)
  <2>1. ASSUME NEW n \in First(log)..(m - 1) PROVE f[n] \in Range(Ports)
    <3>1. n - First(log) + 1 \in 1..count /\ First(log) + (n - First(log) + 1) - 1 = n
      BY <1>1, <1>4, <2>1
    <3>2. f[n] = Ports[n - First(log) + 1]
      BY <1>11, <3>1
    <3>. QED  BY <1>1, <1>4, <3>1, <3>2
  <2>2. ASSUME NEW k \in 1..Len(Ports)
        PROVE  \E n \in First(log)..(m - 1) : f[n] = Ports[k]
    <3>1. First(log) + k - 1 \in First(log)..(m - 1)
      BY <1>1, <1>4
    <3>. QED  BY <1>4, <1>11, <3>1
  <2>3. \A x : x \in {f[n] : n \in used \ {S!Stdin, S!Stdout, S!Stderr, log}} <=>
               \E n \in First(log)..(m - 1) : x = f[n]
    BY <1>10
  <2>4. \A x : x \in Range(Ports) <=> \E k \in 1..Len(Ports) : x = Ports[k]
    BY <1>1
  <2>. QED  BY <2>1, <2>2, <2>3, <2>4
<1>13. m = 3 + Len(Ports) + (IF log = S!Stderr THEN 0 ELSE 1)
  BY <1>1, <1>4, <1>6 DEF S!Stderr
<1>. QED  BY <1>9, <1>12, <1>13

\* Of any number of starts at most one leads to a master; it has all ports, its log
\* and nothing else open, and ngx_log.fd is never a stale descriptor (main,
\* ngx_daemon, ngx_open_listening_sockets).
THEOREM MastersRight == PartsSpec => []MasterRight
<1>1. ASSUME StartInv PROVE S!OneMaster
  <2>. SUFFICES ASSUME NEW p \in S!Processes, NEW q \in S!Processes,
                       step[p] = "run", step[q] = "run"
                PROVE  p = q
    BY DEF S!OneMaster, S!At
  <2>1. ASSUME NEW r \in S!Processes, step[r] = "run" PROVE Holds(r)
    <3>1. "run" \in Late /\ "run" \in Full
      BY DEF Late, Full
    <3>2. listening[r] = Len(Ports)
      BY <1>1, <2>1, <3>1, Alone DEF Proper, LateTable
    <3>. QED  BY <2>1, <3>1, <3>2, PortsAre DEF Holds
  <2>. QED  BY <1>1, <2>1 DEF StartInv, Exclusive
<1>2. ASSUME StartInv PROVE S!NothingStray
  <2>. SUFFICES ASSUME NEW p \in S!Processes, step[p] = "run"
                PROVE  LET used == {n \in S!Fd : fds[p][n] # S!Closed}
                       IN  /\ {fds[p][n] : n \in used \ {S!Stdin, S!Stdout, S!Stderr, logFd[p]}}
                                = S!Range(Ports)
                           /\ S!Cardinality(used) =
                                3 + Len(Ports) + (IF logFd[p] = S!Stderr THEN 0 ELSE 1)
    BY DEF S!NothingStray, S!At
  <2>1. Proper("run", fds[p], logFd[p], nullFd[p], listening[p])
    BY <1>2, Alone
  <2>2. \A X : S!Cardinality(X) = Cardinality(X)
    BY DEF S!Cardinality, Cardinality
  <2>3. S!Range(Ports) = Range(Ports)
    BY DEF S!Range, Range
  <2>. QED  BY <2>1, <2>2, <2>3, RunTable
<1>3. ASSUME StartInv PROVE S!LogUsable
  <2>. SUFFICES ASSUME NEW p \in S!Processes, step[p] \notin {"none", "ended"},
                       logFd[p] # -1
                PROVE  fds[p][logFd[p]] = (IF logFd[p] = S!Stderr THEN "terminal" ELSE "log")
    BY DEF S!LogUsable
  <2>1. LateTable(step[p], fds[p], logFd[p], nullFd[p], listening[p])
    BY <1>3, Alone DEF Proper
  <2>. QED  BY <2>1 DEF LateTable, S!Stderr
<1>4. StartInv => MasterRight
  BY <1>1, <1>2, <1>3 DEF MasterRight
<1>. QED  BY <1>4, StartupInductive, PTL

\* A launcher ends with 0 after its fork, so that there is a daemon that has all
\* ports, unless it has ended again (main, ngx_daemon).
THEOREM LaunchersTrue == PartsSpec => LauncherTrue
<1>. DEFINE Left ==
       \A s \in Starts : exitcode'[S!Launcher(s)] = 0 /\ exitcode[S!Launcher(s)] # 0 =>
         LET p == S!Daemon(s)
         IN  step[p] # "ended" =>
               listening[p] = Len(Ports) /\ S!Range(Ports) \subseteq S!Range(fds[p])
<1>1. ASSUME StartInv, S!Next PROVE Left
  <2>. SUFFICES ASSUME NEW s \in Starts, exitcode'[S!Launcher(s)] = 0,
                       exitcode[S!Launcher(s)] # 0, step[S!Daemon(s)] # "ended"
                PROVE  /\ listening[S!Daemon(s)] = Len(Ports)
                       /\ S!Range(Ports) \subseteq S!Range(fds[S!Daemon(s)])
    OBVIOUS
  <2>. DEFINE d == S!Daemon(s)
  <2>1. S!Launcher(s) \in S!Processes /\ d \in S!Processes
    BY DEF S!Launcher, S!Daemon, S!Processes
  <2>2. step[S!Launcher(s)] = "exit0"
    <3>1. exitcode \in [S!Processes -> -1..2]
      BY <1>1 DEF StartInv, StartTypes
    <3>2. exitcode' # exitcode
      OBVIOUS
    <3>3. PICK p \in S!Processes : S!Exit(p)
      BY <1>1, <3>2
      DEF S!Next, S!Fork, S!OpenConf, S!CloseConf, S!LogInit, S!InitSignals, S!OpenSocket,
          S!Listen, S!ListenFails, S!AskDaemon, S!Setsid, S!OpenNull, S!Dup2, S!CloseNull,
          S!Killed
    <3>4. PICK code \in 0..2 :
            /\ step[p] = <<"exit0", "exit1", "exit2">>[code + 1]
            /\ exitcode' = [exitcode EXCEPT ![p] = code]
      BY <3>3 DEF S!Exit, S!At
    <3>5. p = S!Launcher(s) /\ code = 0
      BY <2>1, <3>1, <3>4
    <3>. QED  BY <3>4, <3>5
  <2>3. step[d] \in DaemonPlaces /\ listening[d] = Len(Ports)
    BY <1>1, <2>2 DEF StartInv, DaemonInv
  <2>4. LateTable(step[d], fds[d], logFd[d], nullFd[d], listening[d])
    <3>1. DaemonPlaces \subseteq Late
      BY DEF DaemonPlaces, Late, Full, Null, Exits
    <3>. QED  BY <1>1, <2>1, <2>3, <3>1, Alone DEF Proper
  <2>5. S!Range(Ports) \subseteq S!Range(fds[d])
    <3>1. S!Range(Ports) = {Ports[k] : k \in 1..Len(Ports)} /\ Len(Ports) \in Nat
      BY PortsAre DEF S!Range, Range
    <3>2. /\ First(logFd[d]) \in {3, 4} /\ DOMAIN fds[d] = S!Fd
          /\ \A k \in 1..Len(Ports) : fds[d][First(logFd[d]) + k - 1] = Ports[k]
      BY <1>1, <2>1, <2>3, <2>4, Alone DEF LateTable, First
    <3>3. \A k \in 1..Len(Ports) : First(logFd[d]) + k - 1 \in S!Fd
      BY <3>1, <3>2 DEF S!Fd
    <3>. QED  BY <3>1, <3>2, <3>3 DEF S!Range
  <2>. QED  BY <2>3, <2>5
<1>2. UNCHANGED startupVars => UNCHANGED S!vars
  BY DEF startupVars, S!vars
<1>3. StartInv /\ [PartsNext]_partsVars => [Left]_(S!vars)
  BY <1>1, <1>2, StartupSteps
<1>4. LauncherTrue <=> [][Left]_(S!vars)
  BY DEF LauncherTrue, S!LauncherTrue
<1>. QED  BY <1>3, <1>4, StartupInductive, PTL DEF PartsSpec

-----------------------------------------------------------------------------
(* Business logic *)

Handling == {"check", "lock", "reply", "unlock"}
Busy(t) == pc[t] \in Handling

\* The messages with an id up to Taken have left the pool's queue.
Taken == asked - Len(inbox)

LogicTypes ==
  /\ client \in 1..MaxClients /\ open \in BOOLEAN /\ asked \in 0..MaxRequests
  /\ seq = (IF open THEN 2 * client - 1 ELSE 2 * client)
  /\ inbox \in Seq(Message)
  /\ pc \in [Threads -> Handling \cup {"idle"}]
  /\ msg \in [Threads -> Message \cup {NoMsg}]
  /\ sendQueue \in Seq(ReplyMessage)
  /\ taken \subseteq [to : 1..MaxClients, isendlen : Half, reply : ReplyMessage]
  /\ \A t \in Threads :
       /\ msg[t] = NoMsg <=> pc[t] = "idle"
       /\ pc[t] \in {"reply", "unlock"} <=> logicPorcMutex = t

\* A client has an odd sequence number, its own; between two clients it is even.
Original(m) == m.iCurrsequence = 2 * m.client - 1 /\ m.packet \in Requests

\* What is done to a message is right as far as it is done.
Answer(r) ==
  /\ Original(r.request) /\ Valid(r.request.packet)
  /\ r.iCurrsequence = r.request.iCurrsequence
  /\ Swap16(r.packet.msgCode) = CmdRegister
  /\ Swap32(r.packet.crc32) = r.packet.body.crc
  /\ Swap16(r.packet.pkgLen) = HeaderLen + r.packet.body.len

WorkInv ==
  /\ \A k \in 1..Len(inbox) : Original(inbox[k])
  /\ \A t \in Threads :
       /\ Busy(t) => Original(msg[t])
       /\ pc[t] = "check" => CrcAccepted(msg[t].packet)
       /\ pc[t] \in {"lock", "reply"} => Valid(msg[t].packet)
  /\ \A k \in 1..Len(sendQueue) : Answer(sendQueue[k])
  /\ \A d \in taken :
       /\ Answer(d.reply) /\ d.to = d.reply.request.client
       /\ d.isendlen = Swap16(d.reply.packet.pkgLen)

\* A message is in the queue, with one thread, in one reply or has been dropped.
IdInv ==
  /\ Len(inbox) <= asked
  /\ \A k \in 1..Len(inbox) : inbox[k].id = Taken + k
  /\ \A t \in Threads : Busy(t) => msg[t].id <= Taken
  /\ \A t, u \in Threads : Busy(t) /\ Busy(u) /\ msg[t].id = msg[u].id => t = u
  /\ \A t \in Threads : pc[t] \in {"check", "lock", "reply"} =>
       /\ \A k \in 1..Len(sendQueue) : sendQueue[k].request.id # msg[t].id
       /\ \A d \in taken : d.reply.request.id # msg[t].id
  /\ \A k \in 1..Len(sendQueue) :
       /\ sendQueue[k].request.id <= Taken
       /\ \A j \in 1..Len(sendQueue) :
            sendQueue[j].request.id = sendQueue[k].request.id => j = k
       /\ \A d \in taken : d.reply.request.id # sendQueue[k].request.id
  /\ \A d \in taken : d.reply.request.id <= Taken
  /\ \A d, e \in taken : d.reply.request.id = e.reply.request.id => d = e

\* What has been compared stays in its place of the queue until it is taken or
\* skipped, and is the reply to the client that the connection had.
PassInv ==
  /\ pos \in 0..(Len(sendQueue) + 1)
  /\ compared # NotCompared =>
       pos \in 1..Len(sendQueue) /\ compared = sendQueue[pos].request.client

LogicInv == LogicTypes /\ WorkInv /\ IdInv /\ PassInv

\* Half is a set of so many numbers that the provers are not to see it.
LEMMA HalfIs == \A h : h \in Half <=> h \in Nat /\ h < 65536
<1>1. 2^16 = 65536
  OBVIOUS
<1>. QED  BY <1>1 DEF Half

\* htons and ntohl turn a number that was turned back.
LEMMA SwapTwice ==
  ASSUME NEW h \in Half
  PROVE  Swap16(h) \in Half /\ Swap16(Swap16(h)) = h
<1>. DEFINE a == h % 256
            b == h \div 256
<1>1. h \in Nat /\ h < 65536
  BY HalfIs
<1>2. a \in 0..255 /\ b \in 0..255 /\ h = 256 * b + a
  BY <1>1
<1>3. Swap16(h) = 256 * a + b
  BY DEF Swap16
<1>. HIDE DEF a, b
<1>4. /\ (256 * a + b) % 256 = b /\ (256 * a + b) \div 256 = a
      /\ 256 * a + b \in Nat /\ 256 * a + b < 65536
  BY <1>2
<1>. QED  BY <1>2, <1>3, <1>4, HalfIs DEF Swap16

\* htonl undoes itself.
LEMMA SwapTwice32 ==
  ASSUME NEW w \in Half \X Half
  PROVE  Swap32(w) \in Half \X Half /\ Swap32(Swap32(w)) = w
BY SwapTwice DEF Swap32

\* What _HandleRegister puts into its reply.
LEMMA ReplyIs ==
  ASSUME NEW sum \in Half \X Half, NEW m,
         NEW packet, packet = [pkgLen |-> ReplyHeader(m).pkgLen,
                               msgCode |-> Swap16(CmdRegister), crc32 |-> Swap32(sum),
                               body |-> [len |-> SendLen, crc |-> sum]]
  PROVE  /\ packet \in Packet
         /\ Swap16(packet.msgCode) = CmdRegister /\ Swap32(packet.crc32) = packet.body.crc
         /\ Swap16(packet.pkgLen) = HeaderLen + packet.body.len
<1>1. 2^16 = 65536
  OBVIOUS
<1>2. Store16(HeaderLen + SendLen) = 65008
  BY <1>1 DEF Store16, HeaderLen, SendLen
<1>3. 65008 \in Half /\ CmdRegister \in Half /\ [len |-> SendLen, crc |-> sum] \in Body
  <2>1. SendLen \in Nat /\ CmdRegister \in Nat /\ CmdRegister < 65536
    BY DEF SendLen, CmdRegister
  <2>2. SendLen \in 0..SendLen
    BY <2>1
  <2>. QED  BY <2>1, <2>2, HalfIs DEF Body
<1>4. ReplyHeader(m).pkgLen = Swap16(65008)
  BY <1>2 DEF ReplyHeader
<1>5. packet \in Packet
  BY <1>3, <1>4, SwapTwice, SwapTwice32 DEF Packet
<1>6. HeaderLen + SendLen = 65008
  BY DEF HeaderLen, SendLen
<1>. QED  BY <1>3, <1>4, <1>5, <1>6, SwapTwice, SwapTwice32

\* The checks of threadRecvProcFunc and _HandleRegister let registrations through.
LEMMA DispatchedValid ==
  ASSUME LogicInv, NEW m \in Message, m.packet \in Requests,
         CrcAccepted(m.packet), Dispatched(m)
  PROVE  Valid(m.packet)
<1>. DEFINE p == m.packet
<1>1. p \in Packet /\ Swap16(p.pkgLen) = HeaderLen + p.body.len
  BY LogicAssumption
<1>2. /\ p.msgCode \in Half /\ p.crc32 \in Half \X Half /\ p.body \in Body
      /\ p.body.len \in 0..SendLen
  BY <1>1 DEF Packet, Body
<1>3. Swap16(p.msgCode) = CmdRegister /\ RegisterAccepts(p)
  BY DEF Dispatched
<1>4. p.msgCode = Swap16(CmdRegister)
  BY <1>2, <1>3, SwapTwice
<1>5. p.body.len = RegisterLen
  <2>1. p.body.len \in Nat /\ p.body.len <= 65000
    <3>1. SendLen \in Nat
      BY DEF SendLen
    <3>2. p.body.len \in Nat /\ p.body.len <= SendLen
      BY <1>2, <3>1
    <3>. QED  BY <3>2 DEF SendLen
  <2>2. Store16(p.body.len) = p.body.len
    <3>1. 2^16 = 65536
      OBVIOUS
    <3>. QED  BY <2>1, <3>1 DEF Store16
  <2>3. Swap16(p.pkgLen) - HeaderLen = p.body.len
    BY <1>1, <2>1 DEF HeaderLen
  <2>. QED  BY <1>3, <2>2, <2>3 DEF RegisterAccepts
<1>6. p.crc32 = Swap32(p.body.crc)
  <2>1. p.body.crc = Swap32(p.crc32)
    BY <1>3 DEF CrcAccepted, RegisterAccepts
  <2>. QED  BY <1>2, <2>1, SwapTwice32
<1>. QED  BY <1>4, <1>5, <1>6 DEF Valid

\* A packet arrives.
LEMMA ReceiveStep ==
  ASSUME LogicInv, NEW request \in Requests, Receive(request)
  PROVE  LogicInv'
<1>. DEFINE m == [id |-> asked + 1, iCurrsequence |-> seq,
                  client |-> client, packet |-> request]
<1>1. LogicTypes /\ WorkInv /\ IdInv /\ PassInv
  BY DEF LogicInv
<1>2. /\ open /\ asked < MaxRequests /\ asked' = asked + 1 /\ inbox' = Append(inbox, m)
      /\ UNCHANGED <<client, open, seq, pc, msg, logicPorcMutex, sendQueue>>
      /\ UNCHANGED <<pos, compared, taken>>
  BY DEF Receive, conn, sender
<1>3. /\ inbox \in Seq(Message) /\ asked \in Nat /\ client \in 1..MaxClients
      /\ seq = 2 * client - 1 /\ client \in Nat \ {0} /\ MaxRequests \in Nat
      /\ request \in Packet
  BY <1>1, <1>2, LogicAssumption DEF LogicTypes
<1>4. m \in Message /\ Original(m) /\ m.id = asked + 1
  BY <1>2, <1>3 DEF Message, Original
<1>. HIDE DEF m
<1>5. /\ inbox' \in Seq(Message) /\ Len(inbox') = Len(inbox) + 1 /\ Len(inbox) \in Nat
      /\ \A k \in 1..Len(inbox) : inbox'[k] = inbox[k]
      /\ inbox'[Len(inbox) + 1] = m
  BY <1>2, <1>3, <1>4
<1>6. Taken' = Taken /\ \A k \in 1..Len(inbox') : k \in 1..Len(inbox) \/ k = Len(inbox) + 1
  BY <1>2, <1>3, <1>5 DEF Taken
<1>7. LogicTypes'
  <2>1. asked' \in 0..MaxRequests
    BY <1>2, <1>3
  <2>. QED  BY <1>1, <1>2, <1>5, <2>1 DEF LogicTypes
<1>8. WorkInv'
  <2>1. \A k \in 1..Len(inbox') : Original(inbox'[k])
    BY <1>1, <1>4, <1>5, <1>6 DEF WorkInv
  <2>. QED  BY <1>1, <1>2, <2>1 DEF WorkInv, Busy
<1>9. IdInv'
  <2>1. ASSUME NEW k \in 1..Len(inbox') PROVE inbox'[k].id = Taken + k
    <3>1. CASE k \in 1..Len(inbox)
      BY <1>1, <1>5, <3>1 DEF IdInv
    <3>2. CASE k = Len(inbox) + 1
      <4>1. Taken + k = asked + 1
        BY <1>3, <1>5, <3>2 DEF Taken
      <4>. QED  BY <1>4, <1>5, <3>2, <4>1
    <3>. QED  BY <1>6, <3>1, <3>2
  <2>2. Len(inbox') <= asked'
    BY <1>1, <1>2, <1>3, <1>5 DEF IdInv
  <2>. QED  BY <1>1, <1>2, <1>6, <2>1, <2>2 DEF IdInv, Busy
<1>10. PassInv'
  BY <1>1, <1>2 DEF PassInv
<1>. QED  BY <1>7, <1>8, <1>9, <1>10 DEF LogicInv

\* The client leaves, or the connection gets the next one.
LEMMA ConnectionStep ==
  ASSUME LogicInv, Close \/ Reuse
  PROVE  LogicInv'
<1>1. LogicTypes /\ WorkInv /\ IdInv /\ PassInv
  BY DEF LogicInv
<1>2. UNCHANGED <<inbox, asked, pc, msg, logicPorcMutex, sendQueue, pos, compared, taken>>
  BY DEF Close, Reuse, pool, sender
<1>3. /\ client' \in 1..MaxClients /\ open' \in BOOLEAN
      /\ seq' = (IF open' THEN 2 * client' - 1 ELSE 2 * client')
  <2>1. /\ client \in 1..MaxClients /\ client \in Nat /\ MaxClients \in Nat
        /\ open \in BOOLEAN /\ seq = (IF open THEN 2 * client - 1 ELSE 2 * client)
    BY <1>1, LogicAssumption DEF LogicTypes
  <2>2. CASE Close
    <3>1. seq = 2 * client - 1 /\ seq' = seq + 1 /\ client' = client /\ open' = FALSE
      BY <2>1, <2>2 DEF Close
    <3>2. seq' = 2 * client'
      BY <2>1, <3>1
    <3>. QED  BY <2>1, <3>1, <3>2
  <2>3. CASE Reuse
    <3>1. seq = 2 * client /\ seq' = seq + 1 /\ client' = client + 1 /\ open' = TRUE
      BY <2>1, <2>3 DEF Reuse
    <3>2. seq' = 2 * client' - 1 /\ client' \in 1..MaxClients
      BY <2>1, <2>3, <3>1 DEF Reuse
    <3>. QED  BY <3>1, <3>2
  <2>. QED  BY <2>2, <2>3
<1>4. LogicTypes'
  BY <1>1, <1>2, <1>3 DEF LogicTypes
<1>5. WorkInv'
  BY <1>1, <1>2 DEF WorkInv, Busy
<1>6. IdInv'
  BY <1>1, <1>2 DEF IdInv, Busy, Taken
<1>7. PassInv'
  BY <1>1, <1>2 DEF PassInv
<1>. QED  BY <1>4, <1>5, <1>6, <1>7 DEF LogicInv

\* The messages at work have numbers for ids.
LEMMA Ids ==
  ASSUME LogicTypes
  PROVE  /\ \A t \in Threads : Busy(t) => msg[t] \in Message /\ msg[t].id \in Nat
         /\ \A k \in 1..Len(sendQueue) :
              sendQueue[k] \in ReplyMessage /\ sendQueue[k].request.id \in Nat
         /\ \A d \in taken : d.reply \in ReplyMessage /\ d.reply.request.id \in Nat
         /\ Len(inbox) \in Nat /\ Len(sendQueue) \in Nat /\ asked \in Nat /\ Taken \in Int
<1>1. \A m \in Message : m.id \in Nat
  <2>1. MaxRequests \in Nat
    BY LogicAssumption
  <2>. QED  BY <2>1 DEF Message
<1>2. \A r \in ReplyMessage : r.request \in Message
  BY DEF ReplyMessage
<1>3. \A t \in Threads : Busy(t) => msg[t] \in Message
  BY DEF LogicTypes, Busy, Handling
<1>4. \A k \in 1..Len(sendQueue) : sendQueue[k] \in ReplyMessage
  BY DEF LogicTypes
<1>5. \A d \in taken : d.reply \in ReplyMessage
  BY DEF LogicTypes
<1>6. Len(inbox) \in Nat /\ Len(sendQueue) \in Nat /\ asked \in Nat
  <2>1. MaxRequests \in Nat
    BY LogicAssumption
  <2>. QED  BY <2>1 DEF LogicTypes
<1>. QED  BY <1>1, <1>2, <1>3, <1>4, <1>5, <1>6 DEF Taken

\* A thread goes on with its message, or has done with it.
LEMMA ThreadMoves ==
  ASSUME LogicInv, NEW t \in Threads, Busy(t),
         NEW place \in {"lock", "reply", "idle"}, NEW m,
         pc' = [pc EXCEPT ![t] = place], msg' = [msg EXCEPT ![t] = m],
         UNCHANGED <<client, open, seq, inbox, asked, sendQueue, sender>>,
         m = IF place = "idle" THEN NoMsg ELSE msg[t],
         place # "idle" => pc[t] \in {"check", "lock"} /\ Valid(msg[t].packet),
         \A u \in Threads : pc'[u] \in {"reply", "unlock"} <=> logicPorcMutex' = u
  PROVE  LogicInv'
<1>1. LogicTypes /\ WorkInv /\ IdInv /\ PassInv /\ UNCHANGED taken
  BY DEF LogicInv, sender
<1>2. /\ pc \in [Threads -> Handling \cup {"idle"}]
      /\ msg \in [Threads -> Message \cup {NoMsg}]
      /\ \A u \in Threads : msg[u] = NoMsg <=> pc[u] = "idle"
  BY <1>1 DEF LogicTypes
<1>3. /\ pc'[t] = place /\ msg'[t] = m
      /\ \A u \in Threads \ {t} : pc'[u] = pc[u] /\ msg'[u] = msg[u]
      /\ \A u \in Threads \ {t} : Busy(u)' <=> Busy(u)
      /\ Busy(t)' => m = msg[t] /\ pc[t] \in {"check", "lock"} /\ place \in {"lock", "reply"}
  BY <1>2 DEF Busy, Handling
<1>4. LogicTypes'
  <2>1. place \in Handling \cup {"idle"} /\ m \in Message \cup {NoMsg}
    BY <1>2 DEF Handling
  <2>2. \A u \in Threads : msg'[u] = NoMsg <=> pc'[u] = "idle"
    BY <1>2, <1>3 DEF Busy, Handling
  <2>3. /\ pc' \in [Threads -> Handling \cup {"idle"}]
        /\ msg' \in [Threads -> Message \cup {NoMsg}]
    BY <1>2, <2>1
  <2>. QED  BY <1>1, <2>2, <2>3 DEF LogicTypes
<1>5. WorkInv'
  <2>1. \A u \in Threads :
          /\ Busy(u)' => Original(msg'[u])
          /\ pc'[u] = "check" => CrcAccepted(msg'[u].packet)
          /\ pc'[u] \in {"lock", "reply"} => Valid(msg'[u].packet)
    BY <1>1, <1>3 DEF WorkInv
  <2>. QED  BY <1>1, <2>1 DEF WorkInv
<1>6. IdInv'
  <2>1. Taken' = Taken
    BY DEF Taken
  <2>2. \A u \in Threads : Busy(u)' => Busy(u) /\ msg'[u] = msg[u]
    BY <1>3
  <2>3. \A u \in Threads : pc'[u] \in {"check", "lock", "reply"} =>
          pc[u] \in {"check", "lock", "reply"} /\ msg'[u] = msg[u]
    BY <1>3
  <2>. QED  BY <1>1, <2>1, <2>2, <2>3 DEF IdInv
<1>7. PassInv'
  BY <1>1 DEF PassInv, sender
<1>. QED  BY <1>4, <1>5, <1>6, <1>7 DEF LogicInv

\* The checks, the mutex, the end of the handler.
LEMMA HandlerStep ==
  ASSUME LogicInv, NEW t \in Threads, CheckMessage(t) \/ Lock(t) \/ Unlock(t)
  PROVE  LogicInv'
<1>1. LogicTypes /\ WorkInv
  BY DEF LogicInv
<1>2. /\ pc \in [Threads -> Handling \cup {"idle"}]
      /\ msg \in [Threads -> Message \cup {NoMsg}]
      /\ \A u \in Threads : pc[u] \in {"reply", "unlock"} <=> logicPorcMutex = u
      /\ NoThread \notin Threads
  BY <1>1, LogicAssumption DEF LogicTypes
<1>3. CASE CheckMessage(t)
  <2>1. /\ pc[t] = "check" /\ Busy(t) /\ UNCHANGED logicPorcMutex
        /\ UNCHANGED <<client, open, seq, inbox, asked, sendQueue, sender>>
    BY <1>3 DEF CheckMessage, Busy, Handling, conn
  <2>2. CASE Dispatched(msg[t]) /\ Goto(t, "lock") /\ UNCHANGED msg
    <3>1. msg[t] \in Message /\ msg[t].packet \in Requests /\ CrcAccepted(msg[t].packet)
      BY <1>1, <2>1, Ids DEF WorkInv, Original
    <3>2. Valid(msg[t].packet)
      BY <2>2, <3>1, DispatchedValid
    <3>3. pc' = [pc EXCEPT ![t] = "lock"] /\ msg' = [msg EXCEPT ![t] = msg[t]]
      BY <1>2, <2>2 DEF Goto
    <3>4. \A u \in Threads : pc'[u] \in {"reply", "unlock"} <=> logicPorcMutex' = u
      BY <1>2, <2>1, <3>3
    <3>. QED  BY <2>1, <3>2, <3>3, <3>4, ThreadMoves
  <2>3. CASE Goto(t, "idle") /\ msg' = [msg EXCEPT ![t] = NoMsg]
    <3>1. pc' = [pc EXCEPT ![t] = "idle"]
      BY <2>3 DEF Goto
    <3>2. \A u \in Threads : pc'[u] \in {"reply", "unlock"} <=> logicPorcMutex' = u
      BY <1>2, <2>1, <3>1
    <3>. QED  BY <2>1, <2>3, <3>1, <3>2, ThreadMoves
  <2>. QED  BY <1>3, <2>2, <2>3 DEF CheckMessage
<1>4. CASE Lock(t)
  <2>1. /\ pc[t] = "lock" /\ Busy(t) /\ logicPorcMutex = NoThread /\ logicPorcMutex' = t
        /\ UNCHANGED <<client, open, seq, inbox, asked, sendQueue, sender, msg>>
        /\ pc' = [pc EXCEPT ![t] = "reply"]
    BY <1>4 DEF Lock, Busy, Handling, conn, Goto
  <2>2. Valid(msg[t].packet) /\ msg' = [msg EXCEPT ![t] = msg[t]]
    BY <1>1, <1>2, <2>1 DEF WorkInv
  <2>3. \A u \in Threads : pc'[u] \in {"reply", "unlock"} <=> logicPorcMutex' = u
    BY <1>2, <2>1
  <2>. QED  BY <2>1, <2>2, <2>3, ThreadMoves
<1>5. CASE Unlock(t)
  <2>1. /\ pc[t] = "unlock" /\ Busy(t) /\ logicPorcMutex' = NoThread
        /\ UNCHANGED <<client, open, seq, inbox, asked, sendQueue, sender>>
        /\ pc' = [pc EXCEPT ![t] = "idle"] /\ msg' = [msg EXCEPT ![t] = NoMsg]
    BY <1>5 DEF Unlock, Busy, Handling, conn, Goto, Released
  <2>2. \A u \in Threads : pc'[u] \in {"reply", "unlock"} <=> logicPorcMutex' = u
    BY <1>2, <2>1
  <2>. QED  BY <2>1, <2>2, ThreadMoves
<1>. QED  BY <1>3, <1>4, <1>5

\* A thread takes the first message of the pool's queue.
LEMMA TakeStep ==
  ASSUME LogicInv, NEW t \in Threads, TakeMessage(t)
  PROVE  LogicInv'
<1>. DEFINE m == Head(inbox)
<1>1. LogicTypes /\ WorkInv /\ IdInv /\ PassInv
  BY DEF LogicInv
<1>2. /\ pc[t] = "idle" /\ inbox # <<>> /\ inbox' = Tail(inbox)
      /\ UNCHANGED <<client, open, seq, asked, logicPorcMutex, sendQueue, pos, compared, taken>>
  BY DEF TakeMessage, conn, sender
<1>3. /\ inbox \in Seq(Message) /\ asked \in Nat /\ Len(inbox) \in Nat
      /\ pc \in [Threads -> Handling \cup {"idle"}]
      /\ msg \in [Threads -> Message \cup {NoMsg}]
  BY <1>1, Ids DEF LogicTypes
<1>4. /\ Len(inbox) > 0 /\ m = inbox[1] /\ m \in Message
      /\ inbox' \in Seq(Message) /\ Len(inbox') = Len(inbox) - 1
      /\ \A k \in 1..Len(inbox') : inbox'[k] = inbox[k + 1] /\ k + 1 \in 1..Len(inbox)
  BY <1>2, <1>3
<1>. HIDE DEF m
<1>5. Taken' = Taken + 1 /\ Taken \in Int /\ Taken' \in Int
  BY <1>2, <1>3, <1>4 DEF Taken
<1>6. m.id = Taken + 1 /\ Original(m) /\ m # NoMsg
  <2>1. 1 \in 1..Len(inbox)
    BY <1>3, <1>4
  <2>2. m.id = Taken + 1 /\ Original(m)
    BY <1>1, <1>4, <2>1 DEF IdInv, WorkInv
  <2>3. m.id # 0
    BY <1>4, LogicAssumption DEF Message
  <2>. QED  BY <2>2, <2>3 DEF NoMsg
<1>7. /\ Len(inbox') <= asked'
      /\ \A k \in 1..Len(inbox') : Original(inbox'[k]) /\ inbox'[k].id = Taken' + k
  <2>1. Len(inbox') <= asked'
    BY <1>1, <1>2, <1>3, <1>4 DEF IdInv
  <2>2. ASSUME NEW k \in 1..Len(inbox')
        PROVE  Original(inbox'[k]) /\ inbox'[k].id = Taken' + k
    <3>1. Original(inbox[k + 1]) /\ inbox[k + 1].id = Taken + (k + 1)
      BY <1>1, <1>4 DEF WorkInv, IdInv
    <3>2. Taken + (k + 1) = Taken' + k
      BY <1>3, <1>4, <1>5
    <3>. QED  BY <1>4, <3>1, <3>2
  <2>. QED  BY <2>1, <2>2
<1>8. PassInv'
  BY <1>1, <1>2 DEF PassInv
<1>9. CASE CrcAccepted(m.packet) /\ Goto(t, "check") /\ msg' = [msg EXCEPT ![t] = m]
  <2>1. /\ pc' = [pc EXCEPT ![t] = "check"] /\ msg' = [msg EXCEPT ![t] = m]
        /\ CrcAccepted(m.packet)
    BY <1>9 DEF Goto
  <2>2. /\ pc'[t] = "check" /\ msg'[t] = m
        /\ \A u \in Threads \ {t} : pc'[u] = pc[u] /\ msg'[u] = msg[u]
        /\ \A u \in Threads \ {t} : Busy(u)' <=> Busy(u)
        /\ ~Busy(t)
    BY <1>2, <1>3, <2>1 DEF Busy, Handling
  <2>3. LogicTypes'
    <3>1. \A u \in Threads :
            /\ msg'[u] = NoMsg <=> pc'[u] = "idle"
            /\ pc'[u] \in {"reply", "unlock"} <=> logicPorcMutex' = u
      BY <1>1, <1>2, <1>6, <2>2 DEF LogicTypes
    <3>2. /\ pc' \in [Threads -> Handling \cup {"idle"}]
          /\ msg' \in [Threads -> Message \cup {NoMsg}]
      BY <1>3, <1>4, <2>1 DEF Handling
    <3>. QED  BY <1>1, <1>2, <1>4, <3>1, <3>2 DEF LogicTypes
  <2>4. WorkInv'
    <3>1. \A u \in Threads :
            /\ Busy(u)' => Original(msg'[u])
            /\ pc'[u] = "check" => CrcAccepted(msg'[u].packet)
            /\ pc'[u] \in {"lock", "reply"} => Valid(msg'[u].packet)
      BY <1>1, <1>6, <2>1, <2>2 DEF WorkInv
    <3>. QED  BY <1>1, <1>2, <1>7, <3>1 DEF WorkInv
  <2>5. IdInv'
    <3>1. /\ \A u \in Threads \ {t} : Busy(u)' => msg'[u].id \in Nat /\ msg'[u].id <= Taken
          /\ \A k \in 1..Len(sendQueue) :
               sendQueue[k].request.id \in Nat /\ sendQueue[k].request.id <= Taken
          /\ \A d \in taken : d.reply.request.id \in Nat /\ d.reply.request.id <= Taken
      BY <1>1, <2>2, Ids DEF IdInv
    <3>2. \A n \in Nat : n <= Taken => n <= Taken' /\ n # m.id
      BY <1>5, <1>6
    <3>3. m.id <= Taken'
      BY <1>5, <1>6
    <3>4. \A u \in Threads : Busy(u)' => msg'[u].id <= Taken'
      BY <2>2, <3>1, <3>2, <3>3
    <3>5. \A u, v \in Threads : Busy(u)' /\ Busy(v)' /\ msg'[u].id = msg'[v].id => u = v
      BY <1>1, <2>2, <3>1, <3>2 DEF IdInv
    <3>6. \A u \in Threads : pc'[u] \in {"check", "lock", "reply"} =>
            /\ \A k \in 1..Len(sendQueue) : sendQueue[k].request.id # msg'[u].id
            /\ \A d \in taken : d.reply.request.id # msg'[u].id
      BY <1>1, <2>2, <3>1, <3>2 DEF IdInv
    <3>. QED  BY <1>1, <1>2, <1>7, <3>1, <3>2, <3>4, <3>5, <3>6 DEF IdInv
  <2>. QED  BY <1>8, <2>3, <2>4, <2>5 DEF LogicInv
<1>10. CASE UNCHANGED <<pc, msg>>
  <2>1. LogicTypes'
    BY <1>1, <1>2, <1>4, <1>10 DEF LogicTypes
  <2>2. WorkInv'
    BY <1>1, <1>2, <1>7, <1>10 DEF WorkInv, Busy
  <2>3. IdInv'
    <3>1. /\ \A u \in Threads : Busy(u) => msg[u].id \in Nat /\ msg[u].id <= Taken
          /\ \A k \in 1..Len(sendQueue) :
               sendQueue[k].request.id \in Nat /\ sendQueue[k].request.id <= Taken
          /\ \A d \in taken : d.reply.request.id \in Nat /\ d.reply.request.id <= Taken
      BY <1>1, Ids DEF IdInv
    <3>2. \A n \in Nat : n <= Taken => n <= Taken'
      BY <1>5
    <3>. QED  BY <1>1, <1>2, <1>7, <1>10, <3>1, <3>2 DEF IdInv, Busy
  <2>. QED  BY <1>8, <2>1, <2>2, <2>3 DEF LogicInv
<1>. QED  BY <1>9, <1>10 DEF TakeMessage, m

\* _HandleRegister hands its reply to msgSend.
LEMMA ReplyStep ==
  ASSUME LogicInv, NEW t \in Threads, Reply(t)
  PROVE  LogicInv'
<1>1. LogicTypes /\ WorkInv /\ IdInv /\ PassInv
  BY DEF LogicInv
<1>2. /\ pc[t] = "reply" /\ Goto(t, "unlock")
      /\ UNCHANGED <<client, open, seq, inbox, asked, msg, logicPorcMutex>>
      /\ pos = 0 /\ UNCHANGED <<pos, compared, taken>>
  BY DEF Reply, conn, sender
<1>3. PICK sum \in Garbage :
        sendQueue' = Append(sendQueue,
          [request |-> msg[t], iCurrsequence |-> ReplyHeader(msg[t]).iCurrsequence,
           packet |-> [pkgLen |-> ReplyHeader(msg[t]).pkgLen,
                       msgCode |-> Swap16(CmdRegister), crc32 |-> Swap32(sum),
                       body |-> [len |-> SendLen, crc |-> sum]]])
  BY DEF Reply
<1>. DEFINE packet == [pkgLen |-> ReplyHeader(msg[t]).pkgLen,
                       msgCode |-> Swap16(CmdRegister), crc32 |-> Swap32(sum),
                       body |-> [len |-> SendLen, crc |-> sum]]
            r == [request |-> msg[t], iCurrsequence |-> ReplyHeader(msg[t]).iCurrsequence,
                  packet |-> packet]
<1>4. /\ packet \in Packet
      /\ Swap16(packet.msgCode) = CmdRegister /\ Swap32(packet.crc32) = packet.body.crc
      /\ Swap16(packet.pkgLen) = HeaderLen + packet.body.len
  <2>1. sum \in Half \X Half
    BY LogicAssumption
  <2>. QED  BY <2>1, ReplyIs
<1>. HIDE DEF packet
<1>5. /\ Busy(t) /\ msg[t] \in Message /\ Original(msg[t]) /\ Valid(msg[t].packet)
  BY <1>1, <1>2, Ids DEF Busy, Handling, WorkInv
<1>6. /\ r \in ReplyMessage /\ r.request = msg[t] /\ Answer(r)
  <2>1. r.iCurrsequence = msg[t].iCurrsequence /\ r.request = msg[t] /\ r.packet = packet
    BY DEF ReplyHeader
  <2>2. msg[t].iCurrsequence \in Nat \ {0}
    BY <1>5 DEF Message
  <2>3. r = [request |-> msg[t], iCurrsequence |-> msg[t].iCurrsequence, packet |-> packet]
    BY DEF ReplyHeader
  <2>4. r \in ReplyMessage
    BY <1>4, <1>5, <2>2, <2>3 DEF ReplyMessage
  <2>. QED  BY <1>4, <1>5, <2>1, <2>4 DEF Answer
<1>7. sendQueue' = Append(sendQueue, r)
  BY <1>3 DEF packet
<1>. HIDE DEF r
<1>8. /\ sendQueue' \in Seq(ReplyMessage) /\ Len(sendQueue') = Len(sendQueue) + 1
      /\ Len(sendQueue) \in Nat
      /\ \A k \in 1..Len(sendQueue) : sendQueue'[k] = sendQueue[k]
      /\ sendQueue'[Len(sendQueue) + 1] = r
      /\ \A k \in 1..Len(sendQueue') : k \in 1..Len(sendQueue) \/ k = Len(sendQueue) + 1
  <2>1. sendQueue \in Seq(ReplyMessage)
    BY <1>1 DEF LogicTypes
  <2>. QED  BY <1>6, <1>7, <2>1
<1>9. /\ pc \in [Threads -> Handling \cup {"idle"}] /\ pc' = [pc EXCEPT ![t] = "unlock"]
      /\ pc'[t] = "unlock" /\ \A u \in Threads \ {t} : pc'[u] = pc[u]
      /\ \A u \in Threads : Busy(u)' <=> Busy(u)
  BY <1>1, <1>2 DEF LogicTypes, Goto, Busy, Handling
<1>10. LogicTypes'
  <2>1. pc' \in [Threads -> Handling \cup {"idle"}]
    BY <1>9 DEF Handling
  <2>2. \A u \in Threads :
          /\ msg'[u] = NoMsg <=> pc'[u] = "idle"
          /\ pc'[u] \in {"reply", "unlock"} <=> logicPorcMutex' = u
    BY <1>1, <1>2, <1>9 DEF LogicTypes
  <2>. QED  BY <1>1, <1>2, <1>8, <2>1, <2>2 DEF LogicTypes
<1>11. WorkInv'
  <2>1. \A u \in Threads :
          /\ Busy(u)' => Original(msg'[u])
          /\ pc'[u] = "check" => CrcAccepted(msg'[u].packet)
          /\ pc'[u] \in {"lock", "reply"} => Valid(msg'[u].packet)
    BY <1>1, <1>2, <1>9 DEF WorkInv
  <2>2. \A k \in 1..Len(sendQueue') : Answer(sendQueue'[k])
    BY <1>1, <1>6, <1>8 DEF WorkInv
  <2>. QED  BY <1>1, <1>2, <2>1, <2>2 DEF WorkInv
<1>12. IdInv'
  <2>1. Taken' = Taken
    BY <1>2 DEF Taken
  <2>2. /\ \A k \in 1..Len(sendQueue) : sendQueue[k].request.id # r.request.id
        /\ \A d \in taken : d.reply.request.id # r.request.id
        /\ r.request.id <= Taken
    BY <1>1, <1>2, <1>5, <1>6 DEF IdInv
  <2>3. \A u \in Threads : pc'[u] \in {"check", "lock", "reply"} =>
          /\ u # t /\ pc[u] \in {"check", "lock", "reply"} /\ msg[u].id # r.request.id
    BY <1>1, <1>5, <1>6, <1>9 DEF IdInv, Busy, Handling
  <2>4. ASSUME NEW u \in Threads, pc'[u] \in {"check", "lock", "reply"}
        PROVE  /\ \A k \in 1..Len(sendQueue') : sendQueue'[k].request.id # msg[u].id
               /\ \A d \in taken : d.reply.request.id # msg[u].id
    <3>1. pc[u] \in {"check", "lock", "reply"} /\ msg[u].id # r.request.id
      BY <2>3, <2>4
    <3>2. /\ \A k \in 1..Len(sendQueue) : sendQueue[k].request.id # msg[u].id
          /\ \A d \in taken : d.reply.request.id # msg[u].id
      BY <1>1, <3>1 DEF IdInv
    <3>. QED  BY <1>8, <3>1, <3>2
  <2>5. \A k \in 1..Len(sendQueue') :
          /\ sendQueue'[k].request.id <= Taken
          /\ \A d \in taken : d.reply.request.id # sendQueue'[k].request.id
    BY <1>1, <1>8, <2>2 DEF IdInv
  <2>6. \A j, k \in 1..Len(sendQueue') :
          sendQueue'[j].request.id = sendQueue'[k].request.id => j = k
    <3>. SUFFICES ASSUME NEW j \in 1..Len(sendQueue'), NEW k \in 1..Len(sendQueue'),
                         sendQueue'[j].request.id = sendQueue'[k].request.id
                  PROVE  j = k
      OBVIOUS
    <3>1. CASE j \in 1..Len(sendQueue) /\ k \in 1..Len(sendQueue)
      BY <1>1, <1>8, <3>1 DEF IdInv
    <3>2. CASE j = Len(sendQueue) + 1 \/ k = Len(sendQueue) + 1
      BY <1>8, <2>2, <3>2
    <3>. QED  BY <1>8, <3>1, <3>2
  <2>. QED  BY <1>1, <1>2, <1>9, <2>1, <2>4, <2>5, <2>6 DEF IdInv
<1>13. PassInv'
  BY <1>1, <1>2, <1>8 DEF PassInv
<1>. QED  BY <1>10, <1>11, <1>12, <1>13 DEF LogicInv

\* A reply leaves the queue in a pass; it may have been taken to be sent.
LEMMA RemovalStep ==
  ASSUME LogicInv, pos \in 1..Len(sendQueue), NEW r, r = sendQueue[pos],
         NEW d, d = [to |-> r.request.client, reply |-> r,
                     isendlen |-> Swap16(r.packet.pkgLen)],
         sendQueue' = RemoveAt(sendQueue, pos), pos' = pos, compared' = NotCompared,
         taken' = taken \/ taken' = taken \cup {d}, UNCHANGED <<conn, pool, logicPorcMutex>>
  PROVE  LogicInv'
<1>. DEFINE Up(k) == IF k < pos THEN k ELSE k + 1
            n == Len(sendQueue)
<1>1. LogicTypes /\ WorkInv /\ IdInv
  BY DEF LogicInv
<1>2. UNCHANGED <<client, open, seq, inbox, asked, pc, msg, logicPorcMutex>>
  BY DEF conn, pool
<1>3. sendQueue \in Seq(ReplyMessage)
  BY <1>1 DEF LogicTypes
<1>4. /\ n \in Nat \ {0} /\ pos \in 1..n
      /\ sendQueue' \in Seq(ReplyMessage) /\ Len(sendQueue') = n - 1
      /\ \A k \in 1..(n - 1) :
           sendQueue'[k] = IF k < pos THEN sendQueue[k] ELSE sendQueue[k + 1]
  BY <1>3, RemoveAtIs
<1>5. /\ r \in ReplyMessage
      /\ \A k \in 1..Len(sendQueue') :
           sendQueue'[k] = sendQueue[Up(k)] /\ Up(k) \in 1..n /\ Up(k) # pos
      /\ \A j, k \in 1..Len(sendQueue') : Up(j) = Up(k) => j = k
  BY <1>3, <1>4
<1>. HIDE DEF Up
<1>6. Answer(r)
  BY <1>1, <1>4 DEF WorkInv
<1>7. d.to = r.request.client /\ d.isendlen = Swap16(r.packet.pkgLen) /\ d.reply = r
  OBVIOUS
<1>8. d \in [to : 1..MaxClients, isendlen : Half, reply : ReplyMessage]
  <2>1. r.packet.pkgLen \in Half /\ r.request.client \in 1..MaxClients
    BY <1>5 DEF ReplyMessage, Packet, Message
  <2>2. Swap16(r.packet.pkgLen) \in Half
    BY <2>1, SwapTwice
  <2>. QED  BY <1>5, <2>1, <2>2
<1>9. \A e \in taken' : e \in taken \/ e = d
  OBVIOUS
<1>10. LogicTypes'
  <2>1. taken' \subseteq [to : 1..MaxClients, isendlen : Half, reply : ReplyMessage]
    BY <1>1, <1>8, <1>9 DEF LogicTypes
  <2>. QED  BY <1>1, <1>2, <1>4, <2>1 DEF LogicTypes
<1>11. WorkInv'
  <2>1. \A k \in 1..Len(sendQueue') : Answer(sendQueue'[k])
    BY <1>1, <1>5 DEF WorkInv
  <2>2. \A e \in taken' :
          /\ Answer(e.reply) /\ e.to = e.reply.request.client
          /\ e.isendlen = Swap16(e.reply.packet.pkgLen)
    BY <1>1, <1>6, <1>7, <1>9 DEF WorkInv
  <2>. QED  BY <1>1, <1>2, <2>1, <2>2 DEF WorkInv, Busy
<1>12. IdInv'
  <2>1. Taken' = Taken
    BY <1>2 DEF Taken
  <2>2. /\ r.request.id <= Taken /\ \A e \in taken : e.reply.request.id # r.request.id
        /\ \A k \in 1..Len(sendQueue') : sendQueue'[k].request.id # r.request.id
        /\ \A u \in Threads : pc[u] \in {"check", "lock", "reply"} =>
             r.request.id # msg[u].id
    BY <1>1, <1>4, <1>5 DEF IdInv
  <2>3. \A u \in Threads : pc[u] \in {"check", "lock", "reply"} =>
          /\ \A k \in 1..Len(sendQueue') : sendQueue'[k].request.id # msg[u].id
          /\ \A e \in taken' : e.reply.request.id # msg[u].id
    BY <1>1, <1>5, <1>7, <1>9, <2>2 DEF IdInv
  <2>4. \A k \in 1..Len(sendQueue') :
          /\ sendQueue'[k].request.id <= Taken
          /\ \A e \in taken' : e.reply.request.id # sendQueue'[k].request.id
    BY <1>1, <1>5, <1>7, <1>9, <2>2 DEF IdInv
  <2>5. \A j, k \in 1..Len(sendQueue') :
          sendQueue'[j].request.id = sendQueue'[k].request.id => j = k
    BY <1>1, <1>5 DEF IdInv
  <2>6. /\ \A e \in taken' : e.reply.request.id <= Taken
        /\ \A e, g \in taken' : e.reply.request.id = g.reply.request.id => e = g
    BY <1>1, <1>7, <1>9, <2>2 DEF IdInv
  <2>. QED  BY <1>1, <1>2, <2>1, <2>3, <2>4, <2>5, <2>6 DEF IdInv, Busy
<1>13. PassInv'
  BY <1>4 DEF PassInv
<1>. QED  BY <1>10, <1>11, <1>12, <1>13 DEF LogicInv

\* When the numbers are equal, the connection has the client that asked.
LEMMA EqualNumbers ==
  ASSUME LogicInv, NEW k \in 1..Len(sendQueue), sendQueue[k].iCurrsequence = seq
  PROVE  open /\ client = sendQueue[k].request.client
<1>. DEFINE c == sendQueue[k].request.client
<1>1. LogicTypes /\ WorkInv
  BY DEF LogicInv
<1>2. seq = 2 * c - 1
  BY <1>1 DEF WorkInv, Answer, Original
<1>3. /\ client \in Nat /\ c \in Nat
      /\ open \in BOOLEAN /\ seq = (IF open THEN 2 * client - 1 ELSE 2 * client)
  <2>1. MaxClients \in Nat
    BY LogicAssumption
  <2>2. sendQueue[k] \in ReplyMessage
    BY <1>1, Ids
  <2>3. sendQueue[k].request.client \in 1..MaxClients
    BY <2>2 DEF ReplyMessage, Message
  <2>. QED  BY <1>1, <2>1, <2>3 DEF LogicTypes
<1>. HIDE DEF c
<1>4. open /\ client = c
  BY <1>2, <1>3
<1>. QED  BY <1>4 DEF c

\* A comparison drops a reply or finds that its asker is there.
LEMMA CompareStep ==
  ASSUME LogicInv, Compare
  PROVE  LogicInv'
<1>1. LogicTypes /\ WorkInv /\ IdInv /\ PassInv
  BY DEF LogicInv
<1>2. /\ pos \in 1..Len(sendQueue) /\ compared = NotCompared
      /\ UNCHANGED <<conn, pool, logicPorcMutex, pos, taken>>
  <2>1. sendQueue \in Seq(ReplyMessage)
    BY <1>1 DEF LogicTypes
  <2>2. DOMAIN sendQueue = 1..Len(sendQueue)
    BY <2>1
  <2>. QED  BY <2>2 DEF Compare
<1>3. CASE sendQueue[pos].iCurrsequence # seq
  BY <1>2, <1>3, RemovalStep DEF Compare
<1>4. CASE sendQueue[pos].iCurrsequence = seq
  <2>1. open /\ client = sendQueue[pos].request.client
    BY <1>2, <1>4, EqualNumbers
  <2>2. compared' = sendQueue[pos].request.client /\ UNCHANGED sendQueue
    BY <1>4, <2>1 DEF Compare
  <2>3. PassInv'
    BY <1>1, <1>2, <2>2 DEF PassInv
  <2>. QED  BY <1>1, <1>2, <2>2, <2>3
         DEF LogicInv, LogicTypes, WorkInv, IdInv, Busy, Taken, conn, pool
<1>. QED  BY <1>3, <1>4

\* What passed the comparison is the reply to the client that was compared.
LEMMA TakeToSendStep ==
  ASSUME LogicInv, TakeToSend
  PROVE  LogicInv'
<1>1. pos \in 1..Len(sendQueue) /\ compared = sendQueue[pos].request.client
  BY DEF TakeToSend, LogicInv, PassInv
<1>. QED  BY <1>1, RemovalStep DEF TakeToSend

\* A pass begins, leaves a reply where it is, or ends.
LEMMA PlaceStep ==
  ASSUME LogicInv, StartPass \/ SkipMessage \/ EndPass
  PROVE  LogicInv'
<1>1. LogicTypes /\ WorkInv /\ IdInv /\ PassInv
  BY DEF LogicInv
<1>2. UNCHANGED <<client, open, seq, inbox, asked, pc, msg, logicPorcMutex, sendQueue, taken>>
  BY DEF StartPass, SkipMessage, EndPass, conn, pool
<1>3. PassInv'
  <2>1. Len(sendQueue) \in Nat /\ pos \in Nat /\ pos <= Len(sendQueue) + 1
    <3>1. Len(sendQueue) \in Nat
      BY <1>1 DEF LogicTypes
    <3>. QED  BY <1>1, <3>1 DEF PassInv
  <2>2. CASE StartPass
    <3>1. pos' = 1 /\ compared' = compared /\ compared = NotCompared /\ pos = 0
      BY <1>1, <2>1, <2>2 DEF StartPass, PassInv
    <3>. QED  BY <1>2, <2>1, <3>1 DEF PassInv
  <2>3. CASE SkipMessage
    <3>1. pos' = pos + 1 /\ compared' = NotCompared /\ pos \in 1..Len(sendQueue)
      BY <1>1, <2>3 DEF SkipMessage, PassInv
    <3>. QED  BY <1>2, <2>1, <3>1 DEF PassInv
  <2>4. CASE EndPass
    <3>1. pos' = 0 /\ compared' = compared /\ compared = NotCompared
      BY <1>1, <2>1, <2>4 DEF EndPass, PassInv
    <3>. QED  BY <1>2, <2>1, <3>1 DEF PassInv
  <2>. QED  BY <2>2, <2>3, <2>4
<1>. QED  BY <1>1, <1>2, <1>3 DEF LogicInv, LogicTypes, WorkInv, IdInv, Busy, Taken

\* At first there are no messages.
LEMMA LogicInit == PartsInit => LogicInv
<1>. SUFFICES ASSUME Init PROVE LogicInv
  BY DEF PartsInit
<1>1. /\ client = 1 /\ open = TRUE /\ seq = 1 /\ inbox = <<>> /\ asked = 0
      /\ sendQueue = <<>> /\ pos = 0 /\ compared = NotCompared /\ taken = {}
      /\ logicPorcMutex = NoThread
      /\ pc = [t \in Threads |-> "idle"] /\ msg = [t \in Threads |-> NoMsg]
  BY DEF Init
<1>2. Len(inbox) = 0 /\ Len(sendQueue) = 0 /\ Taken = 0
  <2>1. Len(inbox) = 0 /\ Len(sendQueue) = 0 /\ asked = 0
    BY <1>1
  <2>. QED  BY <2>1 DEF Taken
<1>3. \A t \in Threads : pc[t] = "idle" /\ msg[t] = NoMsg /\ ~Busy(t)
  BY <1>1 DEF Busy, Handling
<1>4. LogicTypes
  <2>1. /\ client \in 1..MaxClients /\ open \in BOOLEAN /\ asked \in 0..MaxRequests
        /\ seq = (IF open THEN 2 * client - 1 ELSE 2 * client)
    BY <1>1, LogicAssumption
  <2>2. \A t \in Threads : pc[t] \in {"reply", "unlock"} <=> logicPorcMutex = t
    BY <1>1, <1>3, LogicAssumption
  <2>3. /\ inbox \in Seq(Message) /\ sendQueue \in Seq(ReplyMessage)
        /\ pc \in [Threads -> Handling \cup {"idle"}]
        /\ msg \in [Threads -> Message \cup {NoMsg}]
    BY <1>1
  <2>. QED  BY <1>1, <1>3, <2>1, <2>2, <2>3 DEF LogicTypes
<1>5. WorkInv
  BY <1>1, <1>2, <1>3 DEF WorkInv
<1>6. IdInv
  BY <1>1, <1>2, <1>3 DEF IdInv
<1>7. PassInv
  BY <1>1, <1>2 DEF PassInv
<1>. QED  BY <1>4, <1>5, <1>6, <1>7 DEF LogicInv

\* Every step of the business logic keeps its invariant.
LEMMA LogicNext ==
  ASSUME LogicInv, Next
  PROVE  LogicInv'
<1>1. CASE \E r \in Requests : Receive(r)
  BY <1>1, ReceiveStep
<1>2. CASE Close \/ Reuse
  BY <1>2, ConnectionStep
<1>3. ASSUME NEW t \in Threads, ThreadStep(t) PROVE LogicInv'
  <2>1. CASE TakeMessage(t)
    BY <2>1, TakeStep
  <2>2. CASE CheckMessage(t) \/ Lock(t) \/ Unlock(t)
    BY <2>2, HandlerStep
  <2>3. CASE Reply(t)
    BY <2>3, ReplyStep
  <2>. QED  BY <1>3, <2>1, <2>2, <2>3 DEF ThreadStep
<1>4. CASE StartPass \/ Pass
  BY <1>4, CompareStep, TakeToSendStep, PlaceStep DEF Pass
<1>. QED  BY <1>1, <1>2, <1>3, <1>4 DEF Next

\* The other parts do not touch the variables of the business logic.
LEMMA LogicSame == LogicInv /\ UNCHANGED vars => LogicInv'
BY DEF vars, conn, pool, sender,
       LogicInv, LogicTypes, WorkInv, IdInv, PassInv, Busy, Taken, Handling

\* The invariant of the business logic holds always.
LEMMA LogicInductive == PartsSpec => []LogicInv
<1>1. [PartsNext]_partsVars => Next \/ UNCHANGED vars
  BY DEF PartsNext, partsVars, LogicRuns, CrcRuns, ConfRuns, PrintfRuns, LogRuns, StartupRuns
<1>2. LogicInv /\ [PartsNext]_partsVars => LogicInv'
  BY <1>1, LogicNext, LogicSame
<1>. QED  BY <1>2, LogicInit, PTL DEF PartsSpec

\* A reply that is taken to be sent announces its bytes and their CRC, answers a
\* registration, once, and has passed the comparison of the sequence numbers while
\* its connection had the client that asked, whenever the connection changes hands
\* (threadRecvProcFunc, _HandleRegister, the send thread up to ngx_c_socket.cxx:548).
\* What a thread does with the connection after that is not promised.
THEOREM AnswersAreRight == PartsSpec => []AnswersRight
<1>1. LogicInv => AnswersRight
  <2>. SUFFICES ASSUME LogicInv PROVE ReplyWellFormed /\ AskerThere
    BY DEF AnswersRight
  <2>1. \A d \in taken :
          /\ Answer(d.reply) /\ d.to = d.reply.request.client
          /\ d.isendlen = Swap16(d.reply.packet.pkgLen)
    BY DEF LogicInv, WorkInv
  <2>2. ReplyWellFormed
    BY <2>1 DEF ReplyWellFormed, Answer
  <2>3. AskerThere
    BY <2>1 DEF AskerThere, Answer, LogicInv, IdInv
  <2>. QED  BY <2>2, <2>3
<1>. QED  BY <1>1, LogicInductive, PTL

-----------------------------------------------------------------------------
(* Logging: what a line consists of *)

\* The room of a line, and what lines are made of.
M == MaxErrorStr
LogChars == {"n", "d", "l", "p", "t", "(", "e", ")", "_", G!Newline}

\* Text that goes into a line.
Clean(s) == s \in Seq(LogChars) /\ \A k \in 1..Len(s) : s[k] # G!Newline

HandedOn(s) == Clean(s) /\ Len(s) > 0 /\ s[1] = "n"

\* A line of ngx_log_stderr, and one of ngx_log_error_core.
Head1(line) == line[1] = "n"
Head3(line) == Len(line) > 3 /\ line[1] = "d" /\ line[2] = "l" /\ line[3] = "p"

\* The text of an error number is there wholly or not at all.
ErrnoOK(line) ==
  \A k \in 1..Len(line) : line[k] = "(" =>
    k + 2 <= Len(line) /\ line[k + 1] = "e" /\ line[k + 2] = ")"

\* A line as it is written; the second of two passes may cut.
GoodLine(line) ==
  /\ line \in Seq(LogChars) /\ Len(line) > 1 /\ Len(line) <= M
  /\ \A k \in 1..Len(line) : line[k] = G!Newline <=> k = Len(line)
  /\ Head1(line) \/ Head3(line)
  /\ ErrnoOK(line) \/ (Head3(line) /\ line[4] = "n")

GoodList(list) ==
  /\ list \in Seq(Seq(LogChars))
  /\ \A k \in 1..Len(list) : GoodLine(list[k])

\* What ngx_log_stderr hands on begins with its head, and goes to the file.
LogInv ==
  /\ GoodList(console) /\ GoodList(logfile)
  /\ fd \in {"none", "file", "stderr", "closed"} /\ log_level \in LogLevels \cup {0}
  /\ errstr = <<>> \/ (HandedOn(errstr) /\ fd = "file")

\* The heads of lines and the text of an error number, character by character.
LEMMA HeadsAre ==
  /\ Clean(G!Prefix) /\ Len(G!Prefix) = 1 /\ G!Prefix[1] = "n"
  /\ Clean(G!Stamp) /\ Len(G!Stamp) = 3
  /\ G!Stamp[1] = "d" /\ G!Stamp[2] = "l" /\ G!Stamp[3] = "p"
  /\ Clean(G!ErrnoText) /\ Len(G!ErrnoText) = 4
  /\ G!ErrnoText[1] = "(" /\ G!ErrnoText[2] = "e" /\ G!ErrnoText[3] = ")"
  /\ G!ErrnoText[4] # "("
  /\ \A k \in 1..3 : G!Stamp[k] # "("
<1>1. /\ Len(G!Prefix) = 1 /\ G!Prefix[1] = "n"
      /\ Len(G!Stamp) = 3 /\ G!Stamp[1] = "d" /\ G!Stamp[2] = "l" /\ G!Stamp[3] = "p"
      /\ Len(G!ErrnoText) = 4
      /\ G!ErrnoText[1] = "(" /\ G!ErrnoText[2] = "e" /\ G!ErrnoText[3] = ")"
      /\ G!ErrnoText[4] = "_"
  BY DEF G!Prefix, G!Stamp, G!ErrnoText
<1>2. /\ "n" \in LogChars /\ "d" \in LogChars /\ "l" \in LogChars /\ "p" \in LogChars
      /\ "(" \in LogChars /\ "e" \in LogChars /\ ")" \in LogChars /\ "_" \in LogChars
  BY DEF LogChars
<1>3. \A X : /\ \A x \in X : <<x>> \in Seq(X)
             /\ \A x, y, z \in X : <<x, y, z>> \in Seq(X)
             /\ \A w, x, y, z \in X : <<w, x, y, z>> \in Seq(X)
  OBVIOUS
<1>4. /\ G!Prefix \in Seq(LogChars) /\ G!Stamp \in Seq(LogChars)
      /\ G!ErrnoText \in Seq(LogChars)
  BY <1>2, <1>3 DEF G!Prefix, G!Stamp, G!ErrnoText
<1>5. /\ \A k \in 1..1 : k = 1
      /\ \A k \in 1..3 : k = 1 \/ k = 2 \/ k = 3
      /\ \A k \in 1..4 : k = 1 \/ k = 2 \/ k = 3 \/ k = 4
  OBVIOUS
<1>. QED  BY <1>1, <1>4, <1>5 DEF Clean, G!Newline

\* There is room for both heads and two characters.
LEMMA MIs == M \in Nat /\ M > 6
<1>1. M \in Nat /\ M > Len(G!Prefix \o G!Stamp) + 2
  BY PartsAssumption DEF M, G!LogAssumption
<1>2. /\ G!Prefix \in Seq(LogChars) /\ G!Stamp \in Seq(LogChars)
      /\ Len(G!Prefix) = 1 /\ Len(G!Stamp) = 3
  BY HeadsAre DEF Clean
<1>3. Len(G!Prefix \o G!Stamp) = Len(G!Prefix) + Len(G!Stamp)
  BY ONLY <1>2, ConcatProperties
<1>. QED  BY <1>1, <1>2, <1>3

\* The part of a text that fits.
LEMMA FillIs ==
  ASSUME NEW head, Clean(head), Len(head) <= M, NEW text, Clean(text)
  PROVE  \E a \in Len(head)..(Len(head) + Len(text)) :
           /\ a <= M /\ (Len(head) < M /\ Len(text) > 0 => a > Len(head))
           /\ Clean(G!Fill(head, text)) /\ Len(G!Fill(head, text)) = a
           /\ \A k \in 1..Len(head) : G!Fill(head, text)[k] = head[k]
           /\ \A k \in (Len(head) + 1)..a : G!Fill(head, text)[k] = text[k - Len(head)]
<1>. DEFINE q == IF Len(head) + Len(text) <= M THEN Len(text) ELSE M - Len(head)
            part1 == SubSeq(text, 1, q)
<1>1. /\ head \in Seq(LogChars) /\ text \in Seq(LogChars) /\ Len(head) \in Nat /\ Len(text) \in Nat
      /\ M \in Nat
  BY MIs DEF Clean
<1>2. /\ q \in 0..Len(text) /\ Len(head) + q <= M
      /\ Len(head) < M /\ Len(text) > 0 => q > 0
  BY <1>1
<1>. HIDE DEF q
<1>3. /\ part1 \in Seq(LogChars) /\ Len(part1) = q
      /\ \A k \in 1..q : part1[k] = text[k]
  <2>1. \A k \in 1..q : text[k] \in LogChars
    BY <1>1, <1>2
  <2>. QED  BY <1>1, <1>2, <2>1, SubSeqProperties
<1>. HIDE DEF part1
<1>4. G!Fill(head, text) = head \o part1
  BY DEF G!Fill, part1, q, M
<1>5. /\ head \o part1 \in Seq(LogChars) /\ Len(head \o part1) = Len(head) + q
      /\ \A k \in 1..(Len(head) + q) :
           (head \o part1)[k] = IF k <= Len(head) THEN head[k] ELSE part1[k - Len(head)]
  BY <1>1, <1>3, ConcatProperties
<1>6. \A k \in 1..Len(head) : (head \o part1)[k] = head[k]
  BY <1>1, <1>2, <1>5
<1>7. \A k \in (Len(head) + 1)..(Len(head) + q) :
        (head \o part1)[k] = text[k - Len(head)] /\ k - Len(head) \in 1..Len(text)
  BY <1>1, <1>2, <1>3, <1>5
<1>8. Clean(head \o part1)
  <2>1. \A k \in 1..(Len(head) + q) :
          k \in 1..Len(head) \/ k \in (Len(head) + 1)..(Len(head) + q)
    BY <1>1, <1>2
  <2>. QED  BY <1>5, <1>6, <1>7, <2>1 DEF Clean
<1>9. Len(head) + q \in Len(head)..(Len(head) + Len(text))
      /\ (Len(head) < M /\ Len(text) > 0 => Len(head) + q > Len(head))
  BY <1>1, <1>2
<1>. QED  BY <1>2, <1>4, <1>5, <1>6, <1>7, <1>8, <1>9

\* Text without an error number.
Plain(s) == \A k \in 1..Len(s) : s[k] # "("

\* r is the line with the text of an error number at its end, or as it was.
IsErrnoOf(r, line) ==
  /\ Clean(r) /\ Len(r) >= Len(line) /\ Len(r) <= M
  /\ \A k \in 1..Len(line) : r[k] = line[k]
  /\ r = line \/ (/\ Len(r) = Len(line) + 4 /\ Len(r) < M
                  /\ r[Len(line) + 1] = "(" /\ r[Len(line) + 2] = "e"
                  /\ r[Len(line) + 3] = ")" /\ r[Len(line) + 4] # "(")

\* There has to be room for the text and for one character more.
LEMMA ErrnoIs ==
  ASSUME NEW line, Clean(line), Len(line) <= M, NEW err \in BOOLEAN
  PROVE  IsErrnoOf(G!ngx_log_errno(line, err), line)
<1>. DEFINE r == G!ngx_log_errno(line, err)
            e == G!ErrnoText
<1>1. /\ line \in Seq(LogChars) /\ Len(line) \in Nat /\ M \in Nat
      /\ \A k \in 1..Len(line) : line[k] # G!Newline
  BY MIs DEF Clean
<1>2. /\ e \in Seq(LogChars) /\ Len(e) = 4 /\ \A k \in 1..4 : e[k] # G!Newline
      /\ e[1] = "(" /\ e[2] = "e" /\ e[3] = ")" /\ e[4] # "("
  BY HeadsAre DEF Clean
<1>3. CASE err /\ Len(line) + 4 < M
  <2>1. r = line \o e
    BY <1>2, <1>3 DEF G!ngx_log_errno, M
  <2>. HIDE DEF r, e
  <2>2. /\ line \o e \in Seq(LogChars) /\ Len(line \o e) = Len(line) + 4
        /\ \A k \in 1..(Len(line) + 4) :
             (line \o e)[k] = IF k <= Len(line) THEN line[k] ELSE e[k - Len(line)]
    <3>1. line \in Seq(LogChars) /\ e \in Seq(LogChars) /\ Len(e) = 4
      BY <1>1, <1>2
    <3>2. /\ line \o e \in Seq(LogChars) /\ Len(line \o e) = Len(line) + Len(e)
          /\ \A k \in 1..(Len(line) + Len(e)) :
               (line \o e)[k] = IF k <= Len(line) THEN line[k] ELSE e[k - Len(line)]
      BY ONLY <3>1, ConcatProperties
    <3>. QED  BY <3>1, <3>2
  <2>3. \A k \in 1..Len(line) : r[k] = line[k]
    BY <1>1, <2>1, <2>2
  <2>4. \A j \in 1..4 : r[Len(line) + j] = e[j]
    <3>1. \A j \in 1..4 : /\ Len(line) + j \in 1..(Len(line) + 4)
                          /\ ~(Len(line) + j <= Len(line))
                          /\ (Len(line) + j) - Len(line) = j
      BY <1>1
    <3>. QED  BY <2>1, <2>2, <3>1
  <2>5. Clean(r)
    <3>1. \A k \in 1..(Len(line) + 4) :
            k \in 1..Len(line) \/ \E j \in 1..4 : k = Len(line) + j
      <4>. SUFFICES ASSUME NEW k \in 1..(Len(line) + 4), ~(k \in 1..Len(line))
                    PROVE  \E j \in 1..4 : k = Len(line) + j
        OBVIOUS
      <4>1. k - Len(line) \in 1..4 /\ k = Len(line) + (k - Len(line))
        BY <1>1
      <4>. QED  BY <4>1
    <3>. QED  BY <1>1, <1>2, <2>1, <2>2, <2>3, <2>4, <3>1 DEF Clean
  <2>6. /\ r[Len(line) + 1] = "(" /\ r[Len(line) + 2] = "e"
        /\ r[Len(line) + 3] = ")" /\ r[Len(line) + 4] # "("
    BY <1>2, <2>4
  <2>7. /\ Len(r) = Len(line) + 4 /\ Len(line) + 4 >= Len(line)
        /\ Len(r) <= M /\ Len(r) < M
    BY <1>1, <1>3, <2>1, <2>2
  <2>. QED  BY <2>3, <2>5, <2>6, <2>7 DEF r, IsErrnoOf
<1>4. CASE ~(err /\ Len(line) + 4 < M)
  <2>1. r = line
    BY <1>2, <1>4 DEF G!ngx_log_errno, M
  <2>. HIDE DEF r
  <2>. QED  BY <1>1, <2>1 DEF IsErrnoOf, r
<1>. QED  BY <1>3, <1>4

\* The newline takes the place of what follows the first M - 2 characters.
LEMMA EndIs ==
  ASSUME NEW s, Clean(s), Len(s) <= M
  PROVE  \E c \in 0..Len(s) :
           /\ c = IF Len(s) >= M - 1 THEN M - 2 ELSE Len(s)
           /\ G!EndLine(s) \in Seq(LogChars) /\ Len(G!EndLine(s)) = c + 1
           /\ \A k \in 1..c : G!EndLine(s)[k] = s[k]
           /\ G!EndLine(s)[c + 1] = G!Newline
<1>. DEFINE c == IF Len(s) >= M - 1 THEN M - 2 ELSE Len(s)
            cut == IF Len(s) >= M - 1 THEN SubSeq(s, 1, M - 2) ELSE s
<1>1. /\ s \in Seq(LogChars) /\ Len(s) \in Nat /\ M \in Nat /\ M > 6
  BY MIs DEF Clean
<1>2. c \in 0..Len(s)
  BY <1>1
<1>3. G!EndLine(s) = Append(cut, G!Newline)
  BY DEF G!EndLine, M
<1>4. G!Newline \in LogChars
  BY DEF LogChars
<1>5. /\ cut \in Seq(LogChars) /\ Len(cut) = c
      /\ \A k \in 1..c : cut[k] = s[k]
  <2>1. CASE Len(s) >= M - 1
    <3>1. /\ c = M - 2 /\ cut = SubSeq(s, 1, M - 2)
          /\ \A k \in 1..(M - 2) : k \in 1..Len(s)
          /\ \A k \in 1..(M - 2) : 1 + k - 1 = k
      BY <1>1, <2>1
    <3>2. \A k \in 1..(M - 2) : s[k] \in LogChars
      BY <1>1, <3>1, ElementOfSeq
    <3>3. /\ SubSeq(s, 1, M - 2) \in Seq(LogChars) /\ Len(SubSeq(s, 1, M - 2)) = M - 2
          /\ \A k \in 1..(M - 2) : SubSeq(s, 1, M - 2)[k] = s[k]
      BY <1>1, <3>1, <3>2, SubSeqProperties
    <3>. HIDE DEF c, cut
    <3>. QED  BY <3>1, <3>3
  <2>2. CASE ~(Len(s) >= M - 1)
    BY <1>1, <2>2
  <2>. QED  BY <2>1, <2>2
<1>. HIDE DEF cut
<1>6. /\ Append(cut, G!Newline) \in Seq(LogChars) /\ Len(Append(cut, G!Newline)) = c + 1
      /\ \A k \in 1..c : Append(cut, G!Newline)[k] = cut[k]
      /\ Append(cut, G!Newline)[c + 1] = G!Newline
  <2>. HIDE DEF c
  <2>. QED  BY <1>4, <1>5, AppendProperties
<1>. QED  BY <1>2, <1>3, <1>5, <1>6

\* A line that ngx_log_stderr or ngx_log_error_core makes of a head and a text.
IsLineOf(line, head, text) ==
  /\ line \in Seq(LogChars) /\ Len(line) > Len(head) /\ Len(line) <= M
  /\ \A k \in 1..Len(line) : line[k] = G!Newline <=> k = Len(line)
  /\ \A k \in 1..Len(head) : line[k] = head[k]
  /\ Len(text) > 0 => line[Len(head) + 1] = text[1]
  /\ Plain(text) => ErrnoOK(line)

\* Head, text and error number are cut off together, but the head never is.
LEMMA LineOf ==
  ASSUME NEW head, Clean(head), Plain(head), Len(head) \in 1..3,
         NEW text, Clean(text), NEW err \in BOOLEAN
  PROVE  IsLineOf(G!Formatted(head, text, err), head, text)
<1>. DEFINE n == Len(head)
            f == G!Fill(head, text)
            r == G!ngx_log_errno(f, err)
<1>0. PICK line : line = G!Formatted(head, text, err)
  OBVIOUS
<1>1. /\ M \in Nat /\ M > 6 /\ n \in 1..3 /\ n <= M /\ n < M
      /\ head \in Seq(LogChars) /\ text \in Seq(LogChars) /\ Len(text) \in Nat
  BY MIs DEF Clean
<1>2. PICK a \in n..(n + Len(text)) :
        /\ a <= M /\ (n < M /\ Len(text) > 0 => a > n)
        /\ Clean(f) /\ Len(f) = a
        /\ \A k \in 1..n : f[k] = head[k]
        /\ \A k \in (n + 1)..a : f[k] = text[k - n]
  BY <1>1, FillIs
<1>. HIDE DEF f
<1>3. /\ Clean(r) /\ Len(r) >= a /\ Len(r) <= M
      /\ \A k \in 1..a : r[k] = f[k]
      /\ r = f \/ (/\ Len(r) = a + 4 /\ Len(r) < M
                   /\ r[a + 1] = "(" /\ r[a + 2] = "e"
                   /\ r[a + 3] = ")" /\ r[a + 4] # "(")
  <2>1. Clean(f) /\ Len(f) <= M
    BY <1>2
  <2>2. IsErrnoOf(r, f)
    BY ONLY <2>1, err \in BOOLEAN, ErrnoIs
  <2>. HIDE DEF r
  <2>. QED  BY <1>2, <2>2 DEF IsErrnoOf
<1>. HIDE DEF r
<1>4. PICK c \in 0..Len(r) :
        /\ c = IF Len(r) >= M - 1 THEN M - 2 ELSE Len(r)
        /\ line \in Seq(LogChars) /\ Len(line) = c + 1
        /\ \A k \in 1..c : line[k] = r[k]
        /\ line[c + 1] = G!Newline
  <2>1. line = G!EndLine(r)
    BY <1>0 DEF G!Formatted, f, r
  <2>2. Clean(r) /\ Len(r) <= M
    BY <1>3
  <2>. QED  BY ONLY <2>1, <2>2, EndIs
<1>6. a \in Nat /\ Len(r) \in Nat /\ c \in Nat /\ n \in Nat
      /\ c >= n /\ c + 1 <= M /\ (Len(text) > 0 => a >= n + 1 /\ c >= n + 1)
  <2>1. Len(r) \in Nat
    BY <1>3 DEF Clean
  <2>2. Len(r) >= a /\ Len(r) <= M /\ c = IF Len(r) >= M - 1 THEN M - 2 ELSE Len(r)
    BY <1>3, <1>4
  <2>3. /\ M \in Nat /\ M > 6 /\ n \in Nat /\ n <= 3 /\ a \in Nat /\ a >= n
        /\ Len(text) > 0 => a >= n + 1
    BY <1>1, <1>2
  <2>. HIDE DEF n
  <2>4. c \in Nat /\ c + 1 <= M /\ (c >= a \/ c >= 5)
    BY ONLY <2>1, <2>2, <2>3
  <2>5. c >= n /\ (Len(text) > 0 => c >= n + 1)
    BY ONLY <2>1, <2>3, <2>4
  <2>. QED  BY ONLY <2>1, <2>3, <2>4, <2>5
<1>7. \A k \in 1..n : line[k] = head[k]
  <2>1. \A k \in 1..n : k \in 1..c /\ k \in 1..a
    BY <1>1, <1>2, <1>6
  <2>. QED  BY <1>2, <1>3, <1>4, <2>1
<1>8. Len(text) > 0 => line[n + 1] = text[1]
  <2>. SUFFICES ASSUME Len(text) > 0 PROVE line[n + 1] = text[1]
    OBVIOUS
  <2>. DEFINE j == n + 1
  <2>1. j \in 1..c /\ j \in 1..a /\ j \in (n + 1)..a /\ j - n = 1
    BY <1>6
  <2>. HIDE DEF j
  <2>2. line[j] = r[j] /\ r[j] = f[j] /\ f[j] = text[j - n]
    BY <1>2, <1>3, <1>4, <2>1
  <2>3. line[j] = text[1]
    BY <2>1, <2>2
  <2>. QED  BY <2>3 DEF j
<1>9. \A k \in 1..Len(line) : line[k] = G!Newline <=> k = Len(line)
  <2>1. \A k \in 1..c : r[k] # G!Newline
    BY <1>3, <1>4, <1>6 DEF Clean
  <2>2. \A k \in 1..(c + 1) : k \in 1..c \/ k = c + 1
    BY <1>6
  <2>3. \A k \in 1..c : k # c + 1
    BY <1>6
  <2>. QED  BY <1>4, <2>1, <2>2, <2>3
<1>10. ASSUME Plain(text) PROVE ErrnoOK(line)
  <2>1. \A k \in 1..a : r[k] # "("
    <3>1. \A k \in 1..a : k \in 1..n \/ (k \in (n + 1)..a /\ k - n \in 1..Len(text))
      BY <1>1, <1>2, <1>6
    <3>. QED  BY <1>2, <1>3, <1>10, <3>1 DEF Plain
  <2>2. ASSUME NEW k \in 1..(c + 1), line[k] = "("
        PROVE  k = a + 1 /\ Len(r) = a + 4 /\ r # f /\ k <= c
    <3>1. k \in 1..c
      <4>1. k \in 1..c \/ k = c + 1
        BY <1>6
      <4>2. G!Newline # "("
        BY DEF G!Newline
      <4>. QED  BY <1>4, <2>2, <4>1, <4>2
    <3>2. r[k] = "(" /\ ~(k \in 1..a) /\ k \in 1..Len(r)
      BY <1>4, <1>6, <2>1, <2>2, <3>1
    <3>3. r # f
      BY <1>2, <3>2
    <3>4. k \in (a + 1)..(a + 4)
      BY <1>3, <1>6, <3>2, <3>3
    <3>5. k = a + 1 \/ k = a + 2 \/ k = a + 3 \/ k = a + 4
      BY <1>6, <3>4
    <3>6. "e" # "(" /\ ")" # "("
      OBVIOUS
    <3>. QED  BY <1>3, <1>6, <3>1, <3>2, <3>3, <3>5, <3>6
  <2>3. ASSUME NEW k \in 1..(c + 1), line[k] = "("
        PROVE  k + 2 <= c + 1 /\ line[k + 1] = "e" /\ line[k + 2] = ")"
    <3>1. k = a + 1 /\ Len(r) = a + 4 /\ r # f /\ Len(r) < M
      BY <1>3, <2>2, <2>3
    <3>2. c >= a + 3
      BY <1>1, <1>4, <1>6, <3>1
    <3>3. /\ k + 1 = a + 2 /\ k + 2 = a + 3 /\ k + 2 <= c + 1
          /\ a + 2 \in 1..c /\ a + 3 \in 1..c
      BY <1>6, <3>1, <3>2
    <3>. QED  BY <1>3, <1>4, <3>1, <3>3
  <2>. QED  BY <1>4, <2>3 DEF ErrnoOK
<1>11. Len(line) > n /\ Len(line) <= M /\ line \in Seq(LogChars)
  BY <1>4, <1>6
<1>. QED  BY <1>0, <1>7, <1>8, <1>9, <1>10, <1>11 DEF IsLineOf

\* A message has no newline and no parenthesis in it.
LEMMA MessageIs ==
  ASSUME NEW n \in Nat
  PROVE  Clean(G!Message(n)) /\ Plain(G!Message(n))
<1>. DEFINE m == [k \in 1..n |-> "t"]
<1>1. m \in [1..n -> LogChars] /\ \A k \in 1..n : m[k] = "t"
  BY DEF LogChars
<1>. HIDE DEF m
<1>2. m \in Seq(LogChars) /\ Len(m) = n
  BY <1>1, SeqDef
<1>3. "t" # G!Newline /\ "t" # "("
  BY DEF G!Newline
<1>4. G!Message(n) = m
  BY DEF G!Message, m
<1>. QED  BY <1>1, <1>2, <1>3, <1>4 DEF Clean, Plain

\* The lines of ngx_log_stderr, and what it hands on.
LEMMA StderrLine ==
  ASSUME NEW n \in Nat, NEW err \in BOOLEAN
  PROVE  LET line == G!Formatted(G!Prefix, G!Message(n), err)
         IN  GoodLine(line) /\ HandedOn(G!WithoutNewline(line))
<1>0. PICK line : line = G!Formatted(G!Prefix, G!Message(n), err)
  OBVIOUS
<1>. DEFINE s == SubSeq(line, 1, Len(line) - 1)
<1>1. /\ Clean(G!Prefix) /\ Plain(G!Prefix) /\ Len(G!Prefix) = 1
      /\ G!Prefix[1] = "n"
  <2>1. "n" # "(" /\ \A k \in 1..1 : k = 1
    OBVIOUS
  <2>. QED  BY <2>1, HeadsAre DEF Plain
<1>2. /\ line \in Seq(LogChars) /\ Len(line) > 1 /\ Len(line) <= M
      /\ \A k \in 1..Len(line) : line[k] = G!Newline <=> k = Len(line)
      /\ line[1] = "n" /\ ErrnoOK(line)
  <2>1. Len(G!Prefix) \in 1..3 /\ \A k \in 1..1 : k \in 1..Len(G!Prefix)
    BY <1>1
  <2>2. Clean(G!Message(n)) /\ Plain(G!Message(n))
    BY MessageIs
  <2>3. IsLineOf(line, G!Prefix, G!Message(n))
    BY ONLY <1>0, <1>1, <2>1, <2>2, err \in BOOLEAN, LineOf
  <2>4. 1 \in 1..1
    OBVIOUS
  <2>. QED  BY <1>1, <2>2, <2>3, <2>4 DEF IsLineOf
<1>3. GoodLine(line)
  BY <1>2 DEF GoodLine, Head1
<1>4. /\ s \in Seq(LogChars) /\ Len(s) = Len(line) - 1
      /\ \A k \in 1..(Len(line) - 1) : s[k] = line[k] /\ k \in 1..Len(line) /\ k # Len(line)
  <2>1. Len(line) \in Nat
    BY <1>2
  <2>2. \A k \in 1..(Len(line) - 1) : k \in 1..Len(line) /\ k # Len(line) /\ 1 + k - 1 = k
    BY <2>1
  <2>3. \A k \in 1..(Len(line) - 1) : line[k] \in LogChars
    BY <1>2, <2>2, ElementOfSeq
  <2>4. /\ s \in Seq(LogChars) /\ Len(s) = Len(line) - 1
        /\ \A k \in 1..(Len(line) - 1) : s[k] = line[1 + k - 1]
    BY <1>2, <2>1, <2>3, SubSeqProperties
  <2>. HIDE DEF s
  <2>. QED  BY <2>2, <2>4
<1>. HIDE DEF s
<1>5. HandedOn(s)
  <2>1. 1 \in 1..(Len(line) - 1) /\ Len(line) - 1 > 0
    BY <1>2
  <2>. QED  BY <1>2, <1>4, <2>1 DEF HandedOn, Clean
<1>6. G!WithoutNewline(line) = s
  BY DEF G!WithoutNewline, s
<1>. QED  BY <1>0, <1>3, <1>5, <1>6

\* The lines of ngx_log_error_core: of a message, or of what is handed on.
LEMMA CoreLine ==
  ASSUME NEW text, Clean(text), NEW err \in BOOLEAN, Plain(text) \/ HandedOn(text)
  PROVE  GoodLine(G!Formatted(G!Stamp, text, err))
<1>0. PICK line : line = G!Formatted(G!Stamp, text, err)
  OBVIOUS
<1>1. /\ Clean(G!Stamp) /\ Plain(G!Stamp) /\ Len(G!Stamp) = 3
      /\ G!Stamp[1] = "d" /\ G!Stamp[2] = "l" /\ G!Stamp[3] = "p"
  BY HeadsAre DEF Plain
<1>2. /\ line \in Seq(LogChars) /\ Len(line) > 3 /\ Len(line) <= M
      /\ \A k \in 1..Len(line) : line[k] = G!Newline <=> k = Len(line)
      /\ \A k \in 1..3 : line[k] = G!Stamp[k]
      /\ Len(text) > 0 => line[4] = text[1]
      /\ Plain(text) => ErrnoOK(line)
  <2>1. Len(G!Stamp) \in 1..3
    BY <1>1
  <2>2. IsLineOf(line, G!Stamp, text)
    BY ONLY <1>0, <1>1, <2>1, Clean(text), err \in BOOLEAN, LineOf
  <2>3. Len(G!Stamp) + 1 = 4
    BY <1>1
  <2>. QED  BY <1>1, <2>2, <2>3 DEF IsLineOf
<1>3. Head3(line)
  <2>1. 1 \in 1..3 /\ 2 \in 1..3 /\ 3 \in 1..3
    OBVIOUS
  <2>. QED  BY <1>1, <1>2, <2>1 DEF Head3
<1>4. HandedOn(text) => line[4] = "n"
  BY <1>2 DEF HandedOn
<1>5. Len(line) > 1
  BY <1>2
<1>6. GoodLine(line)
  BY <1>2, <1>3, <1>4, <1>5 DEF GoodLine
<1>. QED  BY <1>0, <1>6

\* What is written is one line more.
LEMMA ListGrows ==
  ASSUME NEW list, GoodList(list), NEW line, GoodLine(line)
  PROVE  GoodList(Append(list, line))
<1>1. line \in Seq(LogChars) /\ list \in Seq(Seq(LogChars)) /\ Len(list) \in Nat
  BY DEF GoodLine, GoodList
<1>2. /\ Append(list, line) \in Seq(Seq(LogChars)) /\ Len(Append(list, line)) = Len(list) + 1
      /\ \A k \in 1..Len(list) : Append(list, line)[k] = list[k]
      /\ Append(list, line)[Len(list) + 1] = line
  BY <1>1, AppendProperties
<1>3. \A k \in 1..(Len(list) + 1) : k \in 1..Len(list) \/ k = Len(list) + 1
  BY <1>1
<1>4. \A k \in 1..Len(list) : GoodLine(list[k])
  BY DEF GoodList
<1>. QED  BY <1>2, <1>3, <1>4 DEF GoodList

\* ngx_log_error_core writes its line in one place, or nowhere.
LEMMA WriteStep ==
  ASSUME LogInv, NEW level, NEW line, GoodLine(line), G!WriteLine(level, line)
  PROVE  GoodList(console)' /\ GoodList(logfile)'
<1>1. /\ console' = console \/ console' = Append(console, line)
      /\ logfile' = logfile \/ logfile' = Append(logfile, line)
  BY DEF G!WriteLine
<1>2. /\ GoodList(console) /\ GoodList(Append(console, line))
      /\ GoodList(logfile) /\ GoodList(Append(logfile, line))
  BY ListGrows DEF LogInv
<1>3. GoodList(console') /\ GoodList(logfile')
  BY <1>1, <1>2
<1>. QED  BY <1>3 DEF GoodList

\* Every step of the log writes lines and hands on text as the invariant says.
LEMMA LogStep ==
  ASSUME LogInv, G!Next
  PROVE  LogInv'
<1>. USE DEF LogInv
<1>1. TextLengths \subseteq Nat
  BY PartsAssumption DEF G!LogAssumption
<1>2. ASSUME NEW n \in TextLengths, NEW err \in BOOLEAN, G!ngx_log_stderr(n, err)
      PROVE  LogInv'
  <2>1. PICK line : line = G!Formatted(G!Prefix, G!Message(n), err)
    OBVIOUS
  <2>2. /\ console' = Append(console, line)
        /\ errstr' = IF fd = "file" THEN G!WithoutNewline(line) ELSE <<>>
        /\ UNCHANGED <<fd, log_level, logfile>>
    BY <1>2, <2>1 DEF G!ngx_log_stderr
  <2>3. GoodLine(line) /\ HandedOn(G!WithoutNewline(line))
    BY <1>1, <2>1, StderrLine
  <2>4. GoodList(console') /\ GoodList(logfile')
    BY <2>2, <2>3, ListGrows
  <2>5. errstr' = <<>> \/ (HandedOn(errstr') /\ fd' = "file")
    BY <2>2, <2>3
  <2>. QED  BY <2>2, <2>4, <2>5 DEF GoodList, HandedOn, Clean
<1>3. ASSUME NEW n \in TextLengths, NEW err \in BOOLEAN, NEW level \in G!Levels,
             G!ngx_log_error_core(level, n, err)
      PROVE  LogInv'
  <2>1. PICK line : line = G!Formatted(G!Stamp, G!Message(n), err)
    OBVIOUS
  <2>2. GoodLine(line)
    BY <1>1, <2>1, MessageIs, CoreLine
  <2>3. G!WriteLine(level, line) /\ UNCHANGED <<fd, log_level, errstr>>
    BY <1>3, <2>1 DEF G!ngx_log_error_core
  <2>4. GoodList(console)' /\ GoodList(logfile)'
    BY <2>2, <2>3, WriteStep
  <2>. QED  BY <2>3, <2>4
<1>4. ASSUME G!AlsoToFile PROVE LogInv'
  <2>1. PICK line : line = G!Formatted(G!Stamp, errstr, FALSE)
    OBVIOUS
  <2>2. HandedOn(errstr) /\ Clean(errstr)
    BY <1>4 DEF G!AlsoToFile, HandedOn
  <2>3. GoodLine(line)
    BY <2>1, <2>2, CoreLine
  <2>4. /\ G!WriteLine(G!STDERR, line) /\ errstr' = <<>>
        /\ UNCHANGED <<fd, log_level>>
    BY <1>4, <2>1 DEF G!AlsoToFile
  <2>5. GoodList(console)' /\ GoodList(logfile)'
    BY <2>3, <2>4, WriteStep
  <2>. QED  BY <2>4, <2>5
<1>5. ASSUME G!ngx_log_init PROVE LogInv'
  <2>1. /\ errstr = <<>> /\ errstr' = <<>> /\ logfile' = logfile
        /\ log_level' \in LogLevels /\ fd' \in {"file", "stderr"}
        /\ \/ console' = console
           \/ \E n \in TextLengths :
                console' = Append(console, G!Formatted(G!Prefix, G!Message(n), TRUE))
    BY <1>5 DEF G!ngx_log_init
  <2>2. GoodList(console')
    <3>1. ASSUME NEW n \in TextLengths,
                 console' = Append(console, G!Formatted(G!Prefix, G!Message(n), TRUE))
          PROVE  GoodList(console')
      <4>1. GoodLine(G!Formatted(G!Prefix, G!Message(n), TRUE))
        BY <1>1, StderrLine
      <4>. QED  BY <3>1, <4>1, ListGrows
    <3>. QED  BY <2>1, <3>1
  <2>3. GoodList(logfile')
    BY <2>1
  <2>. QED  BY <2>1, <2>2, <2>3 DEF GoodList
<1>6. ASSUME G!CloseLog PROVE LogInv'
  <2>1. /\ errstr = <<>> /\ fd' = "closed"
        /\ UNCHANGED <<log_level, console, logfile, errstr>>
    BY <1>6 DEF G!CloseLog
  <2>. QED  BY <2>1 DEF GoodList
<1>. QED  BY <1>2, <1>3, <1>4, <1>5, <1>6 DEF G!Next

\* At first nothing has been logged.
LEMMA LogInit == G!Init => LogInv
<1>. SUFFICES ASSUME G!Init PROVE LogInv
  OBVIOUS
<1>1. <<>> \in Seq(Seq(LogChars)) /\ Len(<<>>) = 0 /\ 1..0 = {}
  BY EmptySeq
<1>2. GoodList(<<>>)
  BY <1>1 DEF GoodList
<1>. QED  BY <1>2 DEF G!Init, LogInv

\* The invariant of the log holds always.
LEMMA LogInductive == PartsSpec => []LogInv
<1>1. PartsInit => LogInv
  BY LogInit DEF PartsInit
<1>2. LogInv /\ [PartsNext]_partsVars => LogInv'
  <2>. SUFFICES ASSUME LogInv, [PartsNext]_partsVars PROVE LogInv'
    OBVIOUS
  <2>1. CASE G!Next
    BY <2>1, LogStep
  <2>2. CASE UNCHANGED logVars
    BY <2>2 DEF LogInv, GoodList, HandedOn, Clean, logVars
  <2>3. [PartsNext]_partsVars => G!Next \/ UNCHANGED logVars
    BY DEF PartsNext, partsVars, LogicRuns, CrcRuns, ConfRuns, PrintfRuns, LogRuns, StartupRuns
  <2>. QED  BY <2>1, <2>2, <2>3
<1>. QED  BY <1>1, <1>2, PTL DEF PartsSpec

\* A line begins with what its first characters are.
LEMMA PrefixIf ==
  ASSUME NEW p \in Seq(LogChars), NEW s \in Seq(LogChars), Len(p) <= Len(s),
         \A k \in 1..Len(p) : p[k] = s[k]
  PROVE  G!IsPrefix(p, s)
<1>1. Len(p) \in Nat /\ Len(s) \in Nat
  OBVIOUS
<1>2. \A k \in 1..Len(p) : p[k] \in LogChars /\ s[k] \in LogChars
  BY ElementOfSeq
<1>3. \A k \in 1..Len(p) : 1 + k - 1 = k
  BY <1>1
<1>4. /\ SubSeq(p, 1, Len(p)) \in Seq(LogChars) /\ Len(SubSeq(p, 1, Len(p))) = Len(p)
      /\ \A k \in 1..Len(p) : SubSeq(p, 1, Len(p))[k] = p[k]
  BY <1>1, <1>2, <1>3, SubSeqProperties
<1>5. /\ SubSeq(s, 1, Len(p)) \in Seq(LogChars) /\ Len(SubSeq(s, 1, Len(p))) = Len(p)
      /\ \A k \in 1..Len(p) : SubSeq(s, 1, Len(p))[k] = s[k]
  BY <1>1, <1>2, <1>3, SubSeqProperties
<1>6. SubSeq(p, 1, Len(p)) = SubSeq(s, 1, Len(p))
  BY <1>4, <1>5, SeqEqual
<1>. QED  BY <1>6 DEF G!IsPrefix

\* A line with the characters of a head begins with that head.
LEMMA BeginsWith ==
  ASSUME NEW line \in Seq(LogChars), Len(line) > 1
  PROVE  /\ Head1(line) => G!IsPrefix(G!Prefix, line)
         /\ Head3(line) => G!IsPrefix(G!Stamp, line)
         /\ Head3(line) /\ line[4] = "n" => G!IsPrefix(G!Stamp \o G!Prefix, line)
<1>1. /\ G!Prefix \in Seq(LogChars) /\ Len(G!Prefix) = 1 /\ G!Prefix[1] = "n"
      /\ G!Stamp \in Seq(LogChars) /\ Len(G!Stamp) = 3
      /\ G!Stamp[1] = "d" /\ G!Stamp[2] = "l" /\ G!Stamp[3] = "p"
      /\ Len(line) \in Nat
  BY HeadsAre DEF Clean
<1>2. /\ \A k \in 1..1 : k = 1
      /\ \A k \in 1..3 : k = 1 \/ k = 2 \/ k = 3
      /\ \A k \in 1..4 : k = 1 \/ k = 2 \/ k = 3 \/ k = 4
  OBVIOUS
<1>3. ASSUME Head1(line) PROVE G!IsPrefix(G!Prefix, line)
  BY <1>1, <1>2, <1>3, PrefixIf DEF Head1
<1>4. ASSUME Head3(line) PROVE G!IsPrefix(G!Stamp, line)
  BY <1>1, <1>2, <1>4, PrefixIf DEF Head3
<1>5. ASSUME Head3(line), line[4] = "n" PROVE G!IsPrefix(G!Stamp \o G!Prefix, line)
  <2>. DEFINE both == G!Stamp \o G!Prefix
  <2>1. /\ both \in Seq(LogChars) /\ Len(both) = 4
        /\ both[1] = "d" /\ both[2] = "l" /\ both[3] = "p" /\ both[4] = "n"
    <3>1. /\ both \in Seq(LogChars) /\ Len(both) = Len(G!Stamp) + Len(G!Prefix)
          /\ \A k \in 1..(Len(G!Stamp) + Len(G!Prefix)) :
               both[k] = IF k <= Len(G!Stamp) THEN G!Stamp[k]
                                              ELSE G!Prefix[k - Len(G!Stamp)]
      BY <1>1, ConcatProperties
    <3>. HIDE DEF both
    <3>. QED  BY <1>1, <3>1
  <2>. HIDE DEF both
  <2>2. Len(line) > 3 /\ line[1] = "d" /\ line[2] = "l" /\ line[3] = "p"
    BY <1>5 DEF Head3
  <2>3. Len(both) <= Len(line) /\ \A k \in 1..Len(both) : both[k] = line[k]
    BY <1>1, <1>2, <1>5, <2>1, <2>2
  <2>. QED  BY <2>1, <2>3, PrefixIf DEF both
<1>. QED  BY <1>3, <1>4, <1>5

\* Three characters of a line that are those of an error number's text.
LEMMA PieceIs ==
  ASSUME NEW line \in Seq(LogChars), NEW k \in 1..Len(line), k + 2 <= Len(line),
         line[k] = "(", line[k + 1] = "e", line[k + 2] = ")"
  PROVE  SubSeq(line, k, k + 2) = SubSeq(G!ErrnoText, 1, 3)
<1>1. Len(line) \in Nat /\ k \in Nat
  OBVIOUS
<1>2. /\ G!ErrnoText \in Seq(LogChars) /\ Len(G!ErrnoText) = 4
      /\ G!ErrnoText[1] = "(" /\ G!ErrnoText[2] = "e" /\ G!ErrnoText[3] = ")"
  BY HeadsAre DEF Clean
<1>3. /\ \A i \in k..(k + 2) : line[i] \in LogChars
      /\ \A i \in 1..3 : G!ErrnoText[i] \in LogChars
  BY <1>1, <1>2, ElementOfSeq
<1>4. /\ SubSeq(line, k, k + 2) \in Seq(LogChars) /\ Len(SubSeq(line, k, k + 2)) = 3
      /\ \A i \in 1..3 : SubSeq(line, k, k + 2)[i] = line[k + i - 1]
  <2>1. /\ SubSeq(line, k, k + 2) \in Seq(LogChars)
        /\ Len(SubSeq(line, k, k + 2)) = IF k <= k + 2 THEN (k + 2) - k + 1 ELSE 0
        /\ \A i \in 1..((k + 2) - k + 1) : SubSeq(line, k, k + 2)[i] = line[k + i - 1]
    BY <1>1, <1>3, SubSeqProperties
  <2>2. (k + 2) - k + 1 = 3 /\ k <= k + 2
    BY <1>1
  <2>. QED  BY <2>1, <2>2
<1>5. /\ SubSeq(G!ErrnoText, 1, 3) \in Seq(LogChars) /\ Len(SubSeq(G!ErrnoText, 1, 3)) = 3
      /\ \A i \in 1..3 : SubSeq(G!ErrnoText, 1, 3)[i] = G!ErrnoText[i]
  <2>1. \A i \in 1..3 : 1 + i - 1 = i
    OBVIOUS
  <2>. QED  BY <1>2, <1>3, <2>1, SubSeqProperties
<1>6. \A i \in 1..3 : line[k + i - 1] = G!ErrnoText[i]
  <2>1. k + 1 - 1 = k /\ k + 2 - 1 = k + 1 /\ k + 3 - 1 = k + 2
    BY <1>1
  <2>2. \A i \in 1..3 : i = 1 \/ i = 2 \/ i = 3
    OBVIOUS
  <2>. QED  BY <1>2, <2>1, <2>2
<1>. QED  BY <1>4, <1>5, <1>6, SeqEqual

\* The invariant is about all lines.
LEMMA LinesAreGood ==
  ASSUME LogInv
  PROVE  \A line \in G!Lines : GoodLine(line)
<1>1. \A list : GoodList(list) => \A line \in G!Range(list) : GoodLine(line)
  <2>. SUFFICES ASSUME NEW list, GoodList(list), NEW line \in G!Range(list)
                PROVE  GoodLine(line)
    OBVIOUS
  <2>1. DOMAIN list = 1..Len(list)
    BY LenProperties DEF GoodList
  <2>. QED  BY <2>1 DEF GoodList, G!Range
<1>. QED  BY <1>1 DEF G!Lines, LogInv

\* No line leaves the buffer errstr of NGX_MAX_ERROR_STR + 1 bytes, and text is
\* handed on to an open file only.
THEOREM LinesFit == PartsSpec => []G!TypeOK
<1>1. LogInv => G!TypeOK
  BY LinesAreGood DEF G!TypeOK, GoodLine, LogInv, M
<1>. QED  BY <1>1, LogInductive, PTL

\* What is logged is whole lines, each with its head and one newline, and the text
\* of an error number is there wholly or not at all, for a buffer of any size in
\* which the heads have room (ngx_log_stderr, ngx_log_error_core, ngx_log_errno).
THEOREM LogsRight == PartsSpec => []LogRight
<1>1. LogInv => LogRight
  <2>. SUFFICES ASSUME LogInv PROVE G!LinesWhole /\ G!ErrnoWhole
    BY DEF LogRight
  <2>1. \A line \in G!Lines : GoodLine(line)
    BY LinesAreGood
  <2>2. ASSUME NEW line \in G!Lines
        PROVE  /\ line \in Seq(LogChars) /\ Len(line) \in Nat /\ DOMAIN line = 1..Len(line)
               /\ GoodLine(line)
    BY <2>1 DEF GoodLine
  <2>3. ASSUME NEW line \in G!Lines
        PROVE  /\ Head1(line) => G!IsPrefix(G!Prefix, line)
               /\ Head3(line) => G!IsPrefix(G!Stamp, line)
               /\ Head3(line) /\ line[4] = "n" => G!IsPrefix(G!Stamp \o G!Prefix, line)
    BY <2>2, BeginsWith DEF GoodLine
  <2>4. G!LinesWhole
    <3>1. ASSUME NEW line \in G!Lines
          PROVE  /\ \A k \in DOMAIN line : line[k] = G!Newline <=> k = Len(line)
                 /\ G!IsPrefix(G!Prefix, line) \/ G!IsPrefix(G!Stamp, line)
      <4>1. /\ DOMAIN line = 1..Len(line) /\ (Head1(line) \/ Head3(line))
            /\ \A k \in 1..Len(line) : line[k] = G!Newline <=> k = Len(line)
        BY <2>2 DEF GoodLine
      <4>. QED  BY <2>3, <4>1
    <3>. QED  BY <3>1 DEF G!LinesWhole
  <2>5. G!ErrnoWhole
    <3>. SUFFICES ASSUME NEW line \in G!Lines, ~G!IsPrefix(G!Stamp \o G!Prefix, line),
                         NEW k \in DOMAIN line, line[k] = "("
                  PROVE  /\ k + 2 <= Len(line)
                         /\ SubSeq(line, k, k + 2) = SubSeq(G!ErrnoText, 1, 3)
      BY DEF G!ErrnoWhole
    <3>1. /\ line \in Seq(LogChars) /\ Len(line) \in Nat /\ k \in 1..Len(line)
          /\ ErrnoOK(line)
      BY <2>2, <2>3 DEF GoodLine
    <3>2. k + 2 <= Len(line) /\ line[k + 1] = "e" /\ line[k + 2] = ")"
      BY <3>1 DEF ErrnoOK
    <3>. QED  BY <3>1, <3>2, PieceIs
  <2>. QED  BY <2>4, <2>5
<1>. QED  BY <1>1, LogInductive, PTL

-----------------------------------------------------------------------------
(* The checksum *)

\* One byte more: the index is in the table, whose entries are reflected in 32
\* bits, and what is shifted to the right stays in the word.
LEMMA UpdateFits ==
  ASSUME NEW word \in C!Word, NEW byte \in C!Byte
  PROVE  C!Update(word, byte) \in C!Word
<1>1. C!Xor(C!Low8(word), byte) \in C!Byte
  BY DEF C!Xor, C!Low8, C!Byte
<1>2. \A r : C!Reflect(r, 32) \in C!Word
  BY DEF C!Reflect, C!Word, C!Bits
<1>3. C!crc32_table[C!Xor(C!Low8(word), byte)] \in C!Word
  <2>1. \A b \in C!Byte : \E r : C!crc32_table[b] = C!Reflect(r, 32)
    BY Zenon DEF C!crc32_table
  <2>. QED  BY <1>1, <1>2, <2>1
<1>4. C!ShiftRight(word, 8) \in C!Word
  <2>1. \A i \in word \ (0..(8 - 1)) : i - 8 \in 0..31
    BY DEF C!Word, C!Bits
  <2>. QED  BY <2>1 DEF C!ShiftRight, C!Word, C!Bits
<1>. QED  BY <1>3, <1>4 DEF C!Update, C!Xor, C!Word

\* Every value of crc fits an unsigned int, for bodies and damages of any length
\* (Get_CRC).
THEOREM CrcsFit == PartsSpec => []C!TypeOK
<1>1. PartsInit => C!TypeOK
  BY DEF PartsInit, C!Init, C!TypeOK, C!Ones, C!Word
<1>2. C!TypeOK /\ [PartsNext]_partsVars => C!TypeOK'
  <2>. SUFFICES ASSUME C!TypeOK, [PartsNext]_partsVars PROVE C!TypeOK'
    OBVIOUS
  <2>1. ASSUME NEW byte \in Bytes, NEW damage \in Errors, C!NextByte(byte, damage)
        PROVE  C!TypeOK'
    <3>1. byte \in C!Byte /\ C!Xor(byte, damage) \in C!Byte
      BY PartsAssumption DEF C!Crc32Assumption, C!Byte, C!Xor
    <3>2. C!Update(crc, byte) \in C!Word /\ C!Update(receivedCrc, C!Xor(byte, damage)) \in C!Word
      BY <3>1, UpdateFits DEF C!TypeOK
    <3>3. Append(body, byte) \in Seq(Bytes) /\ Append(errors, damage) \in Seq(Errors)
      BY DEF C!TypeOK
    <3>. QED  BY <2>1, <3>2, <3>3 DEF C!NextByte, C!TypeOK
  <2>2. CASE UNCHANGED crcVars
    BY <2>2 DEF C!TypeOK, crcVars
  <2>3. [PartsNext]_partsVars => C!Next \/ UNCHANGED crcVars
    BY DEF PartsNext, partsVars, LogicRuns, CrcRuns, ConfRuns, PrintfRuns, LogRuns, StartupRuns
  <2>. QED  BY <2>1, <2>2, <2>3 DEF C!Next
<1>. QED  BY <1>1, <1>2, PTL DEF PartsSpec

-----------------------------------------------------------------------------
(* What the checksum is, and what it finds *)

\* What the operators on words do to the bits.
LEMMA BitsOfWords ==
  ASSUME NEW word \in C!Word, NEW i
  PROVE  /\ i \in C!ShiftLeft(word, 1) <=> i \in C!Bits /\ i # 0 /\ i - 1 \in word
         /\ i \in C!ShiftRight(word, 8) <=> i \in Nat /\ i + 8 \in word
         /\ i \in C!Reverse32(word) <=> i \in C!Bits /\ 31 - i \in word
         /\ i \in C!Reflect(word, 32) <=> i \in C!Reverse32(word)
<1>1. i \in C!ShiftLeft(word, 1) <=> i \in C!Bits /\ i # 0 /\ i - 1 \in word
  BY DEF C!ShiftLeft, C!Bits, C!Word
<1>2. i \in C!ShiftRight(word, 8) <=> i \in Nat /\ i + 8 \in word
  <2>1. ASSUME NEW j \in word \ (0..7), i = j - 8 PROVE i \in Nat /\ i + 8 \in word
    BY <2>1 DEF C!Word, C!Bits
  <2>2. ASSUME i \in Nat, i + 8 \in word PROVE i \in C!ShiftRight(word, 8)
    <3>1. i + 8 \in word \ (0..(8 - 1)) /\ i = (i + 8) - 8
      BY <2>2
    <3>. QED  BY <3>1 DEF C!ShiftRight
  <2>. QED  BY <2>1, <2>2 DEF C!ShiftRight
<1>3. i \in C!Reverse32(word) <=> i \in C!Bits /\ 31 - i \in word
  BY DEF C!Reverse32, C!Bits, C!Word
<1>4. word \cap (0..(32 - 1)) = word /\ \A j \in word : 32 - 1 - j = 31 - j
  <2>1. 32 - 1 = 31 /\ word \subseteq 0..31
    BY DEF C!Word, C!Bits
  <2>. QED  BY <2>1
<1>5. i \in C!Reflect(word, 32) <=> i \in C!Reverse32(word)
  BY <1>4 DEF C!Reflect, C!Reverse32
<1>. QED  BY <1>1, <1>2, <1>3, <1>5

\* The operators make words of words.
LEMMA XorIsWord ==
  ASSUME NEW word \in C!Word, NEW other \in C!Word
  PROVE  C!Xor(word, other) \in C!Word
  BY DEF C!Xor, C!Word

LEMMA WordsAreWords ==
  ASSUME NEW word \in C!Word
  PROVE  /\ C!ShiftLeft(word, 1) \in C!Word /\ C!Reverse32(word) \in C!Word
         /\ C!ulPolynomial \in C!Word
         /\ C!Divide(word) \in C!Word
         /\ \A bit : C!DivideBit(word, bit) \in C!Word
<1>1. C!ulPolynomial \in C!Word /\ {} \in C!Word
  BY DEF C!ulPolynomial, C!Word, C!Bits
<1>2. C!ShiftLeft(word, 1) \in C!Word /\ C!Reverse32(word) \in C!Word
  BY BitsOfWords DEF C!Word
<1>3. \A a, b \in C!Word : C!Xor(a, b) \in C!Word
  BY DEF C!Xor, C!Word
<1>4. C!Divide(word) \in C!Word
  BY <1>1, <1>2, <1>3 DEF C!Divide
<1>5. \A bit : C!DivideBit(word, bit) \in C!Word
  BY <1>1, <1>2, <1>3 DEF C!DivideBit
<1>. QED  BY <1>1, <1>2, <1>4, <1>5

\* A recursion over 0..n that computes a word from the one before has a solution.
LEMMA IterationExists ==
  ASSUME NEW n \in Nat, NEW a \in C!Word, NEW succ \in [1..n -> [C!Word -> C!Word]]
  PROVE  \E g \in [0..n -> C!Word] :
           g[0] = a /\ \A k \in 1..n : g[k] = succ[k][g[k - 1]]
<1>. DEFINE Solves(g, m) == g[0] = a /\ \A k \in 1..m : g[k] = succ[k][g[k - 1]]
            T == {m \in Nat : m <= n => \E g \in [0..m -> C!Word] : Solves(g, m)}
<1>1. 0 \in T
  <2>. DEFINE g == [k \in 0..0 |-> a]
  <2>1. g \in [0..0 -> C!Word] /\ Solves(g, 0)
    OBVIOUS
  <2>. QED  BY <2>1
<1>2. ASSUME NEW m \in Nat, m + 1 <= n, NEW g \in [0..m -> C!Word], Solves(g, m)
      PROVE  \E h \in [0..(m + 1) -> C!Word] : Solves(h, m + 1)
  <2>. DEFINE h == [k \in 0..(m + 1) |-> IF k <= m THEN g[k] ELSE succ[m + 1][g[m]]]
  <2>1. h \in [0..(m + 1) -> C!Word]
    <3>1. succ[m + 1] \in [C!Word -> C!Word] /\ g[m] \in C!Word
      BY <1>2
    <3>2. succ[m + 1][g[m]] \in C!Word
      BY <3>1
    <3>. QED  BY <3>2
  <2>2. h[0] = a
    BY <1>2
  <2>3. ASSUME NEW k \in 1..(m + 1) PROVE h[k] = succ[k][h[k - 1]]
    <3>1. k - 1 \in 0..m /\ h[k - 1] = g[k - 1]
      OBVIOUS
    <3>2. CASE k <= m
      <4>1. k \in 1..m /\ h[k] = g[k]
        BY <3>2
      <4>. QED  BY <1>2, <3>1, <4>1
    <3>3. CASE k = m + 1
      BY <3>1, <3>3
    <3>. QED  BY <3>2, <3>3
  <2>. QED  BY <2>1, <2>2, <2>3
<1>3. \A m \in Nat : m \in T => m + 1 \in T
  <2>1. \A m \in Nat : m + 1 <= n => m <= n
    OBVIOUS
  <2>. HIDE DEF Solves
  <2>. QED  BY <1>2, <2>1
<1>4. n \in T
  <2>. HIDE DEF T
  <2>. QED  BY <1>1, <1>3, StepInduction
<1>. QED  BY <1>4

\* The rounds of the table.
LEMMA RoundsAre ==
  ASSUME NEW word \in C!Word
  PROVE  /\ C!Rounds(word)[0] = word
         /\ \A j \in 1..8 : C!Rounds(word)[j] = C!Divide(C!Rounds(word)[j - 1])
         /\ \A j \in 0..8 : C!Rounds(word)[j] \in C!Word
<1>. DEFINE succ == [j \in 1..8 |-> [w \in C!Word |-> C!Divide(w)]]
            Is(g) == g = [j \in 0..8 |-> IF j = 0 THEN word ELSE C!Divide(g[j - 1])]
<1>1. succ \in [1..8 -> [C!Word -> C!Word]]
  BY WordsAreWords
<1>2. PICK g \in [0..8 -> C!Word] :
        g[0] = word /\ \A j \in 1..8 : g[j] = succ[j][g[j - 1]]
  <2>. HIDE DEF succ
  <2>1. 8 \in Nat
    OBVIOUS
  <2>. QED  BY <1>1, <2>1, IterationExists, Zenon
<1>3. \A j \in 1..8 : j - 1 \in 0..8 /\ j \in 0..8 /\ j # 0
  OBVIOUS
<1>4. \A j \in 1..8 : g[j] = C!Divide(g[j - 1])
  BY <1>2, <1>3
<1>5. ASSUME NEW j \in 0..8 PROVE g[j] = IF j = 0 THEN word ELSE C!Divide(g[j - 1])
  <2>1. j = 0 \/ j \in 1..8
    OBVIOUS
  <2>. QED  BY <1>2, <1>3, <1>4, <2>1
<1>6. Is(g)
  BY <1>5
<1>7. C!Rounds(word) = CHOOSE h : Is(h)
  BY DEF C!Rounds
<1>8. Is(C!Rounds(word))
  <2>. HIDE DEF Is
  <2>. QED  BY <1>6, <1>7
<1>. DEFINE r == C!Rounds(word)
<1>9. \A j \in 0..8 : r[j] = IF j = 0 THEN word ELSE C!Divide(r[j - 1])
  BY <1>8
<1>10. r[0] = word /\ \A j \in 1..8 : r[j] = C!Divide(r[j - 1])
  <2>. HIDE DEF r
  <2>. QED  BY <1>3, <1>9
<1>11. \A j \in 0..8 : r[j] \in C!Word
  <2>. HIDE DEF r
  <2>. DEFINE T == {j \in Nat : j <= 8 => r[j] \in C!Word}
  <2>1. 0 \in T
    BY <1>10
  <2>2. ASSUME NEW j \in Nat, j \in T PROVE j + 1 \in T
    <3>1. CASE j + 1 <= 8
      <4>1. j + 1 \in 1..8 /\ (j + 1) - 1 = j /\ j <= 8
        BY <3>1
      <4>. QED  BY <1>10, <2>2, <4>1, WordsAreWords
    <3>. QED  BY <3>1
  <2>3. \A j \in Nat : j \in T
    <3>. HIDE DEF T
    <3>. QED  BY <2>1, <2>2, StepInduction
  <2>. QED  BY <2>3
<1>. QED  BY <1>10, <1>11

\* The remainders of the message.
LEMMA RemaindersAre ==
  ASSUME NEW bytes \in Seq(C!Byte)
  PROVE  /\ C!Remainders(bytes)[0] = C!Ones
         /\ \A k \in 1..(8 * Len(bytes)) :
              C!Remainders(bytes)[k] =
                C!DivideBit(C!Remainders(bytes)[k - 1], C!MessageBit(bytes, k - 1))
         /\ \A k \in 0..(8 * Len(bytes)) : C!Remainders(bytes)[k] \in C!Word
<1>. DEFINE n == 8 * Len(bytes)
            succ == [k \in 1..n |-> [w \in C!Word |-> C!DivideBit(w, C!MessageBit(bytes, k - 1))]]
            Is(g) == g = [k \in 0..n |-> IF k = 0 THEN C!Ones
                            ELSE C!DivideBit(g[k - 1], C!MessageBit(bytes, k - 1))]
            r == C!Remainders(bytes)
<1>. HIDE DEF n
<1>1. n \in Nat
  BY LenProperties DEF n
<1>2. C!Ones \in C!Word
  BY DEF C!Ones, C!Word
<1>3. succ \in [1..n -> [C!Word -> C!Word]]
  BY WordsAreWords
<1>4. PICK g \in [0..n -> C!Word] :
        g[0] = C!Ones /\ \A k \in 1..n : g[k] = succ[k][g[k - 1]]
  <2>. HIDE DEF succ
  <2>. QED  BY <1>1, <1>2, <1>3, IterationExists, Zenon
<1>5. \A k \in 1..n : k - 1 \in 0..n /\ k \in 0..n /\ k # 0
  BY <1>1
<1>6. \A k \in 1..n : g[k] = C!DivideBit(g[k - 1], C!MessageBit(bytes, k - 1))
  BY <1>4, <1>5
<1>7. \A k \in 0..n : k = 0 \/ k \in 1..n
  BY <1>1
<1>8. Is(g)
  <2>1. ASSUME NEW k \in 0..n
        PROVE  g[k] = IF k = 0 THEN C!Ones ELSE C!DivideBit(g[k - 1], C!MessageBit(bytes, k - 1))
    BY <1>4, <1>5, <1>6, <1>7
  <2>. QED  BY <2>1
<1>9. r = CHOOSE h : Is(h)
  BY DEF C!Remainders, n
<1>10. Is(r)
  <2>. HIDE DEF Is, r
  <2>. QED  BY <1>8, <1>9
<1>11. \A k \in 0..n :
         r[k] = IF k = 0 THEN C!Ones ELSE C!DivideBit(r[k - 1], C!MessageBit(bytes, k - 1))
  <2>. HIDE DEF r
  <2>. QED  BY <1>10
<1>12. r[0] = C!Ones /\ \A k \in 1..n : r[k] = C!DivideBit(r[k - 1], C!MessageBit(bytes, k - 1))
  <2>. HIDE DEF r
  <2>1. 0 \in 0..n
    BY <1>1
  <2>. QED  BY <1>5, <1>11, <2>1
<1>13. \A k \in 0..n : r[k] \in C!Word
  <2>. HIDE DEF r
  <2>. DEFINE T == {k \in Nat : k <= n => r[k] \in C!Word}
  <2>1. 0 \in T
    BY <1>2, <1>12
  <2>2. ASSUME NEW k \in Nat, k \in T PROVE k + 1 \in T
    <3>1. CASE k + 1 <= n
      <4>1. k + 1 \in 1..n /\ (k + 1) - 1 = k /\ k <= n
        BY <1>1, <3>1
      <4>2. r[k] \in C!Word
        BY <2>2, <4>1
      <4>3. r[k + 1] = C!DivideBit(r[k], C!MessageBit(bytes, k))
        BY <1>12, <4>1
      <4>4. C!DivideBit(r[k], C!MessageBit(bytes, k)) \in C!Word
        BY <4>2, WordsAreWords
      <4>5. r[k + 1] \in C!Word
        BY <4>3, <4>4
      <4>. QED  BY <4>5
    <3>. QED  BY <3>1
  <2>3. \A k \in Nat : k \in T
    <3>. HIDE DEF T
    <3>. QED  BY <2>1, <2>2, StepInduction
  <2>. QED  BY <1>1, <2>3
<1>. QED  BY <1>12, <1>13 DEF n

\* What a bit, or a round of the table, makes of the bits of a word.
LEMMA DivideBitIs ==
  ASSUME NEW word \in C!Word, NEW set, NEW k, NEW i
  PROVE  i \in C!DivideBit(word, k \in set) <=>
           /\ i \in C!Bits
           /\ IF 31 \in word <=> k \in set THEN i # 0 /\ i - 1 \in word
              ELSE ~((i # 0 /\ i - 1 \in word) <=> i \in C!ulPolynomial)
<1>1. C!ulPolynomial \subseteq C!Bits
  BY DEF C!ulPolynomial, C!Bits
<1>2. i \in C!ShiftLeft(word, 1) <=> i \in C!Bits /\ i # 0 /\ i - 1 \in word
  BY BitsOfWords
<1>3. CASE 31 \in word <=> k \in set
  <2>1. (31 \in word) = (k \in set)
    BY <1>3
  <2>2. C!DivideBit(word, k \in set) = C!ShiftLeft(word, 1)
    BY <2>1 DEF C!DivideBit
  <2>. QED  BY <1>2, <1>3, <2>2
<1>4. CASE ~(31 \in word <=> k \in set)
  <2>1. (31 \in word) # (k \in set)
    BY <1>4
  <2>2. C!DivideBit(word, k \in set) = C!Xor(C!ShiftLeft(word, 1), C!ulPolynomial)
    BY <2>1 DEF C!DivideBit
  <2>. QED  BY <1>1, <1>2, <1>4, <2>2 DEF C!Xor
<1>. QED  BY <1>3, <1>4

LEMMA DivideIs ==
  ASSUME NEW word \in C!Word, NEW i
  PROVE  i \in C!Divide(word) <=>
           /\ i \in C!Bits
           /\ IF 31 \in word THEN ~((i # 0 /\ i - 1 \in word) <=> i \in C!ulPolynomial)
              ELSE i # 0 /\ i - 1 \in word
<1>1. C!ulPolynomial \subseteq C!Bits
  BY DEF C!ulPolynomial, C!Bits
<1>2. i \in C!ShiftLeft(word, 1) <=> i \in C!Bits /\ i # 0 /\ i - 1 \in word
  BY BitsOfWords
<1>. QED  BY <1>1, <1>2 DEF C!Divide, C!Xor

\* The word of which the table's rounds begin, bit by bit.
LEMMA TableStart ==
  ASSUME NEW byte \in C!Byte, NEW i
  PROVE  /\ C!ShiftLeft(C!Reflect(byte, 8), 24) \in C!Word
         /\ i \in C!ShiftLeft(C!Reflect(byte, 8), 24) <=> i \in 24..31 /\ 31 - i \in byte
<1>1. ASSUME NEW j PROVE j \in C!Reflect(byte, 8) <=> j \in 0..7 /\ 7 - j \in byte
  <2>1. byte \cap (0..(8 - 1)) = byte /\ \A m \in byte : m \in 0..7 /\ 8 - 1 - m = 7 - m
    <3>1. 8 - 1 = 7 /\ byte \subseteq 0..7
      BY DEF C!Byte
    <3>. QED  BY <3>1
  <2>2. ASSUME NEW m \in byte, j = 7 - m PROVE j \in 0..7 /\ 7 - j \in byte
    BY <2>1, <2>2
  <2>3. ASSUME j \in 0..7, 7 - j \in byte PROVE \E m \in byte : j = 7 - m
    <3>1. j = 7 - (7 - j)
      BY <2>3
    <3>. QED  BY <2>3, <3>1
  <2>. QED  BY <2>1, <2>2, <2>3 DEF C!Reflect
<1>2. ASSUME NEW m
      PROVE  m \in C!ShiftLeft(C!Reflect(byte, 8), 24) <=> m \in 24..31 /\ 31 - m \in byte
  <2>. DEFINE top == C!Reflect(byte, 8)
  <2>1. \A j : j \in top <=> j \in 0..7 /\ 7 - j \in byte
    BY <1>1
  <2>. HIDE DEF top
  <2>2. m \in C!ShiftLeft(top, 24) <=> m \in C!Bits /\ \E j \in top : m = j + 24
    BY DEF C!ShiftLeft
  <2>3. ASSUME NEW j \in top, m = j + 24 PROVE m \in 24..31 /\ 31 - m \in byte
    BY <2>1, <2>3
  <2>4. ASSUME m \in 24..31, 31 - m \in byte PROVE m \in C!Bits /\ \E j \in top : m = j + 24
    <3>1. m - 24 \in 0..7 /\ 7 - (m - 24) = 31 - m /\ m = (m - 24) + 24 /\ m \in C!Bits
      BY <2>4 DEF C!Bits
    <3>. QED  BY <2>1, <2>4, <3>1
  <2>5. m \in C!ShiftLeft(top, 24) <=> m \in 24..31 /\ 31 - m \in byte
    BY <2>2, <2>3, <2>4
  <2>. QED  BY <2>5 DEF top
<1>3. C!ShiftLeft(C!Reflect(byte, 8), 24) \in C!Word
  BY <1>2 DEF C!Word, C!Bits
<1>. QED  BY <1>2, <1>3

\* Eight bits, from the lowest, make of the remainder what the table makes of its
\* reverse: what the table divides is the byte that leaves the word; the other
\* bits, and those of the message, are only moved.
LEMMA EightBits ==
  ASSUME NEW word \in C!Word, NEW byte \in C!Byte, NEW g \in [0..8 -> C!Word], g[0] = word,
         \A j \in 1..8 : g[j] = C!DivideBit(g[j - 1], (j - 1) \in byte)
  PROVE  C!Reverse32(g[8]) = C!Update(C!Reverse32(word), byte)
<1>. DEFINE out == C!Xor(C!Low8(C!Reverse32(word)), byte)
            t == C!Rounds(C!ShiftLeft(C!Reflect(out, 8), 24))
            moved == {i \in C!Bits : IF i >= 24 THEN 31 - i \in byte ELSE i \in word}
            Same(j) == \A i \in C!Bits :
                         i \in g[j] <=> ~(i \in t[j] <=> (i >= j /\ i - j \in moved))
            T == {j \in Nat : j <= 8 => Same(j)}
<1>1. out \in C!Byte /\ \A i \in 0..7 : i \in out <=> ~(31 - i \in word <=> i \in byte)
  <2>1. C!Low8(C!Reverse32(word)) \in C!Byte
    BY DEF C!Low8, C!Byte
  <2>2. \A i \in 0..7 : i \in C!Low8(C!Reverse32(word)) <=> 31 - i \in word
    BY BitsOfWords DEF C!Low8, C!Bits
  <2>. QED  BY <2>1, <2>2 DEF C!Xor, C!Byte
<1>. HIDE DEF out
<1>2. /\ t[0] = C!ShiftLeft(C!Reflect(out, 8), 24)
      /\ \A j \in 1..8 : t[j] = C!Divide(t[j - 1])
      /\ \A j \in 0..8 : t[j] \in C!Word
  BY <1>1, TableStart, RoundsAre
<1>3. \A i : i \in t[0] <=> i \in 24..31 /\ 31 - i \in out
  BY <1>1, <1>2, TableStart
<1>4. 0 \in T
  <2>. HIDE DEF t
  <2>1. ASSUME NEW i \in C!Bits
        PROVE  i \in g[0] <=> ~(i \in t[0] <=> (i >= 0 /\ i - 0 \in moved))
    <3>1. i \in 0..31 /\ i - 0 = i /\ i >= 0 /\ (i \in moved <=> IF i >= 24 THEN 31 - i \in byte ELSE i \in word)
      BY DEF C!Bits
    <3>. HIDE DEF moved
    <3>2. CASE i >= 24
      <4>1. i \in 24..31 /\ 31 - i \in 0..7 /\ 31 - (31 - i) = i
        BY <3>1, <3>2
      <4>. QED  BY <1>1, <1>3, <3>1, <3>2, <4>1
    <3>3. CASE ~(i >= 24)
      <4>1. i \notin 24..31
        BY <3>1, <3>3
      <4>. QED  BY <1>3, <3>1, <3>3, <4>1
    <3>. QED  BY <3>2, <3>3
  <2>. QED  BY <2>1
<1>5. ASSUME NEW j \in Nat, j + 1 <= 8, Same(j) PROVE Same(j + 1)
  <2>. HIDE DEF t
  <2>1. /\ j \in 0..7 /\ j + 1 \in 1..8 /\ (j + 1) - 1 = j /\ j \in 0..8
        /\ g[j + 1] = C!DivideBit(g[j], j \in byte) /\ t[j + 1] = C!Divide(t[j])
        /\ g[j] \in C!Word /\ t[j] \in C!Word
    BY <1>2, <1>5
  <2>2. 31 \in g[j] <=> ~(31 \in t[j] <=> j \in byte)
    <3>1. 31 \in C!Bits /\ 31 >= j /\ 31 - j \in C!Bits /\ 31 - j >= 24 /\ 31 - (31 - j) = j
      BY <2>1 DEF C!Bits
    <3>2. 31 - j \in moved <=> j \in byte
      BY <3>1
    <3>. QED  BY <1>5, <3>1, <3>2
  <2>3. ASSUME NEW i \in C!Bits
        PROVE  i \in g[j + 1] <=> ~(i \in t[j + 1] <=> (i >= j + 1 /\ i - (j + 1) \in moved))
    <3>. HIDE DEF moved
    <3>1. i = 0 \/ (i # 0 /\ i - 1 \in C!Bits /\ (i >= j + 1 <=> i - 1 >= j) /\ i - (j + 1) = (i - 1) - j)
      BY <2>1 DEF C!Bits
    <3>2. i = 0 => ~(i >= j + 1)
      BY <2>1
    <3>3. (i # 0 /\ i - 1 \in g[j]) <=>
            ~((i # 0 /\ i - 1 \in t[j]) <=> (i >= j + 1 /\ i - (j + 1) \in moved))
      BY <1>5, <3>1, <3>2
    <3>4. i \in g[j + 1] <=>
            IF 31 \in g[j] <=> j \in byte THEN i # 0 /\ i - 1 \in g[j]
            ELSE ~((i # 0 /\ i - 1 \in g[j]) <=> i \in C!ulPolynomial)
      BY <2>1, DivideBitIs
    <3>5. i \in t[j + 1] <=>
            IF 31 \in t[j] THEN ~((i # 0 /\ i - 1 \in t[j]) <=> i \in C!ulPolynomial)
            ELSE i # 0 /\ i - 1 \in t[j]
      BY <2>1, DivideIs
    <3>. QED  BY <2>2, <3>3, <3>4, <3>5
  <2>. QED  BY <2>3
<1>6. Same(8)
  <2>. HIDE DEF Same
  <2>1. ASSUME NEW j \in Nat, j \in T PROVE j + 1 \in T
    <3>1. j + 1 <= 8 => j <= 8
      OBVIOUS
    <3>. QED  BY <1>5, <2>1, <3>1
  <2>2. 8 \in T
    <3>. HIDE DEF T
    <3>. QED  BY <1>4, <2>1, StepInduction
  <2>. QED  BY <2>2
<1>7. C!Update(C!Reverse32(word), byte) = C!Xor(C!ShiftRight(C!Reverse32(word), 8), C!Reflect(t[8], 32))
  <2>1. C!crc32_table[out] = C!Reflect(t[8], 32)
    BY <1>1, Zenon DEF C!crc32_table
  <2>. QED  BY <2>1 DEF C!Update, out
<1>8. ASSUME NEW i
      PROVE  i \in C!Reverse32(g[8]) <=> i \in C!Xor(C!ShiftRight(C!Reverse32(word), 8), C!Reflect(t[8], 32))
  <2>1. g[8] \in C!Word /\ t[8] \in C!Word
    BY <1>2
  <2>. HIDE DEF t
  <2>2. /\ i \in C!Reverse32(g[8]) <=> i \in C!Bits /\ 31 - i \in g[8]
        /\ i \in C!Reflect(t[8], 32) <=> i \in C!Bits /\ 31 - i \in t[8]
    BY <2>1, BitsOfWords
  <2>3. i \in C!ShiftRight(C!Reverse32(word), 8) <=> i \in Nat /\ i + 8 \in C!Bits /\ 31 - (i + 8) \in word
    BY WordsAreWords, BitsOfWords
  <2>4. i \in C!Bits => (i \in C!ShiftRight(C!Reverse32(word), 8) <=> (31 - i >= 8 /\ (31 - i) - 8 \in moved))
    <3>. SUFFICES ASSUME i \in C!Bits
                  PROVE  i \in C!ShiftRight(C!Reverse32(word), 8) <=>
                           (31 - i >= 8 /\ (31 - i) - 8 \in moved)
      OBVIOUS
    <3>1. i \in Nat /\ i \in 0..31
      BY DEF C!Bits
    <3>2. i + 8 \in C!Bits <=> 31 - i >= 8
      BY <3>1 DEF C!Bits
    <3>3. 31 - i >= 8 => (31 - i) - 8 \in C!Bits /\ ~((31 - i) - 8 >= 24) /\ (31 - i) - 8 = 31 - (i + 8)
      BY <3>1 DEF C!Bits
    <3>. QED  BY <2>3, <3>1, <3>2, <3>3
  <2>5. i \in C!ShiftRight(C!Reverse32(word), 8) => i \in C!Bits
    BY <2>3 DEF C!Bits
  <2>6. i \in C!Bits => 31 - i \in C!Bits
    BY DEF C!Bits
  <2>. HIDE DEF moved
  <2>7. i \in C!Bits => (31 - i \in g[8] <=> ~(31 - i \in t[8] <=> (31 - i >= 8 /\ (31 - i) - 8 \in moved)))
    BY <1>6, <2>6
  <2>. QED  BY <2>2, <2>4, <2>5, <2>7 DEF C!Xor
<1>. QED  BY <1>7, <1>8

\* A byte more leaves the remainders before it as they are.
LEMMA RemaindersGrow ==
  ASSUME NEW bytes \in Seq(C!Byte), NEW byte \in C!Byte
  PROVE  \A k \in 0..(8 * Len(bytes)) : C!Remainders(Append(bytes, byte))[k] = C!Remainders(bytes)[k]
<1>. DEFINE more == Append(bytes, byte)
            n == Len(bytes)
            a == C!Remainders(bytes)
            b == C!Remainders(more)
            T == {k \in Nat : k <= 8 * n => b[k] = a[k]}
<1>1. /\ n \in Nat /\ more \in Seq(C!Byte) /\ Len(more) = n + 1
      /\ \A i \in 1..n : more[i] = bytes[i]
  BY AppendProperties, LenProperties
<1>2. /\ a[0] = C!Ones
      /\ \A k \in 1..(8 * n) : a[k] = C!DivideBit(a[k - 1], C!MessageBit(bytes, k - 1))
  BY RemaindersAre
<1>3. /\ b[0] = C!Ones
      /\ \A k \in 1..(8 * (n + 1)) : b[k] = C!DivideBit(b[k - 1], C!MessageBit(more, k - 1))
  <2>. HIDE DEF n
  <2>. QED  BY <1>1, RemaindersAre
<1>. HIDE DEF a, b, n, more
<1>4. \A k \in 0..(8 * n - 1) : C!MessageBit(more, k) = C!MessageBit(bytes, k)
  <2>1. \A k \in 0..(8 * n - 1) : 1 + k \div 8 \in 1..n
    BY <1>1
  <2>. QED  BY <1>1, <2>1 DEF C!MessageBit
<1>5. 0 \in T
  BY <1>2, <1>3
<1>6. ASSUME NEW k \in Nat, k \in T PROVE k + 1 \in T
  <2>1. CASE k + 1 <= 8 * n
    <3>1. /\ k + 1 \in 1..(8 * n) /\ k + 1 \in 1..(8 * (n + 1)) /\ (k + 1) - 1 = k
          /\ k \in 0..(8 * n - 1) /\ k <= 8 * n
      BY <1>1, <2>1
    <3>2. b[k + 1] = C!DivideBit(b[k], C!MessageBit(more, k))
      BY <1>3, <3>1
    <3>3. a[k + 1] = C!DivideBit(a[k], C!MessageBit(bytes, k))
      BY <1>2, <3>1
    <3>4. b[k] = a[k] /\ C!MessageBit(more, k) = C!MessageBit(bytes, k)
      BY <1>4, <1>6, <3>1
    <3>. QED  BY <3>2, <3>3, <3>4
  <2>. QED  BY <2>1
<1>7. \A k \in Nat : k \in T
  <2>. HIDE DEF T
  <2>. QED  BY <1>5, <1>6, StepInduction
<1>8. \A k \in 0..(8 * n) : b[k] = a[k]
  BY <1>1, <1>7
<1>. QED  BY <1>8 DEF a, b, n, more

\* What crc is after some bytes.
CrcOf(bytes) == C!Reverse32(C!Remainders(bytes)[8 * Len(bytes)])

LEMMA UpdateDivides ==
  ASSUME NEW bytes \in Seq(C!Byte), NEW byte \in C!Byte
  PROVE  C!Update(CrcOf(bytes), byte) = CrcOf(Append(bytes, byte))
<1>. DEFINE more == Append(bytes, byte)
            n == Len(bytes)
            b == C!Remainders(more)
            g == [j \in 0..8 |-> b[8 * n + j]]
<1>1. /\ n \in Nat /\ more \in Seq(C!Byte) /\ Len(more) = n + 1 /\ more[n + 1] = byte
  BY AppendProperties, LenProperties
<1>2. b[8 * n] = C!Remainders(bytes)[8 * n]
  <2>1. 8 * n \in 0..(8 * n)
    BY <1>1
  <2>. QED  BY <2>1, RemaindersGrow
<1>3. /\ \A k \in 1..(8 * (n + 1)) : b[k] = C!DivideBit(b[k - 1], C!MessageBit(more, k - 1))
      /\ \A k \in 0..(8 * (n + 1)) : b[k] \in C!Word
  <2>. HIDE DEF n
  <2>. QED  BY <1>1, RemaindersAre
<1>. HIDE DEF b, n, more
<1>4. g \in [0..8 -> C!Word]
  <2>1. \A j \in 0..8 : 8 * n + j \in 0..(8 * (n + 1))
    BY <1>1
  <2>. QED  BY <1>3, <2>1
<1>5. ASSUME NEW j \in 1..8 PROVE g[j] = C!DivideBit(g[j - 1], (j - 1) \in byte)
  <2>1. /\ 8 * n + j \in 1..(8 * (n + 1)) /\ j \in 0..8 /\ j - 1 \in 0..8
        /\ (8 * n + j) - 1 = 8 * n + (j - 1)
    BY <1>1
  <2>2. (8 * n + (j - 1)) % 8 = j - 1 /\ 1 + (8 * n + (j - 1)) \div 8 = n + 1
    BY <1>1
  <2>3. b[8 * n + j] = C!DivideBit(b[8 * n + (j - 1)], C!MessageBit(more, 8 * n + (j - 1)))
    BY <1>3, <2>1
  <2>4. C!MessageBit(more, 8 * n + (j - 1)) = ((j - 1) \in byte)
    BY <1>1, <2>2 DEF C!MessageBit
  <2>. QED  BY <2>1, <2>3, <2>4
<1>6. g[0] = b[8 * n] /\ g[8] = b[8 * (n + 1)]
  <2>1. 8 * n + 0 = 8 * n /\ 8 * n + 8 = 8 * (n + 1)
    BY <1>1
  <2>. QED  BY <2>1
<1>7. b[8 * n] \in C!Word
  <2>1. 8 * n \in 0..(8 * (n + 1))
    BY <1>1
  <2>. QED  BY <1>3, <2>1
<1>8. C!Reverse32(g[8]) = C!Update(C!Reverse32(b[8 * n]), byte)
  <2>. HIDE DEF g
  <2>. QED  BY <1>4, <1>5, <1>6, <1>7, EightBits
<1>. QED  BY <1>1, <1>2, <1>6, <1>8 DEF CrcOf, b, n, more

\* The bits in which the remainders of two messages differ after k bits.
Difference(sent, received, k) ==
  {i \in C!Bits : ~(i \in C!Remainders(sent)[k] <=> i \in C!Remainders(received)[k])}

\* A damage that spans at most 32 bits leaves a difference for good.  Its first
\* bit adds the polynomial, which has bit 0; until 32 bits later the lowest
\* difference goes up by at most one place with every bit, so that it does not
\* leave the word; then, with no damage, the difference cannot become empty, as
\* what leaves the word comes back as bit 0.
LEMMA BurstStays ==
  ASSUME NEW sent \in Seq(C!Byte), NEW received \in Seq(C!Byte),
         Len(received) = Len(sent),
         NEW damage \in SUBSET (0..(8 * Len(sent) - 1)), damage # {},
         \A i, j \in damage : i < j + 32,
         \A k \in 0..(8 * Len(sent) - 1) :
           k \in damage <=> ~(C!MessageBit(sent, k) <=> C!MessageBit(received, k))
  PROVE  C!Remainders(sent)[8 * Len(sent)] # C!Remainders(received)[8 * Len(sent)]
<1>. DEFINE n == 8 * Len(sent)
            x == C!Remainders(sent)
            y == C!Remainders(received)
            d(k) == Difference(sent, received, k)
<1>1. n \in Nat
  BY LenProperties
<1>2. /\ x[0] = C!Ones /\ y[0] = C!Ones
      /\ \A k \in 1..n : x[k] = C!DivideBit(x[k - 1], C!MessageBit(sent, k - 1))
      /\ \A k \in 1..n : y[k] = C!DivideBit(y[k - 1], C!MessageBit(received, k - 1))
      /\ \A k \in 0..n : x[k] \in C!Word /\ y[k] \in C!Word
  <2>1. /\ x[0] = C!Ones
        /\ \A k \in 1..n : x[k] = C!DivideBit(x[k - 1], C!MessageBit(sent, k - 1))
        /\ \A k \in 0..n : x[k] \in C!Word
    BY RemaindersAre
  <2>2. /\ y[0] = C!Ones
        /\ \A k \in 1..(8 * Len(received)) : y[k] = C!DivideBit(y[k - 1], C!MessageBit(received, k - 1))
        /\ \A k \in 0..(8 * Len(received)) : y[k] \in C!Word
    BY RemaindersAre
  <2>. HIDE DEF x, y
  <2>. QED  BY <2>1, <2>2
<1>. HIDE DEF x, y, n
<1>3. \A k \in 0..(n - 1) :
        k \in damage <=> ~(C!MessageBit(sent, k) <=> C!MessageBit(received, k))
  BY DEF n
<1>4. ASSUME NEW k \in 0..(n - 1), NEW i \in C!Bits
      PROVE  i \in d(k + 1) <=>
               IF 31 \in d(k) <=> k \in damage THEN i # 0 /\ i - 1 \in d(k)
               ELSE ~((i # 0 /\ i - 1 \in d(k)) <=> i \in C!ulPolynomial)
  <2>1. k + 1 \in 1..n /\ (k + 1) - 1 = k /\ k \in 0..n
    BY <1>1
  <2>2. /\ x[k + 1] = C!DivideBit(x[k], (k % 8) \in sent[1 + k \div 8])
        /\ y[k + 1] = C!DivideBit(y[k], (k % 8) \in received[1 + k \div 8])
        /\ x[k] \in C!Word /\ y[k] \in C!Word
    BY <1>2, <2>1 DEF C!MessageBit
  <2>3. k \in damage <=> ~((k % 8) \in sent[1 + k \div 8] <=> (k % 8) \in received[1 + k \div 8])
    BY <1>3 DEF C!MessageBit
  <2>4. /\ i \in d(k + 1) <=> ~(i \in x[k + 1] <=> i \in y[k + 1])
        /\ \A j \in C!Bits : j \in d(k) <=> ~(j \in x[k] <=> j \in y[k])
    BY DEF Difference, x, y
  <2>5. 31 \in C!Bits /\ (i # 0 => i - 1 \in C!Bits)
    BY DEF C!Bits
  <2>6. i \in x[k + 1] <=>
          IF 31 \in x[k] <=> (k % 8) \in sent[1 + k \div 8] THEN i # 0 /\ i - 1 \in x[k]
          ELSE ~((i # 0 /\ i - 1 \in x[k]) <=> i \in C!ulPolynomial)
    BY <2>2, DivideBitIs
  <2>7. i \in y[k + 1] <=>
          IF 31 \in y[k] <=> (k % 8) \in received[1 + k \div 8] THEN i # 0 /\ i - 1 \in y[k]
          ELSE ~((i # 0 /\ i - 1 \in y[k]) <=> i \in C!ulPolynomial)
    BY <2>2, DivideBitIs
  <2>. HIDE DEF d
  <2>. QED  BY <2>3, <2>4, <2>5, <2>6, <2>7
<1>5. \A k : d(k) \subseteq C!Bits
  BY DEF Difference
<1>6. d(0) = {}
  BY <1>2 DEF Difference, x, y
<1>. HIDE DEF d
<1>7. PICK f \in damage : \A k \in damage : f <= k
  <2>1. damage \in SUBSET Nat
    BY <1>1 DEF n
  <2>. QED  BY <2>1, LeastNatural
<1>8. f \in 0..(n - 1) /\ \A k \in damage : k < f + 32
  BY <1>7 DEF n
<1>9. 0 \in C!ulPolynomial /\ 0 \in C!Bits /\ 31 \in C!Bits
  BY DEF C!ulPolynomial, C!Bits
<1>10. d(f) = {}
  <2>. DEFINE T == {k \in Nat : k <= f => d(k) = {}}
  <2>1. 0 \in T
    BY <1>6
  <2>2. ASSUME NEW k \in Nat, k \in T PROVE k + 1 \in T
    <3>1. CASE k + 1 <= f
      <4>1. k \in 0..(n - 1) /\ k < f /\ k <= f
        BY <1>1, <1>8, <3>1
      <4>2. k \notin damage
        BY <1>7, <1>8, <4>1
      <4>3. d(k) = {}
        BY <2>2, <4>1
      <4>4. \A i \in C!Bits : i \notin d(k + 1)
        BY <1>4, <4>1, <4>2, <4>3
      <4>. QED  BY <1>5, <4>4
    <3>. QED  BY <3>1
  <2>3. \A k \in Nat : k \in T
    <3>. HIDE DEF T
    <3>. QED  BY <2>1, <2>2, StepInduction
  <2>. QED  BY <1>8, <2>3
<1>. DEFINE Low(k) == \E i \in d(k) : k - (f + 1) <= 31 => i <= k - (f + 1)
            U == {k \in Nat : k + (f + 1) <= n => Low(k + (f + 1))}
<1>11. 0 \in U
  <2>1. 0 \in d(f + 1)
    BY <1>4, <1>7, <1>8, <1>9, <1>10
  <2>2. 0 + (f + 1) = f + 1 /\ (f + 1) - (f + 1) = 0
    BY <1>8
  <2>. QED  BY <2>1, <2>2
<1>12. ASSUME NEW k \in (f + 1)..(n - 1), Low(k) PROVE Low(k + 1)
  <2>1. k \in 0..(n - 1) /\ k \in Nat /\ (k + 1) - (f + 1) = k - (f + 1) + 1 /\ k - (f + 1) \in Nat
    BY <1>8
  <2>2. PICK i \in d(k) : k - (f + 1) <= 31 => i <= k - (f + 1)
    BY <1>12
  <2>3. i \in C!Bits /\ i \in 0..31
    BY <1>5 DEF C!Bits
  <2>4. CASE ~(31 \in d(k) <=> k \in damage)
    <3>1. 0 \in d(k + 1)
      BY <1>4, <1>9, <2>1, <2>4
    <3>. QED  BY <2>1, <3>1
  <2>5. CASE (31 \in d(k) <=> k \in damage) /\ i # 31
    <3>1. i + 1 \in C!Bits /\ i + 1 # 0 /\ (i + 1) - 1 = i
      BY <2>3, <2>5 DEF C!Bits
    <3>2. i + 1 \in d(k + 1)
      BY <1>4, <2>1, <2>5, <3>1
    <3>3. (k + 1) - (f + 1) <= 31 => i + 1 <= (k + 1) - (f + 1)
      BY <2>1, <2>2, <2>3
    <3>. QED  BY <3>2, <3>3
  <2>6. CASE (31 \in d(k) <=> k \in damage) /\ i = 31
    <3>1. k \in damage
      BY <2>6
    <3>2. k - (f + 1) < 31
      BY <1>8, <2>1, <3>1
    <3>. QED  BY <2>1, <2>2, <2>6, <3>2
  <2>. QED  BY <2>4, <2>5, <2>6
<1>13. ASSUME NEW k \in Nat, k \in U PROVE k + 1 \in U
  <2>. HIDE DEF Low
  <2>1. CASE (k + 1) + (f + 1) <= n
    <3>1. /\ k + (f + 1) \in (f + 1)..(n - 1) /\ (k + (f + 1)) + 1 = (k + 1) + (f + 1)
          /\ k + (f + 1) <= n
      BY <1>1, <1>8, <2>1
    <3>. QED  BY <1>12, <1>13, <3>1
  <2>. QED  BY <2>1
<1>14. \A k \in Nat : k \in U
  <2>. HIDE DEF U
  <2>. QED  BY <1>11, <1>13, StepInduction
<1>15. d(n) # {}
  <2>1. n - (f + 1) \in Nat /\ (n - (f + 1)) + (f + 1) = n /\ n <= n
    BY <1>1, <1>8
  <2>. QED  BY <1>14, <2>1
<1>. QED  BY <1>15 DEF d, Difference, n, x, y

\* ... so that the checksums differ.
LEMMA BurstChanges ==
  ASSUME NEW sent \in Seq(C!Byte), NEW received \in Seq(C!Byte),
         Len(received) = Len(sent),
         C!Remainders(sent)[8 * Len(sent)] # C!Remainders(received)[8 * Len(sent)]
  PROVE  C!Result(CrcOf(sent)) # C!Result(CrcOf(received))
<1>1. 8 * Len(sent) \in 0..(8 * Len(sent)) /\ 8 * Len(received) = 8 * Len(sent)
  BY LenProperties
<1>2. PICK x \in C!Word : x = C!Remainders(sent)[8 * Len(sent)]
  BY <1>1, RemaindersAre
<1>3. PICK y \in C!Word : y = C!Remainders(received)[8 * Len(sent)]
  BY <1>1, RemaindersAre
<1>4. PICK i \in C!Bits : ~(i \in x <=> i \in y)
  BY <1>2, <1>3 DEF C!Word
<1>5. 31 - i \in C!Bits /\ 31 - (31 - i) = i
  BY DEF C!Bits
<1>6. ~(31 - i \in C!Reverse32(x) <=> 31 - i \in C!Reverse32(y))
  BY <1>4, <1>5, BitsOfWords
<1>7. CrcOf(sent) = C!Reverse32(x) /\ CrcOf(received) = C!Reverse32(y)
  BY <1>1, <1>2, <1>3 DEF CrcOf
<1>8. ~(31 - i \in C!Result(CrcOf(sent)) <=> 31 - i \in C!Result(CrcOf(received)))
  BY <1>5, <1>6, <1>7 DEF C!Result, C!Xor, C!Ones
<1>. QED  BY <1>8

\* The CRC of "abc", bit by bit.
LEMMA CheckValueIs == C!CheckValue
<1>. DEFINE abc == <<{0, 5, 6}, {1, 5, 6}, {0, 1, 5, 6}>>
            r == C!Remainders(abc)
<1>. USE DEF C!Bits
<1>a. abc \in Seq(C!Byte) /\ Len(abc) = 3
  <2>1. \A i \in 1..3 : abc[i] \in C!Byte
    BY DEF C!Byte
  <2>2. abc \in Seq(C!Byte)
    BY DEF C!Byte
  <2>. QED  BY <2>2
<1>b. /\ r[0] = C!Ones
      /\ \A k \in 1..24 : r[k] = C!DivideBit(r[k - 1], C!MessageBit(abc, k - 1))
  <2>1. 8 * 3 = 24
    OBVIOUS
  <2>. HIDE DEF abc
  <2>. QED  BY <1>a, <2>1, RemaindersAre
<1>. DEFINE Bit(k) == C!MessageBit(abc, k)
<1>c. ASSUME NEW k \in 1..24
      PROVE  r[k] = IF 31 \in r[k - 1] <=> Bit(k - 1) THEN C!ShiftLeft(r[k - 1], 1)
                    ELSE C!Xor(C!ShiftLeft(r[k - 1], 1), C!ulPolynomial)
  <2>. HIDE DEF r
  <2>1. CASE 31 \in r[k - 1] <=> Bit(k - 1)
    <3>1. (31 \in r[k - 1]) = Bit(k - 1)
      BY <2>1 DEF C!MessageBit
    <3>. HIDE DEF Bit
    <3>. QED  BY <1>b, <2>1, <3>1 DEF C!DivideBit, Bit
  <2>2. CASE ~(31 \in r[k - 1] <=> Bit(k - 1))
    <3>1. (31 \in r[k - 1]) # Bit(k - 1)
      BY <2>2 DEF C!MessageBit
    <3>. HIDE DEF Bit
    <3>. QED  BY <1>b, <2>2, <3>1 DEF C!DivideBit, Bit
  <2>. QED  BY <2>1, <2>2
<1>. HIDE DEF r
<1>d. /\ \A k \in {0, 5, 6, 9, 13, 14, 16, 17, 21, 22} : Bit(k)
      /\ \A k \in {1, 2, 3, 4, 7, 8, 10, 11, 12, 15, 18, 19, 20, 23} : ~Bit(k)
  BY DEF C!MessageBit
<1>. HIDE DEF Bit
<1>0. r[0] = C!Bits
  BY <1>b DEF C!Ones
<1>1. r[1] = {1, 2, 3, 4, 5, 6, 7, 8, 9, 10, 11, 12, 13, 14, 15, 16, 17,
             18, 19, 20, 21, 22, 23, 24, 25, 26, 27, 28, 29, 30, 31}
  <2>1. 31 \in r[0]
    BY <1>0
  <2>2. r[1] = C!ShiftLeft(r[0], 1)
    BY <1>c, <1>d, <2>1
  <2>. QED  BY <1>0, <2>2 DEF C!ShiftLeft
<1>2. r[2] = {0, 1, 3, 6, 9, 13, 14, 15, 17, 18, 19, 20, 21, 24, 25, 27,
             28, 29, 30, 31}
  <2>1. 31 \in r[1]
    BY <1>1
  <2>2. r[2] = C!Xor(C!ShiftLeft(r[1], 1), C!ulPolynomial)
    BY <1>c, <1>d, <2>1
  <2>. QED  BY <1>1, <2>2 DEF C!ShiftLeft, C!Xor, C!ulPolynomial
<1>3. r[3] = {0, 5, 8, 11, 12, 14, 15, 18, 19, 20, 21, 23, 25, 28, 29, 30,
             31}
  <2>1. 31 \in r[2]
    BY <1>2
  <2>2. r[3] = C!Xor(C!ShiftLeft(r[2], 1), C!ulPolynomial)
    BY <1>c, <1>d, <2>1
  <2>. QED  BY <1>2, <2>2 DEF C!ShiftLeft, C!Xor, C!ulPolynomial
<1>4. r[4] = {0, 2, 4, 5, 6, 7, 8, 9, 10, 11, 13, 15, 19, 20, 21, 23, 24,
             29, 30, 31}
  <2>1. 31 \in r[3]
    BY <1>3
  <2>2. r[4] = C!Xor(C!ShiftLeft(r[3], 1), C!ulPolynomial)
    BY <1>c, <1>d, <2>1
  <2>. QED  BY <1>3, <2>2 DEF C!ShiftLeft, C!Xor, C!ulPolynomial
<1>5. r[5] = {0, 2, 3, 4, 6, 9, 14, 20, 21, 23, 24, 25, 26, 30, 31}
  <2>1. 31 \in r[4]
    BY <1>4
  <2>2. r[5] = C!Xor(C!ShiftLeft(r[4], 1), C!ulPolynomial)
    BY <1>c, <1>d, <2>1
  <2>. QED  BY <1>4, <2>2 DEF C!ShiftLeft, C!Xor, C!ulPolynomial
<1>6. r[6] = {1, 3, 4, 5, 7, 10, 15, 21, 22, 24, 25, 26, 27, 31}
  <2>1. 31 \in r[5]
    BY <1>5
  <2>2. r[6] = C!ShiftLeft(r[5], 1)
    BY <1>c, <1>d, <2>1
  <2>. QED  BY <1>5, <2>2 DEF C!ShiftLeft
<1>7. r[7] = {2, 4, 5, 6, 8, 11, 16, 22, 23, 25, 26, 27, 28}
  <2>1. 31 \in r[6]
    BY <1>6
  <2>2. r[7] = C!ShiftLeft(r[6], 1)
    BY <1>c, <1>d, <2>1
  <2>. QED  BY <1>6, <2>2 DEF C!ShiftLeft
<1>8. r[8] = {3, 5, 6, 7, 9, 12, 17, 23, 24, 26, 27, 28, 29}
  <2>1. 31 \notin r[7]
    BY <1>7
  <2>2. r[8] = C!ShiftLeft(r[7], 1)
    BY <1>c, <1>d, <2>1
  <2>. QED  BY <1>7, <2>2 DEF C!ShiftLeft
<1>9. r[9] = {4, 6, 7, 8, 10, 13, 18, 24, 25, 27, 28, 29, 30}
  <2>1. 31 \notin r[8]
    BY <1>8
  <2>2. r[9] = C!ShiftLeft(r[8], 1)
    BY <1>c, <1>d, <2>1
  <2>. QED  BY <1>8, <2>2 DEF C!ShiftLeft
<1>10. r[10] = {0, 1, 2, 4, 9, 10, 12, 14, 16, 19, 22, 23, 25, 28, 29, 30,
             31}
  <2>1. 31 \notin r[9]
    BY <1>9
  <2>2. r[10] = C!Xor(C!ShiftLeft(r[9], 1), C!ulPolynomial)
    BY <1>c, <1>d, <2>1
  <2>. QED  BY <1>9, <2>2 DEF C!ShiftLeft, C!Xor, C!ulPolynomial
<1>11. r[11] = {0, 3, 4, 7, 8, 12, 13, 15, 16, 17, 20, 22, 24, 29, 30, 31}
  <2>1. 31 \in r[10]
    BY <1>10
  <2>2. r[11] = C!Xor(C!ShiftLeft(r[10], 1), C!ulPolynomial)
    BY <1>c, <1>d, <2>1
  <2>. QED  BY <1>10, <2>2 DEF C!ShiftLeft, C!Xor, C!ulPolynomial
<1>12. r[12] = {0, 2, 7, 9, 10, 11, 12, 13, 14, 17, 18, 21, 22, 25, 26, 30,
             31}
  <2>1. 31 \in r[11]
    BY <1>11
  <2>2. r[12] = C!Xor(C!ShiftLeft(r[11], 1), C!ulPolynomial)
    BY <1>c, <1>d, <2>1
  <2>. QED  BY <1>11, <2>2 DEF C!ShiftLeft, C!Xor, C!ulPolynomial
<1>13. r[13] = {0, 2, 3, 4, 5, 7, 13, 14, 15, 16, 18, 19, 27, 31}
  <2>1. 31 \in r[12]
    BY <1>12
  <2>2. r[13] = C!Xor(C!ShiftLeft(r[12], 1), C!ulPolynomial)
    BY <1>c, <1>d, <2>1
  <2>. QED  BY <1>12, <2>2 DEF C!ShiftLeft, C!Xor, C!ulPolynomial
<1>14. r[14] = {1, 3, 4, 5, 6, 8, 14, 15, 16, 17, 19, 20, 28}
  <2>1. 31 \in r[13]
    BY <1>13
  <2>2. r[14] = C!ShiftLeft(r[13], 1)
    BY <1>c, <1>d, <2>1
  <2>. QED  BY <1>13, <2>2 DEF C!ShiftLeft
<1>15. r[15] = {0, 1, 6, 8, 9, 10, 11, 12, 15, 17, 18, 20, 21, 22, 23, 26,
             29}
  <2>1. 31 \notin r[14]
    BY <1>14
  <2>2. r[15] = C!Xor(C!ShiftLeft(r[14], 1), C!ulPolynomial)
    BY <1>c, <1>d, <2>1
  <2>. QED  BY <1>14, <2>2 DEF C!ShiftLeft, C!Xor, C!ulPolynomial
<1>16. r[16] = {1, 2, 7, 9, 10, 11, 12, 13, 16, 18, 19, 21, 22, 23, 24, 27,
             30}
  <2>1. 31 \notin r[15]
    BY <1>15
  <2>2. r[16] = C!ShiftLeft(r[15], 1)
    BY <1>c, <1>d, <2>1
  <2>. QED  BY <1>15, <2>2 DEF C!ShiftLeft
<1>17. r[17] = {0, 1, 3, 4, 5, 7, 13, 14, 16, 17, 19, 20, 24, 25, 26, 28, 31}
  <2>1. 31 \notin r[16]
    BY <1>16
  <2>2. r[17] = C!Xor(C!ShiftLeft(r[16], 1), C!ulPolynomial)
    BY <1>c, <1>d, <2>1
  <2>. QED  BY <1>16, <2>2 DEF C!ShiftLeft, C!Xor, C!ulPolynomial
<1>18. r[18] = {1, 2, 4, 5, 6, 8, 14, 15, 17, 18, 20, 21, 25, 26, 27, 29}
  <2>1. 31 \in r[17]
    BY <1>17
  <2>2. r[18] = C!ShiftLeft(r[17], 1)
    BY <1>c, <1>d, <2>1
  <2>. QED  BY <1>17, <2>2 DEF C!ShiftLeft
<1>19. r[19] = {2, 3, 5, 6, 7, 9, 15, 16, 18, 19, 21, 22, 26, 27, 28, 30}
  <2>1. 31 \notin r[18]
    BY <1>18
  <2>2. r[19] = C!ShiftLeft(r[18], 1)
    BY <1>c, <1>d, <2>1
  <2>. QED  BY <1>18, <2>2 DEF C!ShiftLeft
<1>20. r[20] = {3, 4, 6, 7, 8, 10, 16, 17, 19, 20, 22, 23, 27, 28, 29, 31}
  <2>1. 31 \notin r[19]
    BY <1>19
  <2>2. r[20] = C!ShiftLeft(r[19], 1)
    BY <1>c, <1>d, <2>1
  <2>. QED  BY <1>19, <2>2 DEF C!ShiftLeft
<1>21. r[21] = {0, 1, 2, 9, 10, 12, 16, 17, 18, 20, 21, 22, 24, 26, 28, 29,
             30}
  <2>1. 31 \in r[20]
    BY <1>20
  <2>2. r[21] = C!Xor(C!ShiftLeft(r[20], 1), C!ulPolynomial)
    BY <1>c, <1>d, <2>1
  <2>. QED  BY <1>20, <2>2 DEF C!ShiftLeft, C!Xor, C!ulPolynomial
<1>22. r[22] = {0, 3, 4, 5, 7, 8, 12, 13, 16, 17, 18, 19, 21, 25, 26, 27, 29,
             30, 31}
  <2>1. 31 \notin r[21]
    BY <1>21
  <2>2. r[22] = C!Xor(C!ShiftLeft(r[21], 1), C!ulPolynomial)
    BY <1>c, <1>d, <2>1
  <2>. QED  BY <1>21, <2>2 DEF C!ShiftLeft, C!Xor, C!ulPolynomial
<1>23. r[23] = {1, 4, 5, 6, 8, 9, 13, 14, 17, 18, 19, 20, 22, 26, 27, 28, 30,
             31}
  <2>1. 31 \in r[22]
    BY <1>22
  <2>2. r[23] = C!ShiftLeft(r[22], 1)
    BY <1>c, <1>d, <2>1
  <2>. QED  BY <1>22, <2>2 DEF C!ShiftLeft
<1>24. r[24] = {0, 1, 4, 6, 8, 9, 11, 12, 14, 15, 16, 18, 19, 20, 21, 22, 26,
             27, 28, 29, 31}
  <2>1. 31 \in r[23]
    BY <1>23
  <2>2. r[24] = C!Xor(C!ShiftLeft(r[23], 1), C!ulPolynomial)
    BY <1>c, <1>d, <2>1
  <2>. QED  BY <1>23, <2>2 DEF C!ShiftLeft, C!Xor, C!ulPolynomial
<1>. QED  BY <1>a, <1>24 DEF C!CheckValue, C!Remainder, C!Reverse32, C!Xor, C!Ones, r

-----------------------------------------------------------------------------
\* The bytes that arrive.
Received == [k \in 1..Len(body) |-> C!Xor(body[k], errors[k])]

CrcInv ==
  /\ C!TypeOK
  /\ Len(errors) = Len(body)
  /\ crc = CrcOf(body) /\ receivedCrc = CrcOf(Received)

\* Bodies, and what arrives, are bytes.
LEMMA BytesAre ==
  ASSUME CrcInv
  PROVE  /\ body \in Seq(C!Byte) /\ Received \in Seq(C!Byte)
         /\ Len(body) \in Nat /\ Len(Received) = Len(body)
         /\ DOMAIN errors = 1..Len(body)
         /\ \A k \in 1..Len(body) : errors[k] \in C!Byte
<1>1. /\ body \in Seq(Bytes) /\ errors \in Seq(Errors) /\ Len(errors) = Len(body)
      /\ Bytes \subseteq C!Byte /\ Errors \subseteq C!Byte
  BY PartsAssumption DEF CrcInv, C!TypeOK, C!Crc32Assumption
<1>2. body \in Seq(C!Byte) /\ errors \in Seq(C!Byte)
  BY <1>1, SeqMonotonic
<1>3. /\ Len(body) \in Nat /\ DOMAIN errors = 1..Len(body)
      /\ \A k \in 1..Len(body) : body[k] \in C!Byte /\ errors[k] \in C!Byte
  BY <1>1, <1>2, LenProperties, ElementOfSeq
<1>4. \A k \in 1..Len(body) : C!Xor(body[k], errors[k]) \in C!Byte
  BY <1>3 DEF C!Xor, C!Byte
<1>5. Received \in [1..Len(body) -> C!Byte]
  BY <1>4 DEF Received
<1>6. Received \in Seq(C!Byte)
  BY <1>3, <1>5, SeqDef
<1>7. Len(Received) = Len(body)
  <2>1. DOMAIN Received = 1..Len(body)
    BY <1>5
  <2>2. DOMAIN Received = 1..Len(Received) /\ Len(Received) \in Nat
    BY <1>6, LenProperties
  <2>. QED  BY <1>3, <2>1, <2>2
<1>. QED  BY <1>2, <1>3, <1>6, <1>7

\* The register begins with ones.
LEMMA CrcOfNothing ==
  CrcOf(<<>>) = C!Ones /\ (body = <<>> => Received = <<>>)
<1>1. <<>> \in Seq(C!Byte) /\ Len(<<>>) = 0
  BY EmptySeq
<1>2. C!Remainders(<<>>)[8 * Len(<<>>)] = C!Ones
  <2>1. 8 * Len(<<>>) = 0
    BY <1>1
  <2>. QED  BY <1>1, <2>1, RemaindersAre
<1>3. \A i : i \in C!Reverse32(C!Ones) <=> i \in C!Ones
  BY DEF C!Reverse32, C!Ones, C!Bits
<1>4. CrcOf(<<>>) = C!Ones
  BY <1>2, <1>3 DEF CrcOf
<1>5. body = <<>> => Received = <<>>
  BY <1>1 DEF Received
<1>. QED  BY <1>4, <1>5

\* A byte is taken by the sender and by the receiver.
LEMMA CrcByteStep ==
  ASSUME CrcInv, C!TypeOK', NEW byte \in Bytes, NEW damage \in Errors,
         C!NextByte(byte, damage)
  PROVE  CrcInv'
<1>1. /\ body' = Append(body, byte) /\ errors' = Append(errors, damage)
      /\ crc' = C!Update(crc, byte)
      /\ receivedCrc' = C!Update(receivedCrc, C!Xor(byte, damage))
  BY DEF C!NextByte
<1>2. /\ body \in Seq(C!Byte) /\ Received \in Seq(C!Byte)
      /\ Len(body) \in Nat /\ Len(Received) = Len(body)
  BY BytesAre
<1>3. byte \in C!Byte /\ C!Xor(byte, damage) \in C!Byte
  BY PartsAssumption DEF C!Crc32Assumption, C!Byte, C!Xor
<1>4. body \in Seq(Bytes) /\ errors \in Seq(Errors) /\ Len(errors) = Len(body)
  BY DEF CrcInv, C!TypeOK
<1>. DEFINE n == Len(body)
<1>5. /\ Len(body') = n + 1 /\ \A k \in 1..n : body'[k] = body[k]
      /\ body'[n + 1] = byte
  BY <1>1, <1>4, AppendProperties
<1>6. /\ Len(errors') = n + 1 /\ \A k \in 1..n : errors'[k] = errors[k]
      /\ errors'[n + 1] = damage
  BY <1>1, <1>4, AppendProperties
<1>7. Received' = Append(Received, C!Xor(byte, damage))
  <2>. DEFINE more == Append(Received, C!Xor(byte, damage))
  <2>1. /\ more \in Seq(C!Byte) /\ Len(more) = n + 1
        /\ \A k \in 1..n : more[k] = Received[k]
        /\ more[n + 1] = C!Xor(byte, damage)
    BY <1>2, <1>3, AppendProperties
  <2>2. more = [k \in 1..(n + 1) |-> more[k]]
    <3>. HIDE DEF more
    <3>. QED  BY <2>1, LenProperties
  <2>. HIDE DEF more
  <2>3. \A k \in 1..(n + 1) : more[k] = C!Xor(body'[k], errors'[k])
    <3>1. \A k \in 1..(n + 1) : k \in 1..n \/ k = n + 1
      BY <1>2
    <3>2. \A k \in 1..n : Received[k] = C!Xor(body[k], errors[k])
      BY DEF Received
    <3>. QED  BY <1>5, <1>6, <2>1, <3>1, <3>2
  <2>4. Received' = [k \in 1..(n + 1) |-> C!Xor(body'[k], errors'[k])]
    BY <1>5 DEF Received
  <2>5. Received' = more
    BY <2>2, <2>3, <2>4
  <2>. QED  BY <2>5 DEF more
<1>8. crc' = CrcOf(body')
  BY <1>1, <1>2, <1>3, UpdateDivides DEF CrcInv
<1>9. receivedCrc' = CrcOf(Received')
  BY <1>1, <1>2, <1>3, <1>7, UpdateDivides DEF CrcInv
<1>. QED  BY <1>5, <1>6, <1>8, <1>9 DEF CrcInv

LEMMA CrcInductive == PartsSpec => []CrcInv
<1>1. PartsInit => CrcInv
  <2>. SUFFICES ASSUME PartsInit PROVE CrcInv
    OBVIOUS
  <2>1. body = <<>> /\ errors = <<>> /\ crc = C!Ones /\ receivedCrc = C!Ones
    BY DEF PartsInit, C!Init
  <2>2. C!TypeOK
    BY <2>1 DEF C!TypeOK, C!Ones, C!Word
  <2>. QED  BY <2>1, <2>2, CrcOfNothing DEF CrcInv
<1>2. CrcInv /\ C!TypeOK' /\ [PartsNext]_partsVars => CrcInv'
  <2>. SUFFICES ASSUME CrcInv, C!TypeOK', [PartsNext]_partsVars PROVE CrcInv'
    OBVIOUS
  <2>1. CASE C!Next
    <3>1. PICK byte \in Bytes, damage \in Errors : C!NextByte(byte, damage)
      BY <2>1 DEF C!Next
    <3>. QED  BY <3>1, CrcByteStep
  <2>2. CASE UNCHANGED crcVars
    BY <2>2 DEF CrcInv, Received, C!TypeOK, crcVars
  <2>3. C!Next \/ UNCHANGED crcVars
    BY DEF PartsNext, LogicRuns, CrcRuns, ConfRuns, PrintfRuns, LogRuns, StartupRuns, partsVars
  <2>. QED  BY <2>1, <2>2, <2>3
<1>. QED  BY <1>1, <1>2, CrcsFit, PTL DEF PartsSpec

\* What was added on the way, as a set of bits of the message.
LEMMA DamageIs ==
  ASSUME CrcInv
  PROVE  /\ C!Damage \in SUBSET (0..(8 * Len(body) - 1))
         /\ \A k \in 0..(8 * Len(body) - 1) :
              k \in C!Damage <=> ~(C!MessageBit(body, k) <=> C!MessageBit(Received, k))
<1>. DEFINE n == Len(body)
<1>1. /\ n \in Nat /\ DOMAIN errors = 1..n
      /\ \A k \in 1..n : errors[k] \subseteq 0..7
  BY BytesAre DEF C!Byte
<1>2. \A j : j \in C!Damage <=> \E k \in 1..n : \E i \in errors[k] : j = 8 * (k - 1) + i
  BY <1>1 DEF C!Damage
<1>. HIDE DEF n
<1>3. C!Damage \in SUBSET (0..(8 * n - 1))
  <2>1. ASSUME NEW k \in 1..n, NEW i \in errors[k] PROVE 8 * (k - 1) + i \in 0..(8 * n - 1)
    <3>1. i \in 0..7
      BY <1>1
    <3>. QED  BY <1>1, <3>1
  <2>. QED  BY <1>2, <2>1
<1>4. ASSUME NEW j \in 0..(8 * n - 1)
      PROVE  j \in C!Damage <=> ~(C!MessageBit(body, j) <=> C!MessageBit(Received, j))
  <2>. DEFINE m == 1 + j \div 8
              b == j % 8
  <2>1. m \in 1..n /\ b \in 0..7 /\ j = 8 * (m - 1) + b
    BY <1>1
  <2>2. ASSUME NEW k \in 1..n, NEW i \in errors[k], j = 8 * (k - 1) + i
        PROVE  b \in errors[m]
    <3>1. i \in 0..7
      BY <1>1
    <3>. HIDE DEF m, b
    <3>2. b = i /\ m = k
      BY <1>1, <2>1, <2>2, <3>1
    <3>. QED  BY <2>2, <3>2
  <2>3. j \in C!Damage <=> b \in errors[m]
    <3>. HIDE DEF m, b
    <3>. QED  BY <1>2, <2>1, <2>2
  <2>4. Received[m] = C!Xor(body[m], errors[m])
    BY <2>1 DEF Received, n
  <2>. QED  BY <2>3, <2>4 DEF C!MessageBit, C!Xor
<1>. QED  BY <1>3, <1>4 DEF n

\* The table-driven Get_CRC is the division by the polynomial, for bodies of any
\* length and any bytes, and a damage that spans at most 32 bits of a body,
\* wherever it is, changes the checksum, so that threadRecvProcFunc drops the
\* packet.
THEOREM ChecksumsRight == PartsSpec => []ChecksumRight
<1>1. CrcInv => C!CrcIsRemainder
  <2>. SUFFICES ASSUME CrcInv PROVE C!CrcIsRemainder
    OBVIOUS
  <2>1. C!Result(crc) = C!Remainder(body)
    BY DEF CrcInv, C!Result, C!Remainder, CrcOf
  <2>. QED  BY <2>1, CheckValueIs DEF C!CrcIsRemainder
<1>2. CrcInv => C!BurstDetected
  <2>. SUFFICES ASSUME CrcInv, C!Damage # {}, \A i, j \in C!Damage : i < j + 32
                PROVE  C!Result(receivedCrc) # C!Result(crc)
    BY DEF C!BurstDetected
  <2>1. body \in Seq(C!Byte) /\ Received \in Seq(C!Byte) /\ Len(Received) = Len(body)
    BY BytesAre
  <2>2. C!Remainders(body)[8 * Len(body)] # C!Remainders(Received)[8 * Len(body)]
    <3>. DEFINE damage == C!Damage
    <3>1. /\ damage \in SUBSET (0..(8 * Len(body) - 1)) /\ damage # {}
          /\ \A i, j \in damage : i < j + 32
          /\ \A k \in 0..(8 * Len(body) - 1) :
               k \in damage <=> ~(C!MessageBit(body, k) <=> C!MessageBit(Received, k))
      BY DamageIs
    <3>. HIDE DEF damage
    <3>. QED  BY <2>1, <3>1, BurstStays
  <2>. QED  BY <2>1, <2>2, BurstChanges DEF CrcInv
<1>3. CrcInv => ChecksumRight
  BY <1>1, <1>2 DEF ChecksumRight
<1>. QED  BY <1>3, CrcInductive, PTL

-----------------------------------------------------------------------------
(* The types of the parts *)

LEMMA LogicTypesRight == LogicInv => TypeOK
<1>. SUFFICES ASSUME LogicInv PROVE TypeOK
  OBVIOUS
<1>1. LogicTypes
  BY DEF LogicInv
<1>2. client \in 1..MaxClients /\ MaxClients \in Nat
  BY <1>1, LogicAssumption DEF LogicTypes
<1>3. seq \in 1..(2 * MaxClients)
  <2>1. 2 * client - 1 \in 1..(2 * MaxClients) /\ 2 * client \in 1..(2 * MaxClients)
    BY <1>2
  <2>. QED  BY <1>1, <2>1 DEF LogicTypes
<1>4. ASSUME NEW t \in Threads
      PROVE  /\ IF pc[t] = "idle" THEN msg[t] = NoMsg ELSE msg[t] \in Message
             /\ pc[t] \in {"reply", "unlock"} <=> logicPorcMutex = t
  <2>1. msg[t] \in Message \cup {NoMsg} /\ (msg[t] = NoMsg <=> pc[t] = "idle")
    BY <1>1 DEF LogicTypes
  <2>. QED  BY <1>1, <2>1 DEF LogicTypes
<1>5. /\ pos \in 0..(Len(sendQueue) + 1) /\ compared \in 1..(MaxClients + 1)
      /\ compared # NotCompared => pos \in DOMAIN sendQueue
  <2>1. DOMAIN sendQueue = 1..Len(sendQueue)
    <3>1. sendQueue \in Seq(ReplyMessage)
      BY <1>1 DEF LogicTypes
    <3>. QED  BY <3>1
  <2>2. /\ PassInv
        /\ \A k \in 1..Len(sendQueue) : sendQueue[k].request.client \in 1..MaxClients
    BY <1>1, Ids DEF LogicInv, ReplyMessage, Message
  <2>3. compared = NotCompared \/ compared \in 1..MaxClients
    BY <2>2 DEF PassInv
  <2>. QED  BY <1>2, <2>1, <2>2, <2>3 DEF PassInv, NotCompared
<1>. QED  BY <1>1, <1>3, <1>4, <1>5 DEF LogicTypes, TypeOK

\* Ports that are in a table of descriptors, each once, are not more than what is
\* in the table.
LEMMA PortsInTable ==
  ASSUME NEW f \in [S!Fd -> FileNames], NEW count \in 0..Len(Ports), NEW log \in {S!Stderr, 3},
         \A k \in 1..count : f[First(log) + k - 1] = Ports[k]
  PROVE  count <= Cardinality(Range(Ports) \cap Range(f))
<1>. DEFINE Open == Range(Ports) \cap Range(f)
            g == [k \in 1..count |-> Ports[k]]
<1>1. /\ Len(Ports) \in Nat /\ count \in Nat /\ First(log) \in {3, 4}
      /\ \A k \in 1..count : k \in 1..Len(Ports) /\ First(log) + k - 1 \in S!Fd
  BY PortsAre DEF First, S!Fd
<1>2. \A k \in 1..count : Ports[k] \in Range(f)
  BY <1>1 DEF Range
<1>3. g \in Injection(1..count, Open)
  <2>1. \A k \in 1..count : Ports[k] \in Open
    BY <1>1, <1>2, PortsAre
  <2>2. \A j, k \in 1..count : Ports[j] = Ports[k] => j = k
    BY <1>1, PortsAre
  <2>. QED  BY <2>1, <2>2 DEF Injection, IsInjective
<1>4. IsFiniteSet(Open)
  <2>1. Ports \in Seq(Range(Ports)) /\ IsInjective(Ports)
    BY PartsAssumption DEF S!StartupAssumption, S!IsInjective, S!Range, IsInjective, Range
  <2>2. IsFiniteSet(Range(Ports))
    BY <2>1, CardinalityOfList
  <2>. QED  BY <2>2, FS_Subset
<1>5. Cardinality(1..count) = count
  BY <1>1, FS_Interval
<1>. QED  BY <1>3, <1>4, <1>5, FS_Injection

LEMMA StartupTypes == StartInv => S!TypeOK
<1>. SUFFICES ASSUME StartInv PROVE S!TypeOK
  OBVIOUS
<1>1. /\ S!Range(Ports) = Range(Ports) /\ \A p \in S!Processes : S!Range(fds[p]) = Range(fds[p])
      /\ \A X : S!Cardinality(X) = Cardinality(X)
  BY DEF S!Range, Range, S!Cardinality, Cardinality
<1>2. ASSUME NEW p \in S!Processes
      PROVE  IF step[p] \in {"none", "ended"} THEN fds[p] = S!NoFds
             ELSE listening[p] <= Cardinality(Range(Ports) \cap Range(fds[p]))
  <2>1. /\ fds[p] \in [S!Fd -> FileNames] /\ listening[p] \in 0..Len(Ports)
        /\ Proper(step[p], fds[p], logFd[p], nullFd[p], listening[p])
    BY <1>2, Alone
  <2>2. CASE step[p] \in {"none", "ended"}
    BY <2>1, <2>2 DEF Proper
  <2>3. ASSUME step[p] \in Early
        PROVE  step[p] \notin {"none", "ended"}
               /\ listening[p] <= Cardinality(Range(Ports) \cap Range(fds[p]))
    <3>1. listening[p] = 0 /\ step[p] \notin {"none", "ended"}
      BY <2>1, <2>3 DEF Proper, Early
    <3>2. \A k \in 1..0 : fds[p][First(3) + k - 1] = Ports[k]
      OBVIOUS
    <3>. QED  BY <2>1, <3>1, <3>2, PortsInTable
  <2>4. ASSUME step[p] \in Late
        PROVE  step[p] \notin {"none", "ended"}
               /\ listening[p] <= Cardinality(Range(Ports) \cap Range(fds[p]))
    <3>1. step[p] \notin {"none", "ended"}
      BY <2>4 DEF Late, Full, Null, Exits
    <3>2. /\ logFd[p] \in {S!Stderr, 3}
          /\ \A k \in 1..listening[p] : fds[p][First(logFd[p]) + k - 1] = Ports[k]
      BY <2>1, <2>4 DEF Proper, LateTable
    <3>. QED  BY <2>1, <3>1, <3>2, PortsInTable
  <2>5. step[p] \in {"none", "ended"} \cup Early \cup Late
    BY <2>1 DEF Proper
  <2>. QED  BY <2>2, <2>3, <2>4, <2>5
<1>. QED  BY <1>1, <1>2 DEF StartInv, StartTypes, FileNames, S!TypeOK

\* What goes through a word or an unsigned short stays in it, log lines stay in
\* their buffer, and no process counts a port that it has not: whatever is sent,
\* logged, checked and started, for any bounds.
THEOREM PartsTypesCorrect == PartsSpec => []PartsTypeOK
<1>1. LogicInv /\ C!TypeOK /\ G!TypeOK /\ StartInv => PartsTypeOK
  BY LogicTypesRight, StartupTypes DEF PartsTypeOK
<1>. QED  BY <1>1, LogicInductive, CrcsFit, LinesFit, StartupInductive, PTL
=============================================================================
