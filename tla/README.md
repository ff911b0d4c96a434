# A TLA+ model of Cnginx

Cnginx (`src/nginx`) is a TCP server in the manner of nginx. A master process
forks workers; a worker runs one epoll event loop, a pool of threads for
requests, a thread that sends replies and a thread that recycles connections.
This directory models the parts of it whose correctness depends on the order in
which processes, threads, clients and signals act, checks them with TLC on small
instances, and proves with TLAPS what holds for every instance.

## 1. The system

Threads of a worker process (`ngx_worker_process_init`):

| thread | runs | shares |
|---|---|---|
| main | `ngx_epoll_process_events` for ever: accept, read, write handlers | everything below |
| N pool threads | `CThreadPool::ThreadFunc` | `m_MsgRecvQueue` under `m_pthreadMutex`; connections, unlocked |
| send thread | `ServerSendQueueThread` | `m_MsgSendQueue` under its mutex; the send fields of connections, unlocked |
| recycling thread | `ServerRecyConnectionThread` | the recycling queue and the free list, each under its mutex |

A request travels like this. The read handler cuts the byte stream into packets
(`net/ngx_c_socket_request.cxx`), prefixes each with a pointer to its connection
and the connection's sequence number, and queues it for the pool. A pool thread
checks CRC and sequence number (`logic/ngx_c_slogic.cxx`), calls the handler for
the message code, and queues the reply with `msgSend`. The send thread compares
the sequence number again and sends; what the socket does not take stays with
the connection, and the write handler goes on with it when epoll reports
EPOLLOUT. When a client leaves, `recvproc` closes the socket, changes the
sequence number and queues the connection; after `Sock_RecyConnectionWaitTime`
seconds the recycling thread puts it back into the free list.

| component | state | operations | what makes it correct |
|---|---|---|---|
| thread pool (`misc/ngx_c_threadpool.cxx`) | queue, counters, `m_shutdown`, per thread `ifrunning` | Create, ThreadFunc, inMsgRecvQueueAndSignal, Call, StopAll | no lost wake-up; each job once, in order; Create and StopAll end |
| connection pool (`net/ngx_c_socket_conn.cxx`, `..._accept.cxx`) | three lists, two counters read unlocked, per connection `fd`, `iCurrsequence`, `inRecyTime` | get, free, close, inRecyConnectQueue, recycling thread, accept | a connection is in one place; never freed while used; sequence numbers tell clients apart; descriptors neither leaked nor mixed up |
| send path (`net/ngx_c_socket.cxx`, `..._request.cxx`) | queue, semaphore, per connection `iThrowsendCount`, `psendMemPointer`, `psendbuf`, `isendlen`, `events` | msgSend, send thread, write handler, epoll dispatch | whole messages, once; memory freed once; a rest is always finished; one thread at a time per connection |
| packet reception (`net/ngx_c_socket_request.cxx`) | `curStat`, header buffer, `precvbuf`, `irecvlen`, `precvMemPointer` | read handler, proc_p1, proc_plast | packets of the stream, however it is cut; no overrun; no leak |
| master (`proc/ngx_process_cycle.cxx`, `signal/ngx_signal.cxx`) | signal mask, `ngx_reap`, children | fork, sigsuspend, handler, waitpid | no death goes unnoticed |
| event loop (`net/ngx_c_socket.cxx`, `..._accept.cxx`) | per worker an epoll object, a batch of events, `use_accept4`; the listening socket, shared by all workers | epoll_wait, dispatch, accept and its errors | clients are served whichever worker is faster, full or dead; no event is out of date when it is handled |
| business logic (`logic/ngx_c_slogic.cxx`) | none of its own | CRC check, dispatch, `_HandleRegister`, `_HandleLogIn` | each registration answered, once, its reply well-formed and not taken to be sent when the connection has changed hands; wrong requests dropped |
| mutexes (`_include/ngx_c_lockmutex.h` and users) | five kinds of mutex in a worker | lock, unlock | no circular wait |
| CRC32 (`misc/ngx_c_crc32.cxx`) | the table | Get_CRC | is the CRC-32; damage is noticed |
| configuration (`app/ngx_c_conf.cxx`, `ngx_string.cxx`) | the item list, a stream | Load, GetString, GetIntDefault | the items are those of the lines; Load ends |
| formatting, logging (`app/ngx_printf.cxx`, `ngx_log.cxx`) | a buffer, the log's descriptor and level | ngx_vslprintf, ngx_log_stderr, ngx_log_error_core | nothing outside the buffer; whole lines; numbers as they are |
| start-up, daemon (`app/nginx.cxx`, `proc/ngx_daemon.cxx`, listening sockets) | descriptors, exit codes | `main` up to the master's loop | one master with all ports and its log, and nothing else open |
| title, memory, addresses | globals | wrappers | |

The behaviours that are hard to test are listed in `PROJECT.json` under
`hazards`, each at its line, with the properties that would catch it. They fall
into five groups: wake-ups that could be lost (thread pool, send thread), fields
of a connection that several threads use without a lock, connections and
descriptors that are reused while somebody still has a pointer or a number,
partial results of the kernel (pieces of a stream, partial sends, failing
calls), and signals that merge.

## 2. The modules

| module | what it is |
|---|---|
| `JobQueue` | abstract: what the thread pool promises the event loop |
| `ThreadPool` | the thread pool in detail; implements `JobQueue` (`HandsOutInOrder`) |
| `ThreadPoolProofs` | theorems about it |
| `LeasePool` | abstract: what the connection pool promises the threads with pointers |
| `ConnPool` | the connection pool with accept, recycling and users; implements `LeasePool` (`LeasesHold`) |
| `SendQueue` | pool threads, send thread, write handler and the clients around them |
| `SendQueueProofs` | theorems about it |
| `RecvPacket` | the packet state machine of one connection object |
| `ConnectionProofs` | theorems about `ConnPool` and `RecvPacket` |
| `Master` | master, signals, workers as children |
| `Workers` | the event loops of all workers around the listening socket they share |
| `ListLemmas` | what the proofs share: induction over the natural numbers, what `push_back`, `pop_front` and `erase` do to a list without duplicates, and what a piece of a list is |
| `Logic` | a request from the pool's queue to the reply that the send thread takes |
| `Locks` | every thread and mutex of a worker |
| `ProcessProofs` | theorems about `Workers`, `Master` and `Locks` |
| `Crc32` | the checksum, on words of 32 bits |
| `Conf` | the configuration file, character by character and line by line |
| `Printf` | ngx_vslprintf, directive by directive |
| `Log` | the lines of the two logging functions |
| `Startup` | `main` and the daemon, with their descriptors |
| `MCThreadPool`, `MCConnPool`, `MCSendQueue`, `MCRecvPacket`, `MCMaster`, `MCLocks`, `MCWorkers` | the instances of these modules for TLC |
| `Parts` | `Logic`, `Crc32`, `Conf`, `Printf`, `Log` and `Startup` side by side, and their properties |
| `PartsProofs` | theorems about `Startup`, `Logic`, `Log` and `Crc32` |
| `TextProofs` | theorems about `Printf` |
| `ConfProofs` | theorems about `Conf` |
| `MCParts` | the instances of the parts for TLC: files, formats, packets, ports |

Variables and actions carry the names of the code where TLA+ allows it. An
action is a stretch of code between two accesses to state that another thread,
process or client may touch; a critical section that only touches what its mutex
protects is one action. Variables called `...pc` say where a thread is.

**ThreadPool.** `m_shutdown` is written outside the mutex, so the test of the
wait condition and `pthread_cond_wait` are two actions (`TestAndStay`,
`CondWait`). The signal of `Call` is an action of its own after `Enqueue`, since
the mutex has been given up. A job is known by its rank. `RunJob` is the whole
of `threadRecvProcFunc`. `CreateFails` is `pthread_create` failing, after which
the worker exits.

**ConnPool.** A connection is its rank in `m_connectionList`; a client its rank
among those accepted. `Accept` is `ngx_event_accept` with `ngx_get_connection`;
`Bind` is what both branches of the latter do. The recycling thread samples the
time, waits for the mutex, and frees one expired connection per round.
`Validate` is the comparison of sequence numbers by a pool thread
(`ngx_c_slogic.cxx:112`) or by the send thread (`ngx_c_socket.cxx:520`), with no
lock, and `DoneUsing` the end of the use. The data a message header has are kept
in `headers` for ever: any of them may be compared at any later time. Receiving
memory and send memory, which `PutOneToFree` frees, are in the next two modules;
`LeasesHold` says that it frees them only when no thread is using them.

**SendQueue.** The send thread holds the mutex of the queue for a whole pass, so
`MsgSend` waits for the pass to end; inside the pass every access to the
connection is an action: compare the sequence number (`DropMessage`,
`KeepMessage`), test `iThrowsendCount` (`SkipMessage`, `TakeMessage`), send
(`SendMessage`), then free (`FinishMessage`, which stands for the branches that
send all, 560-567, send nothing, 594-605, or fail, 626-633) or raise the counter
and watch EPOLLOUT (`ThrowUp`, `WatchOut`, both for 568-589 and 608-624). The
write handler is `WriteRest`, `WriteIsFull`, `WriteFails`, then `Unwatch`,
`PostSem`, `FreeRest`, `ThrowDown` in the order of the code. A message is
`MsgLen` pieces; `wire` records which message each piece accepted by the socket
belongs to, which is all that framing needs. A signal may interrupt `sem_wait`
(`SemInterrupted`). Each connection serves one client: reuse is the subject of
`ConnPool`, whose `LeasesHold` justifies that `Recycle` waits for the users.

**RecvPacket.** The length field is one byte that holds the length itself:
`ntohs` and the two bytes of `pkgLen` are abstracted, the comparisons are not.
The other header fields are bytes like those of the body. A chunk is what one
`recv` returns. EAGAIN and EINTR change nothing and are stuttering steps.

**Master.** A pending signal is in a set, so several deaths may be one SIGCHLD.
`sigsuspend` may deliver several signals, one handler interrupting another
(`DeliverOther` in the middle of the `waitpid` loop); SIGCHLD itself is blocked
during its handler. The master cannot be interrupted during `sleep(1)`.

**Workers.** Each worker has its epoll object (`watched`), the events it has not
handled yet (`batch`) and the clients it has descriptors for. `EpollWait` takes as
many ready sockets as fit, in any order; then they are handled one by one, while
other workers and clients act. The outcomes of `ngx_event_accept` are an action
each; between `Accept` and `WatchClient` the worker is in the rest of that
function. Level-triggered epoll is `Ready`, evaluated anew by each `EpollWait`.
`Read` is the handler of clients as far as the loop is concerned: one request, or
the end. A dead worker's sockets are closed by the kernel.

**Logic.** Packets have their fields as they are in memory, that is in network
byte order seen by a little-endian host: a 16-bit field is a number, a 32-bit
field a pair, and `Swap16` and `Swap32` do what `htons` and `ntohl` do. Sizes are
those of the structures (`Store16` cuts what an `unsigned short` cannot hold). A
body is its length and CRC, since nothing else of it is used. The connection may
be closed and given to the next client at any point, as soon as possible. The
send thread's pass is in the module up to the call of `sendproc`: `StartPass`,
`Compare` (the sequence numbers, a message that is out of date is freed),
`SkipMessage` (`iThrowsendCount` is not 0), `TakeToSend` and `EndPass`, with the
mutex of the queue held from `StartPass` to `EndPass`, so that `Reply` waits for it.
Between `Compare` and `TakeToSend`, and after that, the connection may change hands
like anywhere else. What `iThrowsendCount` is and what becomes of a reply that is
taken, partial sends included, is in `SendQueue`: here any reply may be skipped in
any pass. `compared` records which client the connection had at the comparison.

**Locks.** `Main`, `Send`, `Recycler` and the pool's threads each have a stack of
mutexes. `MainAsks` etc. list what their code may lock with what stack; `Ask` is
the call of `pthread_mutex_lock`, `Lock` its return.

**Crc32.** A word is the set of its 1 bits, so that no bit beyond 31 is lost or
gained unnoticed. The reference is division bit by bit, without table and
reflection, with the standard check value.

**Conf.** A file is a sequence of characters of eight kinds; `at` and the flags
`eof` and `error` are the stream. A round of the loop of `Load` is `ReadLine`,
`ReadNothing` or `ReadFails`. A tab at the start of a line is treated as a blank
there, and a carriage return at the end as one.

**Printf.** A format is a sequence of parsed directives (the parsing of `%` and
flags, lines 52-100, is in their fields). `Round` writes one into a buffer with
room and one without limit. Integers have their width: an `unsigned int` has
`UintValues` values, a `uint64_t` `Uint64Values`, and `scale`, which is multiplied
by 10 for each place, wraps as its type does (from 20 places on). A double is a
multiple of 1/`Unit`. Its casts to `int64_t` and `uint64_t` (`Int64`, `Uint64`) are
undefined beyond the range of the type; the model has what x86-64 answers. A double
of the machine computes exactly up to `MantissaValues`, the model always.

**Log.** A line is made of characters that stand for its parts: head, text,
error number, newline. `ngx_log_stderr` and its call of `ngx_log_error_core` are
two actions, as both write.

**Startup.** A process has descriptors, numbered as the kernel numbers them (the
lowest free one). Every call that the code checks may fail. A daemon is the copy
of its launcher. A master that runs may be killed, with its workers, and the
program started again.

The modules refer to each other at their borders: `RecvPacket` delivers the
packets that `ThreadPool` queues, `Logic` handles them and `SendQueue` sends the
replies; `ConnPool` provides the connections to all of them, `Locks` has their
mutexes together, `Workers` the processes, `Startup` the listening sockets and
`Master` the children.

## 3. The runs

| run | instance | shows |
|---|---|---|
| `ThreadPoolCheck` | 3 threads, 4 jobs, fair | `WorkConserving`: no thread sleeps beside a job nobody comes for; `SaturationWarningTrue`: the test in `Call` is right whenever it is made; `HandsOutInOrder`: implements `JobQueue`; `CreateEnds`, `EveryJobTaken` |
| `ThreadPoolStop` | 2 threads, 1 job, fair | **violated** `StopAllReturns`: the broadcast is lost and `pthread_join` hangs |
| `ConnPoolCheck` | 1 listening and 1 pooled connection, 3 clients, 2 descriptors, 1 thread, wait 2 ticks, fair | `PoolPartition`, `HeaderFresh`, `FdOwned`, `LeasesHold`, `RecycleEventually` |
| `ConnPoolClients` | 3 descriptors | **violated** `ClientLimit`: more clients than `worker_connections` |
| `ConnPoolFd` | 2 clients, 1 thread | **violated** `NoCrossTalk`: a thread works with the descriptor of another client |
| `SendQueueCheck` | 2 clients, 2 requests, messages of 2 pieces, fair | `FramedWire`, `MessageOwned`, `SendExclusive`, `RestGuarded`; `RestSent`, `MessageExamined` |
| `SendQueueRecycle` | 1 client | **violated** `RecycledQuiet`: `iThrowsendCount` is not 0 when a connection is recycled |
| `RecvPacketSafe` | header 2, packets up to 4, bytes 1 to 5, streams up to 6 | `BufferBounds`, `NoPacketLeaked`, `Reassembled` |
| `MasterCheck` | 3 workers, fair | `ZombieNoticed`, `ZombieReaped` |
| `LocksCheck` | 3 pool threads, 2 connections | `NoCircularWait`, and TLC finds no deadlock |
| `WorkersCheck` | 2 workers with 1 and 2 descriptors and batches of 2 and 1, 2 clients, fair | `EventsCurrent`: no event of a batch is out of date; `ClientsServed`: a client is accepted while a worker has room, and what it sends is read; `TypeOK`: a watched socket is nonblocking, with accept4 and without |
| `PartsCheck` | one of the six parts below, chosen at the beginning | as below |

`PartsCheck` checks six parts that share no state with each other:

| part | instance | properties |
|---|---|---|
| `Logic` | 2 threads, 2 packets of 8 kinds, 2 clients in turn, fair | `AnswersRight` (`ReplyWellFormed`, `AskerThere`), `ValidReplied` |
| `Crc32` | bodies of up to 5 bytes, damaged in every byte in 4 ways | `ChecksumRight` (`CrcIsRemainder`, `BurstDetected`) |
| `Conf` | all files of up to 4 characters; 12 chosen lines in twos and threes | `ConfigurationRight` (`ItemsRight`, `FirstLineCounts`) |
| `Printf` | every directive alone, five in threes, buffers of 0 to 14, doubles and places within the types and beyond them | `FormattingRight` (`PrefixOfFull`, which includes that nothing is beyond the end, `NumberFaithful`, `FloatRounded`) |
| `Log` | texts of ten lengths around the buffer's, two lines each way | `LogRight` (`LinesWhole`, `ErrnoWhole`) |
| `Startup` | 2 starts, 2 ports | `MasterRight` (`OneMaster`, `NothingStray`, `LogUsable`), `LauncherTrue` |

Every module also has a type invariant, checked in its run (those of the six
parts in `PartsTypeOK`, `ConfigurationRight` and `FormattingRight`). Names that are
looked up are one small and one capital letter. Each property of a passing run has a mutant in its module, an operator that changes one action
the way a plausible bug would, and one for nearly every part if it is a
conjunction; the pairs are in `PROJECT.json`.

*Why the bounds are enough.* Three threads allow one to be busy, one blocked and
one on its way at the same time, and four jobs outnumber them. Three clients and
one pooled connection make the pool grow, and two descriptors make a number be
reused while its connection waits; a wait of two ticks and uses of at most one
tick are the smallest values that keep the order `MaxBurst <
RecyConnectionWaitTime`. One thread uses connections: users change nothing that
another one reads, so two at once say no more than each of them alone. Two
replies can belong to one connection, one being sent and one behind it, or to
two clients between which the send thread alternates. Six bytes hold
three packets of a bare header, or a legal packet after an illegal header, and
every legal length from the shortest to the longest occurs. With three workers
two can die before the master has handled the first death. Of the two workers
that race for the same clients one is full with its first and takes two events
at a time, that of the client and that of the listening socket; the other can have
both clients and takes one event, so that ready sockets are left out.
With three pool threads and two connections a handler can wait for another one
of its connection that waits for the send thread, while a third is at work
elsewhere; for any number `NoCircularWait` is proved (section 5). Two starts of
the program are enough for one to be in the other's way at every point. The
lengths of the log's texts put the end of a line before, on and after every test
against `last`. Five bytes hold a burst of 32 bits that begins and ends inside a
byte.

*Fairness.* Threads are scheduled (weak fairness); a thread that waits for a
mutex that is released again and again gets it (strong fairness of `Lock`). In
`SendQueue` a client that stays reads, so its socket accepts data now and then,
and level-triggered epoll keeps reporting a watched EPOLLOUT (strong fairness of
`EpollWait(c, TRUE)` and `WriteRest`). In `Master` a pending SIGCHLD is let in
although other signals keep coming. In `Workers` a worker runs while it lives,
and `epoll_wait` reports ready sockets in turn (the kernel moves a reported one
to the end of its list): a socket that is ready again and again is in a batch
again and again. In `Logic` threads run, a pass goes on once it has begun (weak
fairness of `Pass`; that one begins is not assumed), and the mutexes of the connection
and of the queue are got like any other (strong fairness of `Lock` and `Reply`). Nothing is assumed
of packets, clients, signals, failures or of `StopAll` being called.

*Assumption.* `ConnPool` assumes `MaxBurst < RecyConnectionWaitTime`: no thread
takes as long between its comparison of the sequence number and its last use of
the connection as a connection waits for recycling (80 seconds in `nginx.conf`),
and the clock is not set forward. The code has no other protection, and without
the assumption `LeasesHold` fails.

## 4. What the checks found

1. `StopAll` can hang (`ngx_c_threadpool.cxx:146`). The flag and the broadcast
   can fall between the test at line 100 and the wait at 106. Today the call is
   unreachable, behind the endless loop of `ngx_worker_process_cycle`.
2. `worker_connections` does not limit clients: the pool grows when empty
   (`ngx_c_socket_conn.cxx:123`).
3. A descriptor is closed at once (`ngx_c_socket_request.cxx:103`), not after the
   wait that protects the connection: a thread past its check can `send` to, or
   change the epoll registration of, the next client that gets the number.
4. `iThrowsendCount` is left above 0 by a client that leaves with a rest
   outstanding, and taken below 0 by repeated events with EPOLLOUT and a hang-up
   (`ngx_c_socket.cxx:457`).

Number 3 is also the limit of what `AskerThere` of `Logic` says: a reply passes the
comparison of `ngx_c_socket.cxx:520` only while the client that asked has the
connection, but the connection may change hands between the comparison and the
`send` that `sendproc` makes (:557), and then the reply goes to whom `NoCrossTalk` shows.

Behaviours of the model that no text of the repository excludes, so that there
is no violation run for them: a reply can stay queued when the write handler's
`sem_post` (`ngx_c_socket_request.cxx:310`) leads to a pass before the counter
has gone down (:316), until another reply wakes the send thread
(`MessageExamined` is stated so as to allow it, and `ValidReplied` says that a
registration has its reply in the queue, not that it is sent); a reply can overtake an earlier
one of its connection when the counter goes down in the middle of a pass; after
a half-close the next message can overwrite an outstanding rest, which leaks
memory and mixes messages on the wire (therefore `~hungup` in `FramedWire` and
`MessageOwned`). A worker that dies is not replaced (`ngx_reap` is never read).

Three more things that the models show, and that their properties leave out: the
reply to a registration has 65008 bytes (`ngx_c_slogic.cxx:167`), more than twice
the maximum length of a packet (`ngx_comm.h:5-6`), which the server holds against
its clients only; its length still fits the 16 bits of `pkgLen`, and
`ReplyWellFormed` asks no more. A line of the configuration that is longer than
499 characters is handled in pieces (`ngx_c_conf.cxx:41`), so that the tail of a long comment can
configure an item (therefore `ShortLines` in `ItemsRight`). If reading the
configuration fails, as it does for a directory called `nginx.conf`, `Load` goes
round for ever (`ngx_c_conf.cxx:38-42`, `ReadFails`; therefore `loaded` in
`ItemsRight`).

## 5. What is proved

TLAPS checks the following for every value of the constants, under the named
assumptions of the modules (`PoolAssumption`, `RecvPacketAssumption`,
`MasterAssumption`, `LocksAssumption`, `ConnPoolAssumption`,
`SendQueueAssumption`, `WorkersAssumption`, `PartsAssumption` with those of the
parts: finiteness, natural numbers, a header no longer than the longest packet,
room in a log line for its heads, ports and threads that differ, requests whose
header tells their length, arguments within their types, and in `ConnPool` the
`MaxBurst < RecyConnectionWaitTime` of section 3).

| theorem | statement |
|---|---|
| `ThreadPoolProofs!TypeCorrect` | `Spec => []TypeOK` |
| `ThreadPoolProofs!WorkConserved` | `Spec => []WorkConserving` |
| `ThreadPoolProofs!SaturationSound` | `Spec => []SaturationWarningTrue` |
| `ThreadPoolProofs!ImplementsJobQueue` | `Spec => HandsOutInOrder`, refinement of `JobQueue` |
| `ConnectionProofs!RecvTypeCorrect`, `BuffersRespected`, `PacketsNotLeaked` | `RecvTypeOK`, `BufferBounds`, `NoPacketLeaked` |
| `ConnectionProofs!StreamsReassembled` | `RecvSpec => []Reassembled` |
| `ConnectionProofs!TypeCorrect`, `Partitioned`, `HeadersFresh`, `DescriptorsOwned` | `TypeOK` of `ConnPool`, `PoolPartition`, `HeaderFresh`, `FdOwned` |
| `ConnectionProofs!ImplementsLeasePool` | `Spec => LeasesHold`, refinement of `LeasePool` |
| `SendQueueProofs!TypeCorrect`, `NeverTogether`, `RestsGuarded`, `MessagesOwned`, `WiresFramed` | `TypeOK`, `SendExclusive`, `RestGuarded`, `MessageOwned`, `FramedWire` |
| `ProcessProofs!TypeCorrect`, `BatchesCurrent` | `TypeOK`, `EventsCurrent` of `Workers` |
| `ProcessProofs!MasterTypeCorrect`, `DeathsNoticed` | `MasterTypeOK`, `ZombieNoticed` of `Master` |
| `ProcessProofs!LocksTypeCorrect`, `DeadlockFree` | `LocksTypeOK` (mutual exclusion), `NoCircularWait` of `Locks` |
| `PartsProofs!MastersRight`, `LaunchersTrue` | `PartsSpec => []MasterRight`, `PartsSpec => LauncherTrue` |
| `PartsProofs!AnswersAreRight` | `PartsSpec => []AnswersRight` |
| `PartsProofs!LogsRight`, `LinesFit` | `PartsSpec => []LogRight`, `TypeOK` of `Log` |
| `PartsProofs!CrcsFit` | `TypeOK` of `Crc32` |
| `PartsProofs!ChecksumsRight` | `PartsSpec => []ChecksumRight` |
| `TextProofs!FormattingsRight` | `PartsSpec => []FormattingRight` |
| `ConfProofs!ConfigurationsRight` | `PartsSpec => []ConfigurationRight` |
| `PartsProofs!PartsTypesCorrect` | `PartsSpec => []PartsTypeOK` |

*ThreadPool.* `WorkConserving` counts threads, and is not inductive alone: that a
thread about to wait still has an empty queue needs who holds the mutex
(`MutexInv`) and what the test saw (`TestInv`); that taking a job lowers both
sides needs `QueueInv`; the saturation test needs `CountInv`, that
`m_iRunningThreadNum` is the number of threads between the two atomic updates;
the refinement needs `JobInv`, that no two threads have the same job. `IInv` is
their conjunction. The proof goes action by action, with lemmas on
cardinalities for a thread that enters or leaves one of the counted sets.

*RecvPacket.* `RecvInv` adds to the types and the two properties `StatInv`: the
state names the buffer that is written, and a header not yet begun is waited for
from offset 0. The lemmas `WaitForHeaderStep`, `ProcPlastStep`, `ProcP1Step` and
`WaitForRestStep` follow the functions of the code. `Reassembled` compares what
was delivered with `Packets`, which cuts the whole stream from its front, each
packet found where the last one ended; the handler only ever knows the last piece.
`Parsed(bytes, out, q)` bridges the two: the first `q` bytes are the packets
`out`, whatever follows. It is kept by bytes that arrive (`ParsedMore`), moves on by
an illegal header (`ParsedIllegal`) or a packet (`ParsedPacket`), and gives
`Packets` when the rest is no packet yet (`ParsedEnd`). `PartInv` says that the
stream is parsed up to the bytes in the current buffer and that those are its
first bytes, so `StreamInv`, with `RecvInv`, is inductive. That `PacketsFrom`
is the function its recursive equation describes (`FromUnfolds`) is shown by
induction from the end of the stream.

*Master.* Both invariants are inductive as they stand.

*Locks.* `NoCircularWait` is not inductive: it needs to know what a thread that
asks may hold. `LocksIInv` says of every thread that it holds nothing, or one mutex,
which is an outer one (`m_recyconnqueueMutex`, a `logicPorcMutex`) if the thread
asks for another, which is an inner one (`m_connectionMutex`,
`m_sendMessageQueueMutex`); or an outer and an inner one, and then it asks for
nothing. No mutex is both, so the holder of an inner mutex waits for nothing, and
no set of threads waits for itself.

*ConnPool.* The invariant is built in four layers, each with a theorem of its own.
`PoolInv` says where a connection is: the lists are without duplicates and
counted, the places are disjoint, and a connection has a client from the time it
leaves the free list until it returns. `HeaderInv` says that a number in a header
is never ahead of its connection's, which is why a change of client, moving the
number ahead, can never meet an old header again. `FdInv` says who will close a
descriptor: the registered connections and the one that `ngx_event_accept` has in
hand, each a different one. `UseInv` is the arithmetic of times on which the
refinement rests: a use began at most `MaxBurst` ago, and if its client has left
since, the connection is in the recycling queue since then or later, so
`MaxBurst < RecyConnectionWaitTime` keeps the recycling thread from it.

*SendQueue.* `SendExclusive` is not inductive: what keeps the two threads apart is
a counter that neither of them reads under a lock. `HoldInv` says that
`iThrowsendCount` is 1 as long as the event loop touches the send fields or is
about to; with a client that has hung up this is all that remains, and therefore
`GuardInv`, which determines counter, events and message from who has the
connection, is about clients that stay. `CountInv` and `OwnInv` count requests
and messages, so that a new message is not one that is still allocated.
`WireInv` cuts a wire into blocks of `MsgLen` pieces, one message each, the last
one whole or with its rest outstanding; `FramedWire` follows from it.

*Workers.* `EventsCurrent` needs that nobody else closes the socket of an event or
takes what it has to read: a client is in the backlog or with one worker
(`OwnInv`), a batch has no socket twice (`ShapeInv`), and the client that is being
set up is not watched before it is nonblocking (`SetUpInv`).

*Startup.* What a master has open in the end depends on every place before it.
`Proper` gives, for each place of `main` and `ngx_daemon`, the whole table of
descriptors: the terminal, the log if it could be opened, the ports in their
order, then what is in hand there, then nothing. The lowest free number is
therefore always known (`NewFdIs`), and a place that closes or keeps too much
breaks the next table. That one master runs is about several processes:
`Exclusive` says that two of them have ports only while a launcher that has
forked is on its way out, and a socket can be bound only if nobody else has one
(`Alone`). `DaemonInv` ties a daemon to its launcher. `LaunchersTrue` follows from
the step that leads to `exit0`, the fork, at a place with all ports.

*Logic.* That a reply passes the comparison only while the client that asked is there
rests on the sequence numbers: `LogicTypes` has a connected client's as 2n - 1 for
the n-th client and an even one between two clients, so a number in a message that
still compares equal is that of the same client (`EqualNumbers`). `WorkInv` follows a
message from check to reply, `IdInv` says that a message is in the queue, with one
thread or answered, and answered once. `PassInv` is about the pass: what has been
compared stays in its place of the queue until it is taken or skipped, which rests
on the queue's mutex (`Reply` waits for it). A reply leaves the queue from the middle
(`RemovalStep`, with `RemoveAtIs` of `ListLemmas`). Byte orders are converted by
`Swap16` and `Swap32`, which are their own inverses (`SwapTwice`, `SwapTwice32`).

*Log.* `FillIs`, `ErrnoIs` and `EndIs` say what each call leaves in the buffer, by
position and for any buffer in which both heads have room; `LineOf` composes them
into what a line is. The newline that overwrites the end of a full line may take
the blank after an error number and never more, because `ngx_log_errno` leaves
one byte free. `LogInv` adds that text is handed on with its head and
without newline, so that the second line is one line too.

*Crc32.* `Get_CRC` takes a byte at a time from the low end of a word through a table,
the reference a bit at a time at the high end. `CrcInv` says that both variables of
the loop are the reversed remainders of what has been read. A byte keeps it
(`UpdateDivides`) because eight divisions of a word with a byte to come are eight
divisions of the two added up, and of the low eight bits alone, which is the table,
added to the rest shifted (`EightBits`: dividing is linear). The recursive
functions of the code and of the reference are what their equations say
(`IterationExists`, an iteration of any operation on words exists). For damage, the two
remainders are followed bit by bit from the first bit that differs: their
difference is then not empty, its lowest place rises by at most one with each bit, and
what leaves at the top comes back through the polynomial's bit 0, so that 32 bits
later it has not vanished (`BurstStays`); equal bits after that cannot
make different words equal, as a division can be undone (`BurstChanges`). The check
value is computed step by step (`CheckValueIs`).

*Printf.* `PrintfInv` says that the text in the buffer is the unlimited one cut off
at `last`. That a round keeps this (`RoundKeeps`) is what `WriteIs` is for: where there is
room for one character more, a directive writes its text (`TextOf`) as far as
there is room, whatever it is made of: sign, padding, digits, point
(`WriteFloatIs` is the longest of its cases); where there is none, it only appends.
The arithmetic of cutting (`CutTwice`, `CutSecond`, `CutThen`) is proved for all
texts. `DigitsAre` says what the conversion gives, by induction over the number: digits
that denote it, the first not 0; `NumberShows` puts padding in front, and
`RemainderIs` follows the argument through its type. `NearestIs` is the arithmetic of rounding: rounding the
fraction and carrying it is rounding the number; `DigitsShort`, that a number
below `scale` has no more digits than places, so that nothing is ever cut off
the wrong place, and `ValuePadded`, that zeros in front do not change it. This is
said of doubles and places within the types (`Exact`): there no multiplication
of `scale` has wrapped (`Unwrapped`) and the casts change nothing (`Int64Is`,
`FractionNat`). That the text is the unlimited one cut off at `last` holds with
wrapped scales and casts out of range, too.

*Conf.* `ConfInv` ties the items to the place in the file: `Matched` says that
there is an increasing list of the ends of lines, one for each item, that lists
exactly the lines with an item that end before `at` (all of them, at the end of the
file, where the last line may lack its newline). A round of `Load` keeps it
(`MatchedStep`) because `fgets` stops where a line ends (`ReadsLine`, for lines that
fit the buffer) and because `ItemsOf` makes of that line the item it
says or nothing (`LineItems`). There the code cuts blanks off, from both ends and
in two orders, while `Says` describes the inner text; `TrimStrips` and `StrippedOnce`
say that they mean the same text, and only one. Independently of the length
of lines, `EqualsGrow` counts the characters `=` that have been read, of which each
item needs one. `FirstLinesCount` follows from the order of that list.

*Types of the parts.* `PartsTypeOK` collects the types of the parts that begin in
one state; those of `Conf` and `Printf`, whose files and formats are chosen at
the beginning, are in `ConfigurationRight` and `FormattingRight`. Each follows from
the invariant of its part; that a process counts no port it has not
(`StartupTypes`) needs that the ports are different, so that as many files as
counted are in its table (`PortsInTable`).

*Induction.* The library's induction theorems cannot be used by the installed
provers, as they take an operator. `ListLemmas` has induction over sets and over
steps instead (`SetInduction`, `StepInduction`), from the least element of a
non-empty set of numbers (`LeastNatural`); a proof defines the set for which its claim holds.

Only model-checked: liveness (`CreateEnds`, `EveryJobTaken`, `RecycleEventually`,
`RestSent`, `MessageExamined`, `ZombieReaped`, `ClientsServed`, `ValidReplied`:
fairness and ENABLED are beyond this prover). Every invariant and action property
of a passing run is proved.

## 6. What is not modelled, and why

- Branches guarded by `g_stopEvent`: it is 0 and nothing sets it
  (`app/nginx.cxx:52`). This leaves out `clearconnection`, `clearMsgSendQueue`,
  the drain of the recycling thread and the end of the send thread.
- Mutex, semaphore and `epoll_ctl(MOD)` calls that fail: the code logs and goes on,
  and they fail only for arguments that are wrong.
- The process title, addresses, `new` and `delete`: wrappers without state that
  another part depends on.
- In `SendQueue`: a `send` that fails for another reason than a client that has left,
  as for want of memory (`sendproc` returns -2, `ngx_c_socket_request.cxx:250-261`).
  The send thread then frees the message, and the write handler what is left of
  it, as if it had been sent (:314-316), but with EPOLLOUT still watched.
- In `SendQueue` and `Workers`: the SIGPIPE that `send` may raise. That a worker may die
  at any time is in `Workers` and `Master`, whatever it dies of.
- In `Printf`: the rounding of the machine's own arithmetic on doubles above
  `MantissaValues`; what other machines than x86-64 make of casts out of range.
- In `Log`: a text with a `%`, which `ngx_log_stderr` would hand on as a format
  (`ngx_log.cxx:72`). No message of the program makes one.
- In `Conf`: names and values too long for their fields, which the configuration
  forbids (nginx.conf:3), and `atoi`.
- In `Startup`: a program started with one of the descriptors 0, 1 and 2 closed.
- Signal handlers that log while a thread is inside the functions they call.
- Memory ordering below the level of sequentially consistent accesses for the
  plain fields `m_shutdown`, `ifrunning` and the send fields.

## 7. Plan

Done: all modules of section 2, with the proofs of section 5. Nothing of the plan
is left; section 6 says what the models leave out.
