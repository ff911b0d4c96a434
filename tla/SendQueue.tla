----------------------------- MODULE SendQueue -----------------------------
(***************************************************************************)
(* How a worker process sends replies.  Pool threads append messages to    *)
(* m_MsgSendQueue (msgSend).  ServerSendQueueThread takes them out and     *)
(* sends them; what the socket does not accept stays with the connection,  *)
(* in psendMemPointer, with iThrowsendCount > 0 and EPOLLOUT watched, and  *)
(* ngx_write_request_handler goes on with it from the event loop.          *)
(*                                                                         *)
(* One action is one stretch of code between two accesses to what another  *)
(* thread may touch: the queue (under its mutex, which the send thread     *)
(* holds for a whole pass), the semaphore, the atomic counters, the        *)
(* connection's send fields, the socket and its epoll registration.        *)
(*                                                                         *)
(* Each connection serves one client: reuse is the subject of ConnPool,    *)
(* which also shows that a connection is not put back to the pool, where   *)
(* its message is freed, while a thread is using it.  A request is one     *)
(* readable piece, a message is MsgLen pieces, and a message is known by   *)
(* its connection and its rank among the messages of that connection.      *)
(***************************************************************************)
EXTENDS Integers, Sequences, FiniteSets, SequencesExt

CONSTANTS
  Conns,     \* connections
  NoConn,    \* no connection
  MaxReqs,   \* bound on the requests of all clients
  MsgLen     \* pieces a message can be sent in

ASSUME SendQueueAssumption ==
  /\ IsFiniteSet(Conns)
  /\ NoConn \notin Conns
  /\ MaxReqs \in Nat
  /\ MsgLen \in Nat \ {0}

Msgs == Conns \X (1..MaxReqs)
NoMsg == <<NoConn, 0>>
NoEvent == [out |-> FALSE, hup |-> FALSE]

VARIABLES
  m_MsgSendQueue,
  m_semEventSendQueue,
  iThrowsendCount,     \* of each connection, as the next four
  psendMemPointer,     \* rank of the message it points to, 0 for NULL
  isendlen,
  epollout,            \* EPOLLOUT is watched
  current,             \* iCurrsequence is the one in the client's headers
  sock,                \* kernel: "open", "closed", or "pooled" once recycled
  wire,                \* kernel: what each socket has accepted, as ranks
  readable,            \* kernel: requests received and not read
  hungup,              \* the client has closed its side or reset
  asked,               \* requests the clients have sent, together
  jobs,                \* requests in the thread pool
  checked,             \* requests whose sequence number has been compared
  replied,             \* messages each connection has been given to msgSend
  allocated,           \* messages whose memory is allocated
  sendpc, pos, msg,    \* the send thread: place, position, message
  mainpc, ev, conn     \* the event loop: place, revents, connection

queueVars == <<m_MsgSendQueue, m_semEventSendQueue>>
slotVars == <<psendMemPointer, isendlen>>
clientVars == <<readable, hungup, asked>>
poolVars == <<jobs, checked, replied>>
sendVars == <<sendpc, pos, msg>>
mainVars == <<mainpc, ev, conn>>

vars == <<queueVars, slotVars, clientVars, poolVars, sendVars, mainVars,
          iThrowsendCount, epollout, current, sock, wire, allocated>>

Init ==
  /\ m_MsgSendQueue = <<>>
  /\ m_semEventSendQueue = 0
  /\ iThrowsendCount = [c \in Conns |-> 0]
  /\ psendMemPointer = [c \in Conns |-> 0]
  /\ isendlen = [c \in Conns |-> 0]
  /\ epollout = [c \in Conns |-> FALSE]
  /\ current = [c \in Conns |-> TRUE]
  /\ sock = [c \in Conns |-> "open"]
  /\ wire = [c \in Conns |-> <<>>]
  /\ readable = [c \in Conns |-> 0]
  /\ hungup = [c \in Conns |-> FALSE]
  /\ asked = 0
  /\ jobs = [c \in Conns |-> 0]
  /\ checked = [c \in Conns |-> 0]
  /\ replied = [c \in Conns |-> 0]
  /\ allocated = {}
  /\ sendpc = "sem" /\ pos = 1 /\ msg = NoMsg
  /\ mainpc = "wait" /\ ev = NoEvent /\ conn = NoConn

-----------------------------------------------------------------------------
(* The clients. *)

Request(c) ==
  /\ ~hungup[c]
  /\ asked < MaxReqs
  /\ asked' = asked + 1
  /\ readable' = [readable EXCEPT ![c] = @ + 1]
  /\ UNCHANGED <<queueVars, slotVars, poolVars, sendVars, mainVars, hungup,
                 iThrowsendCount, epollout, current, sock, wire, allocated>>

\* shutdown() or close() by the client, or a reset: what it has sent before
\* can still be read.
HangUp(c) ==
  /\ ~hungup[c]
  /\ hungup' = [hungup EXCEPT ![c] = TRUE]
  /\ UNCHANGED <<queueVars, slotVars, poolVars, sendVars, mainVars, readable,
                 asked, iThrowsendCount, epollout, current, sock, wire,
                 allocated>>

-----------------------------------------------------------------------------
(* The pool threads: threadRecvProcFunc, _HandleRegister and msgSend. *)

\* A request with a wrong CRC, a message code without a handler or a body of
\* the wrong length, or one of a client that has gone, is dropped.
DropRequest(c) ==
  /\ jobs[c] > 0
  /\ jobs' = [jobs EXCEPT ![c] = @ - 1]
  /\ UNCHANGED <<queueVars, slotVars, clientVars, sendVars, mainVars, checked,
                 replied, iThrowsendCount, epollout, current, sock, wire,
                 allocated>>

\* The sequence number is the one in the header, and the handler is called.
CheckSequence(c) ==
  /\ jobs[c] > 0
  /\ current[c]
  /\ jobs' = [jobs EXCEPT ![c] = @ - 1]
  /\ checked' = [checked EXCEPT ![c] = @ + 1]
  /\ UNCHANGED <<queueVars, slotVars, clientVars, sendVars, mainVars, replied,
                 iThrowsendCount, epollout, current, sock, wire, allocated>>

\* Mutant of MsgSend: sem_post is forgotten.
MsgSendSilently(c) ==
  /\ checked[c] > 0
  /\ sendpc \in {"sem", "count"}
  /\ LET m == <<c, replied[c] + 1>>
     IN  /\ m_MsgSendQueue' = Append(m_MsgSendQueue, m)
         /\ allocated' = allocated \cup {m}
  /\ checked' = [checked EXCEPT ![c] = @ - 1]
  /\ replied' = [replied EXCEPT ![c] = @ + 1]
  /\ UNCHANGED <<m_semEventSendQueue, slotVars, clientVars, sendVars, mainVars,
                 jobs, iThrowsendCount, epollout, current, sock, wire>>

\* The reply is allocated, filled in and queued, and the semaphore is posted
\* with the queue's mutex still held; the send thread, which holds the mutex
\* for a pass, is not in one.
MsgSend(c) ==
  /\ checked[c] > 0
  /\ sendpc \in {"sem", "count"}
  /\ LET m == <<c, replied[c] + 1>>
     IN  /\ m_MsgSendQueue' = Append(m_MsgSendQueue, m)
         /\ allocated' = allocated \cup {m}
  /\ m_semEventSendQueue' = m_semEventSendQueue + 1
  /\ checked' = [checked EXCEPT ![c] = @ - 1]
  /\ replied' = [replied EXCEPT ![c] = @ + 1]
  /\ UNCHANGED <<slotVars, clientVars, sendVars, mainVars, jobs,
                 iThrowsendCount, epollout, current, sock, wire>>

-----------------------------------------------------------------------------
(* send(), as sendproc() uses it. *)

\* The socket accepts n pieces of the message of connection c.
Accepts(c, n) ==
  /\ sock[c] = "open"
  /\ n \in 1..isendlen[c]
  /\ wire' = [wire EXCEPT ![c] = @ \o [i \in 1..n |-> psendMemPointer[c]]]
  /\ isendlen' = [isendlen EXCEPT ![c] = @ - n]

\* EAGAIN: the buffer is full.
IsFull(c) == sock[c] = "open"

\* Any other error: the client is gone, or the descriptor is closed.
Fails(c) == hungup[c] \/ sock[c] # "open"

-----------------------------------------------------------------------------
(* ServerSendQueueThread. *)

\* Mutant of SemWait: the semaphore is counted down without waiting for it.
SemWaitNotWaiting ==
  /\ sendpc = "sem"
  /\ m_semEventSendQueue' = m_semEventSendQueue - 1
  /\ sendpc' = "count"
  /\ UNCHANGED <<m_MsgSendQueue, slotVars, clientVars, poolVars, pos, msg,
                 mainVars, iThrowsendCount, epollout, current, sock, wire,
                 allocated>>

SemWait ==
  /\ sendpc = "sem"
  /\ m_semEventSendQueue > 0
  /\ m_semEventSendQueue' = m_semEventSendQueue - 1
  /\ sendpc' = "count"
  /\ UNCHANGED <<m_MsgSendQueue, slotVars, clientVars, poolVars, pos, msg,
                 mainVars, iThrowsendCount, epollout, current, sock, wire,
                 allocated>>

\* sem_wait() is interrupted by a signal: the thread goes on all the same.
SemInterrupted ==
  /\ sendpc = "sem"
  /\ sendpc' = "count"
  /\ UNCHANGED <<queueVars, slotVars, clientVars, poolVars, pos, msg, mainVars,
                 iThrowsendCount, epollout, current, sock, wire, allocated>>

\* m_iSendMsgQueueCount > 0, then the mutex and the start of a pass.
StartPass ==
  /\ sendpc = "count"
  /\ sendpc' = IF m_MsgSendQueue # <<>> THEN "scan" ELSE "sem"
  /\ pos' = 1
  /\ UNCHANGED <<queueVars, slotVars, clientVars, poolVars, msg, mainVars,
                 iThrowsendCount, epollout, current, sock, wire, allocated>>

EndPass ==
  /\ sendpc = "scan"
  /\ pos > Len(m_MsgSendQueue)
  /\ sendpc' = "sem"
  /\ pos' = 1
  /\ UNCHANGED <<queueVars, slotVars, clientVars, poolVars, msg, mainVars,
                 iThrowsendCount, epollout, current, sock, wire, allocated>>

\* The sequence number has changed: the message is removed and freed.
DropMessage ==
  /\ sendpc = "scan"
  /\ pos <= Len(m_MsgSendQueue)
  /\ LET m == m_MsgSendQueue[pos]
     IN  /\ ~current[m[1]]
         /\ allocated' = allocated \ {m}
  /\ m_MsgSendQueue' = RemoveAt(m_MsgSendQueue, pos)
  /\ UNCHANGED <<m_semEventSendQueue, slotVars, clientVars, poolVars, sendVars,
                 mainVars, iThrowsendCount, epollout, current, sock, wire>>

\* The sequence number is right; iThrowsendCount is tested next.
KeepMessage ==
  /\ sendpc = "scan"
  /\ pos <= Len(m_MsgSendQueue)
  /\ current[m_MsgSendQueue[pos][1]]
  /\ msg' = m_MsgSendQueue[pos]
  /\ sendpc' = "throw"
  /\ UNCHANGED <<queueVars, slotVars, clientVars, poolVars, pos, mainVars,
                 iThrowsendCount, epollout, current, sock, wire, allocated>>

\* An earlier message of the connection is still being sent by the event loop.
SkipMessage ==
  /\ sendpc = "throw"
  /\ iThrowsendCount[msg[1]] > 0
  /\ pos' = pos + 1
  /\ msg' = NoMsg
  /\ sendpc' = "scan"
  /\ UNCHANGED <<queueVars, slotVars, clientVars, poolVars, mainVars,
                 iThrowsendCount, epollout, current, sock, wire, allocated>>

\* Mutant of TakeMessage: iThrowsendCount is not tested.
TakeMessageUntested ==
  /\ sendpc = "throw"
  /\ psendMemPointer' = [psendMemPointer EXCEPT ![msg[1]] = msg[2]]
  /\ isendlen' = [isendlen EXCEPT ![msg[1]] = MsgLen]
  /\ m_MsgSendQueue' = RemoveAt(m_MsgSendQueue, pos)
  /\ sendpc' = "send"
  /\ UNCHANGED <<m_semEventSendQueue, clientVars, poolVars, pos, msg, mainVars,
                 iThrowsendCount, epollout, current, sock, wire, allocated>>

\* The message leaves the queue for the connection's send fields.
TakeMessage ==
  /\ sendpc = "throw"
  /\ iThrowsendCount[msg[1]] <= 0
  /\ psendMemPointer' = [psendMemPointer EXCEPT ![msg[1]] = msg[2]]
  /\ isendlen' = [isendlen EXCEPT ![msg[1]] = MsgLen]
  /\ m_MsgSendQueue' = RemoveAt(m_MsgSendQueue, pos)
  /\ sendpc' = "send"
  /\ UNCHANGED <<m_semEventSendQueue, clientVars, poolVars, pos, msg, mainVars,
                 iThrowsendCount, epollout, current, sock, wire, allocated>>

\* sendproc(): everything is sent or it fails, or a rest stays.
SendMessage ==
  /\ sendpc = "send"
  /\ \/ \E n \in 1..MsgLen :
          /\ Accepts(msg[1], n)
          /\ sendpc' = IF n = isendlen[msg[1]] THEN "sent" ELSE "rest"
     \/ /\ IsFull(msg[1])
        /\ sendpc' = "rest"
        /\ UNCHANGED <<wire, isendlen>>
     \/ /\ Fails(msg[1])
        /\ sendpc' = "sent"
        /\ UNCHANGED <<wire, isendlen>>
  /\ UNCHANGED <<queueVars, psendMemPointer, clientVars, poolVars, pos, msg,
                 mainVars, iThrowsendCount, epollout, current, sock, allocated>>

\* The branches that free the message: all of it sent, or an error.
FinishMessage ==
  /\ sendpc = "sent"
  /\ allocated' = allocated \ {<<msg[1], psendMemPointer[msg[1]]>>}
  /\ psendMemPointer' = [psendMemPointer EXCEPT ![msg[1]] = 0]
  /\ iThrowsendCount' = [iThrowsendCount EXCEPT ![msg[1]] = 0]
  /\ msg' = NoMsg
  /\ sendpc' = "scan"
  /\ UNCHANGED <<queueVars, isendlen, clientVars, poolVars, pos, mainVars,
                 epollout, current, sock, wire>>

\* The branches that leave a rest: iThrowsendCount first, then the event.
ThrowUp ==
  /\ sendpc = "rest"
  /\ iThrowsendCount' = [iThrowsendCount EXCEPT ![msg[1]] = @ + 1]
  /\ sendpc' = "watch"
  /\ UNCHANGED <<queueVars, slotVars, clientVars, poolVars, pos, msg, mainVars,
                 epollout, current, sock, wire, allocated>>

\* Mutant of WatchOut: EPOLLOUT is not added to the events.
WatchOutForgotten ==
  /\ sendpc = "watch"
  /\ msg' = NoMsg
  /\ sendpc' = "scan"
  /\ UNCHANGED <<queueVars, slotVars, clientVars, poolVars, pos, mainVars,
                 iThrowsendCount, epollout, current, sock, wire, allocated>>

\* ngx_epoll_oper_event(EPOLL_CTL_MOD) with EPOLLOUT added.
WatchOut ==
  /\ sendpc = "watch"
  /\ epollout' = [epollout EXCEPT ![msg[1]] = TRUE]
  /\ msg' = NoMsg
  /\ sendpc' = "scan"
  /\ UNCHANGED <<queueVars, slotVars, clientVars, poolVars, pos, mainVars,
                 iThrowsendCount, current, sock, wire, allocated>>

SendStep ==
  \/ SemWait \/ StartPass \/ EndPass \/ DropMessage \/ KeepMessage
  \/ SkipMessage \/ TakeMessage \/ SendMessage \/ FinishMessage \/ ThrowUp
  \/ WatchOut

-----------------------------------------------------------------------------
(* The event loop: ngx_epoll_process_events and its handlers. *)

\* epoll_wait() reports an event of connection c.  It is level-triggered.  The
\* socket may or may not have room; the end of the client's stream shows as
\* EPOLLIN with EPOLLRDHUP.  What is reported may be old when it is handled.
EpollWait(c, out) ==
  /\ mainpc = "wait"
  /\ sock[c] = "open"
  /\ out => epollout[c]
  /\ LET in == readable[c] > 0 \/ hungup[c]
     IN  /\ in \/ out
         /\ ev' = [out |-> out, hup |-> hungup[c]]
         /\ mainpc' = IF in THEN "read" ELSE "write"
  /\ conn' = c
  /\ UNCHANGED <<queueVars, slotVars, clientVars, poolVars, sendVars,
                 iThrowsendCount, epollout, current, sock, wire, allocated>>

\* The event loop is done with the event, or goes on with its EPOLLOUT part.
DoneWithEvent == mainpc' = "wait" /\ ev' = NoEvent /\ conn' = NoConn
AfterRead ==
  \/ ev.out /\ mainpc' = "write" /\ UNCHANGED <<ev, conn>>
  \/ ~ev.out /\ DoneWithEvent

\* ngx_read_request_handler receives a request and gives it to the thread pool.
ReadRequest ==
  /\ mainpc = "read"
  /\ readable[conn] > 0
  /\ readable' = [readable EXCEPT ![conn] = @ - 1]
  /\ jobs' = [jobs EXCEPT ![conn] = @ + 1]
  /\ AfterRead
  /\ UNCHANGED <<queueVars, slotVars, sendVars, hungup, asked, checked, replied,
                 iThrowsendCount, epollout, current, sock, wire, allocated>>

\* recvproc meets the end of the stream and closes the socket, ...
ReadEnd ==
  /\ mainpc = "read"
  /\ readable[conn] = 0
  /\ sock' = [sock EXCEPT ![conn] = "closed"]
  /\ mainpc' = "inrecy"
  /\ UNCHANGED <<queueVars, slotVars, clientVars, poolVars, sendVars, ev, conn,
                 iThrowsendCount, epollout, current, wire, allocated>>

\* ... and inRecyConnectQueue changes the sequence number.
InRecyConnectQueue ==
  /\ mainpc = "inrecy"
  /\ current' = [current EXCEPT ![conn] = FALSE]
  /\ AfterRead
  /\ UNCHANGED <<queueVars, slotVars, clientVars, poolVars, sendVars,
                 iThrowsendCount, epollout, sock, wire, allocated>>

\* EPOLLOUT together with EPOLLERR, EPOLLHUP or EPOLLRDHUP.
HupThrowDown ==
  /\ mainpc = "write"
  /\ ev.hup
  /\ iThrowsendCount' = [iThrowsendCount EXCEPT ![conn] = @ - 1]
  /\ DoneWithEvent
  /\ UNCHANGED <<queueVars, slotVars, clientVars, poolVars, sendVars, epollout,
                 current, sock, wire, allocated>>

\* ngx_write_request_handler: sendproc() sends some or all of the rest.
WriteRest ==
  /\ mainpc = "write"
  /\ ~ev.hup
  /\ \E n \in 1..MsgLen :
       /\ Accepts(conn, n)
       /\ \/ n < isendlen[conn] /\ DoneWithEvent
          \/ n = isendlen[conn] /\ mainpc' = "unwatch" /\ UNCHANGED <<ev, conn>>
  /\ UNCHANGED <<queueVars, psendMemPointer, clientVars, poolVars, sendVars,
                 iThrowsendCount, epollout, current, sock, allocated>>

\* sendproc() returns -1.
WriteIsFull ==
  /\ mainpc = "write"
  /\ ~ev.hup
  /\ IsFull(conn)
  /\ DoneWithEvent
  /\ UNCHANGED <<queueVars, slotVars, clientVars, poolVars, sendVars,
                 iThrowsendCount, epollout, current, sock, wire, allocated>>

\* sendproc() returns -2.
WriteFails ==
  /\ mainpc = "write"
  /\ ~ev.hup
  /\ Fails(conn)
  /\ mainpc' = "post"
  /\ UNCHANGED <<queueVars, slotVars, clientVars, poolVars, sendVars, ev, conn,
                 iThrowsendCount, epollout, current, sock, wire, allocated>>

\* Mutant of Unwatch: EPOLLOUT is left among the events.
UnwatchForgotten ==
  /\ mainpc = "unwatch"
  /\ mainpc' = "post"
  /\ UNCHANGED <<queueVars, slotVars, clientVars, poolVars, sendVars, ev, conn,
                 iThrowsendCount, epollout, current, sock, wire, allocated>>

\* ngx_epoll_oper_event(EPOLL_CTL_MOD) with EPOLLOUT taken away.
Unwatch ==
  /\ mainpc = "unwatch"
  /\ epollout' = [epollout EXCEPT ![conn] = FALSE]
  /\ mainpc' = "post"
  /\ UNCHANGED <<queueVars, slotVars, clientVars, poolVars, sendVars, ev, conn,
                 iThrowsendCount, current, sock, wire, allocated>>

\* Mutant of PostSem: iThrowsendCount goes down here already.
PostSemThrowDown ==
  /\ mainpc = "post"
  /\ m_semEventSendQueue' = m_semEventSendQueue + 1
  /\ iThrowsendCount' = [iThrowsendCount EXCEPT ![conn] = @ - 1]
  /\ mainpc' = "free"
  /\ UNCHANGED <<m_MsgSendQueue, slotVars, clientVars, poolVars, sendVars, ev,
                 conn, epollout, current, sock, wire, allocated>>

PostSem ==
  /\ mainpc = "post"
  /\ m_semEventSendQueue' = m_semEventSendQueue + 1
  /\ mainpc' = "free"
  /\ UNCHANGED <<m_MsgSendQueue, slotVars, clientVars, poolVars, sendVars, ev,
                 conn, iThrowsendCount, epollout, current, sock, wire,
                 allocated>>

\* Mutant of FreeRest: psendMemPointer is not set to NULL.
FreeRestDangling ==
  /\ mainpc = "free"
  /\ allocated' = allocated \ {<<conn, psendMemPointer[conn]>>}
  /\ mainpc' = "down"
  /\ UNCHANGED <<queueVars, slotVars, clientVars, poolVars, sendVars, ev, conn,
                 iThrowsendCount, epollout, current, sock, wire>>

FreeRest ==
  /\ mainpc = "free"
  /\ allocated' = allocated \ {<<conn, psendMemPointer[conn]>>}
  /\ psendMemPointer' = [psendMemPointer EXCEPT ![conn] = 0]
  /\ mainpc' = "down"
  /\ UNCHANGED <<queueVars, isendlen, clientVars, poolVars, sendVars, ev, conn,
                 iThrowsendCount, epollout, current, sock, wire>>

ThrowDown ==
  /\ mainpc = "down"
  /\ iThrowsendCount' = [iThrowsendCount EXCEPT ![conn] = @ - 1]
  /\ DoneWithEvent
  /\ UNCHANGED <<queueVars, slotVars, clientVars, poolVars, sendVars, epollout,
                 current, sock, wire, allocated>>

\* The steps that a handler, once called, goes on with.
HandlerStep ==
  \/ ReadRequest \/ ReadEnd \/ InRecyConnectQueue \/ HupThrowDown \/ WriteRest
  \/ WriteIsFull \/ WriteFails \/ Unwatch \/ PostSem \/ FreeRest \/ ThrowDown

-----------------------------------------------------------------------------
(* ServerRecyConnectionThread: PutOneToFree(), when the wait is over. *)

\* Threads that are using the connection, see ConnPool.
InUse(c) == msg[1] = c \/ conn = c \/ checked[c] > 0

Recycle(c) ==
  /\ sock[c] = "closed"
  /\ ~current[c]
  /\ ~InUse(c)
  /\ allocated' = allocated \ {<<c, psendMemPointer[c]>>}
  /\ psendMemPointer' = [psendMemPointer EXCEPT ![c] = 0]
  /\ iThrowsendCount' = [iThrowsendCount EXCEPT ![c] = 0]
  /\ sock' = [sock EXCEPT ![c] = "pooled"]
  /\ UNCHANGED <<queueVars, isendlen, clientVars, poolVars, sendVars, mainVars,
                 epollout, current, wire>>

Next ==
  \/ \E c \in Conns :
       \/ Request(c) \/ HangUp(c)
       \/ DropRequest(c) \/ CheckSequence(c) \/ MsgSend(c)
  \/ SendStep
  \/ SemInterrupted
  \/ \E c \in Conns, out \in BOOLEAN : EpollWait(c, out)
  \/ HandlerStep
  \/ \E c \in Conns : Recycle(c)

Spec == Init /\ [][Next]_vars

\* The threads are scheduled; signals need not come.  A socket whose client does not hang up takes
\* more data now and then, and epoll, being level-triggered, reports it.
Fairness ==
  /\ WF_vars(SendStep)
  /\ WF_vars(HandlerStep)
  /\ SF_vars(WriteRest)
  /\ \A c \in Conns : SF_vars(EpollWait(c, TRUE))

FairSpec == Spec /\ Fairness
-----------------------------------------------------------------------------
(* Correctness *)

\* Types of the queue, of the connections' send fields and of the threads'
\* places.
TypeOK ==
  /\ m_MsgSendQueue \in Seq(Msgs)
  /\ m_semEventSendQueue \in Nat
  /\ iThrowsendCount \in [Conns -> Int]
  /\ psendMemPointer \in [Conns -> 0..MaxReqs]
  /\ isendlen \in [Conns -> 0..MsgLen]
  /\ epollout \in [Conns -> BOOLEAN]
  /\ current \in [Conns -> BOOLEAN]
  /\ sock \in [Conns -> {"open", "closed", "pooled"}]
  /\ wire \in [Conns -> Seq(1..MaxReqs)]
  /\ readable \in [Conns -> 0..MaxReqs]
  /\ hungup \in [Conns -> BOOLEAN]
  /\ asked \in 0..MaxReqs
  /\ jobs \in [Conns -> 0..MaxReqs]
  /\ checked \in [Conns -> 0..MaxReqs]
  /\ replied \in [Conns -> 0..MaxReqs]
  /\ allocated \subseteq Msgs
  /\ sendpc \in {"sem", "count", "scan", "throw", "send", "sent", "rest",
                 "watch"}
  /\ pos \in Nat \ {0}
  /\ msg \in Msgs \cup {NoMsg}
  /\ mainpc \in {"wait", "read", "inrecy", "write", "unwatch", "post", "free",
                 "down"}
  /\ ev \in [out : BOOLEAN, hup : BOOLEAN]
  /\ conn \in Conns \cup {NoConn}

\* A client that has not hung up receives whole messages: what the send thread
\* and the write handler put on a wire is cut into MsgLen pieces of one
\* message after the other, each message at most once.
FramedWire ==
  \A c \in Conns : ~hungup[c] =>
    \A i, j \in 1..Len(wire[c]) :
      wire[c][i] = wire[c][j]
        <=> (i - 1) \div MsgLen = (j - 1) \div MsgLen

Queued == Range(m_MsgSendQueue)
Kept == {<<c, psendMemPointer[c]>> : c \in Conns} \cap Msgs

\* No message is freed while it can still be reached, and none twice, even
\* when a client hangs up; and none is leaked as long as its client stays.
MessageOwned ==
  /\ Queued \cup Kept \subseteq allocated
  /\ Queued \cap Kept = {}
  /\ Cardinality(Queued) = Len(m_MsgSendQueue)
  /\ \A m \in allocated : m \in Queued \cup Kept \/ hungup[m[1]]

\* The send thread and the write handler never work on the send fields of the
\* same connection at the same time, nor change its events at the same time
\* (ngx_epoll_oper_event reads and writes pConn->events with no lock):
\* iThrowsendCount and EPOLLOUT pass the connection from one to the other, even
\* when the client hangs up in between.
SendExclusive ==
  (conn = msg[1] /\ sendpc \in {"send", "sent", "rest", "watch"}) =>
    mainpc \in {"wait", "read", "inrecy"} \/ (mainpc = "write" /\ ev.hup)

\* As long as the client stays, a rest that waits for the event loop is
\* guarded: iThrowsendCount is 1, so the send thread keeps off, and EPOLLOUT is
\* watched, so the write handler will be called.  Without a rest, the counter
\* is back at 0.  The exceptions are a send thread that has the connection in
\* hand and a write handler that has sent the last piece.
RestGuarded ==
  \A c \in Conns :
    (/\ ~hungup[c]
     /\ msg[1] # c
     /\ conn = c => mainpc \notin {"unwatch", "post", "free", "down"}) =>
    /\ psendMemPointer[c] # 0 => iThrowsendCount[c] = 1 /\ epollout[c]
    /\ psendMemPointer[c] = 0 => iThrowsendCount[c] = 0 /\ ~epollout[c]

\* A message that the socket did not take at once is sent to its end, unless
\* the client hangs up.
RestSent ==
  \A c \in Conns : \A n \in 1..MaxReqs :
    (psendMemPointer[c] = n) ~> (psendMemPointer[c] # n \/ hungup[c])

\* A message that stays in the queue for ever has at some time had the rest of
\* an earlier message of its connection before it: the sem_post of msgSend,
\* done with the mutex held, always leads to a pass that sees the message.
\* (That a pass comes after the rest has been sent is not so: see README.)
MessageExamined ==
  \A m \in Msgs :
    <>[](m \in Queued) => <>(m \in Queued /\ iThrowsendCount[m[1]] > 0)

\* A connection that is put back to the pool has iThrowsendCount = 0; the
\* code says of the other case that "this should not happen"
\* (ngx_c_socket_conn.cxx:207).
RecycledQuiet == [][\A c \in Conns : Recycle(c) => iThrowsendCount[c] = 0]_vars
=============================================================================
